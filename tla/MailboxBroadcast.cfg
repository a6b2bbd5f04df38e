SPECIFICATION Spec
CONSTANTS
  x = x
  y = y
  z = z
  m2 = m2
  Msg = {m1}
  Agent = {x, y, z}
  Sender <- FromX
  Recipient <- ToAll
  Everyone = Everyone
  AutoAck = TRUE
  Legacy <- NoLegacy
  OperatorMoves <- Withdraw
  MaxFaults = 1
  None = None
INVARIANTS TypeOK ConfirmedIsDelivered RecipientsFrozen
