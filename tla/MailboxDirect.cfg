SPECIFICATION FairSpec
CONSTANTS
  x = x
  y = y
  z = z
  m2 = m2
  Msg = {m1, m2}
  Agent = {x, y}
  Sender <- FromX
  Recipient <- ToY
  Everyone = Everyone
  AutoAck = FALSE
  Legacy <- OldMail
  OperatorMoves <- AllMoves
  MaxFaults = 2
  None = None
INVARIANTS ProvenHasCopy ConfirmedIsDelivered HandedIsObserved RejectedNeverReached
PROPERTIES EverythingSettles PolledIsHanded
