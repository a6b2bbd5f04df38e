SPECIFICATION Spec
CONSTANTS
  x = x
  y = y
  z = z
  m2 = m2
  Msg = {m1}
  Agent = {x, y}
  Sender <- FromX
  Recipient <- ToY
  Everyone = Everyone
  AutoAck = TRUE
  Legacy <- NoLegacy
  OperatorMoves <- NoMoves
  MaxFaults = 0
  None = None
PROPERTIES ReplayIsIdempotent
