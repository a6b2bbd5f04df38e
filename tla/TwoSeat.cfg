SPECIFICATION Spec
CONSTANTS
  Seat = {a, b, c}
  Unassigned = Unassigned
  MaxStamp = 3
  Null = Null
  Torn = Torn
INVARIANTS TypeOK SeatsDistinct OneWriterPerGeneration ChecksNameOneSeat ReturnedIsKept
PROPERTIES ClosedForGood RecoveryIsLast CutShortIsLost
