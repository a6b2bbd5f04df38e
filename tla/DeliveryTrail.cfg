SPECIFICATION TrailSpec
CONSTANTS
  Key = {k1}
  None = None
  MaxTransitions = 8
  Time = {0, 1, 2}
INVARIANTS CheckedIsWritable ProvenDeliveryKept VerifiedHasEvidence
CHECK_DEADLOCK FALSE
