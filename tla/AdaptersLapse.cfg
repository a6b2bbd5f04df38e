SPECIFICATION FairASpec
CONSTANTS
  Leaf = Leaf
  G = G
  File = {G}
  FileOf <- OneFile
  Agent = {a, b}
  Adapter = {a}
  ClaimId = {c1, c2}
  Path = {Leaf}
  Inside <- NoHierarchy
  Asked = {"exclusive"}
  Slot = {s1}
  Lease = 1
  MaxGen = 1
  TornWrites = TRUE
  Null = Null
  Torn = Torn
INVARIANTS ATypeOK 
PROPERTIES UnattendedClaimLapses ReleasedIsDropped
