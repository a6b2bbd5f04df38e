SPECIFICATION Spec
CONSTANTS
  Dir = Dir
  Leaf = Leaf
  Twin = Twin
  F = F
  G = G
  File = {F, G}
  FileOf <- OneFileEach
  Agent = {a, b}
  ClaimId = {c1, c2}
  Inside <- LeafInDir
  Asked <- Mode
  Slot = {s1}
  Lease = 1
  MaxGen = 2
  TornWrites = FALSE
  Null = Null
  Torn = Torn
  Path <- AllThree
SYMMETRY Interchangeable
INVARIANTS TypeOK ExclusionUnlessRevived ExclusiveHoldsTop GenerationsUnique
PROPERTIES ClaimHistory LeasesAreAtomic
