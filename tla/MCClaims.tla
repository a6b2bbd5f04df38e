------------------------------ MODULE MCClaims ------------------------------
(* Claims on small instances: a directory, a file in it, and another file whose *)
(* name differs only in characters that fencing file names do not keep.         *)
EXTENDS Claims, TLC

CONSTANTS Dir, Leaf, Twin, F, G

DirAndLeaf == {Dir, Leaf}
AllThree   == {Dir, Leaf, Twin}
LeafInDir  == {<<Dir, Leaf>>}

OneFileEach == [x \in Path |-> IF x = Dir THEN F ELSE G]

Interchangeable == Permutations(Agent) \union Permutations(ClaimId)
                     \union Permutations(Slot)
=============================================================================
