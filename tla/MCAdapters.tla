----------------------------- MODULE MCAdapters -----------------------------
(* Adapters on a small instance: one adapter and one command-line agent. *)
EXTENDS Adapters

CONSTANTS Leaf, G

NoHierarchy == {}
OneFile     == [x \in Path |-> G]
=============================================================================
