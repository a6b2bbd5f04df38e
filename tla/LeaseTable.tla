----------------------------- MODULE LeaseTable -----------------------------
(***************************************************************************)
(* What the claim store promises, with nothing of how: a table of leases,  *)
(* each granted once, in one step, when no live lease is in its way, with a*)
(* generation newer than any its counter gave before.  A live lease lapses *)
(* by itself; a renewal may come late and bring back a lapsed one; what is *)
(* released stays released, and the terms of a lease never change.         *)
(* Claims.LeasesAreAtomic: ClaimManager, whose operations are many file    *)
(* operations each, implements this table.                                 *)
(***************************************************************************)
EXTENDS Naturals

CONSTANTS
  ClaimId,  \* leases that may ever be granted
  Agent, Path,
  Inside,   \* <<a, d>>: path a is a proper ancestor directory of path d
  FileOf,   \* the counter that numbers the leases on each path
  NoTerms   \* of a lease not granted yet

VARIABLES
  terms,  \* of each lease: owner, path, mode, generation
  state   \* of each lease: "none", "live", "lapsed" or "released"

vars == <<terms, state>>

Terms == [owner : Agent, path : Path, mode : {"exclusive", "shared"}, gen : Nat]

Overlap(x, y) == x = y \/ <<x, y>> \in Inside \/ <<y, x>> \in Inside

InTheWay(t, u) ==
  Overlap(t.path, u.path) /\ (t.mode = "exclusive" \/ u.mode = "exclusive")

Init ==
  /\ terms = [c \in ClaimId |-> NoTerms]
  /\ state = [c \in ClaimId |-> "none"]

\* A grant may come so late that the lease has run out already.
Grant(c, t) ==
  /\ state[c] = "none" /\ t \in Terms
  /\ \A d \in ClaimId : state[d] # "none" =>
       /\ ~(state[d] = "live" /\ InTheWay(terms[d], t))
       /\ FileOf[terms[d].path] = FileOf[t.path] => terms[d].gen < t.gen
  /\ terms' = [terms EXCEPT ![c] = t]
  /\ \E st \in {"live", "lapsed"} : state' = [state EXCEPT ![c] = st]

Renew(c) ==
  /\ state[c] \in {"live", "lapsed"}
  /\ state' = [state EXCEPT ![c] = "live"]
  /\ UNCHANGED terms

Lapse ==
  /\ \E C \in SUBSET {c \in ClaimId : state[c] = "live"} :
       state' = [c \in ClaimId |-> IF c \in C THEN "lapsed" ELSE state[c]]
  /\ UNCHANGED terms

Release(c) ==
  /\ state[c] \in {"live", "lapsed"}
  /\ state' = [state EXCEPT ![c] = "released"]
  /\ UNCHANGED terms

Next ==
  \/ \E c \in ClaimId : Grant(c, terms'[c]) \/ Renew(c) \/ Release(c)
  \/ Lapse

Spec == Init /\ [][Next]_vars
=============================================================================
