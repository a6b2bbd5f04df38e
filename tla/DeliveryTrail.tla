--------------------------- MODULE DeliveryTrail ----------------------------
(***************************************************************************)
(* The ledger together with what its hash-chained transition lists retain: *)
(* every state a receipt has passed through, in order, and when.  The      *)
(* times are the callers': `at`, or the clock of the caller's machine,     *)
(* which may be behind the clock that stamped the receipt last.  The hashes*)
(* bind a list to its receipt; here the list itself is kept, so that a     *)
(* state can be held against the ones that came before it.                 *)
(***************************************************************************)
EXTENDS DeliveryLedger, Sequences, Naturals

CONSTANTS
  MaxTransitions,  \* bound: transitions of one receipt
  Time             \* bound: the times that are ever recorded

ASSUME BoundAssumption == MaxTransitions \in Nat /\ Time \subseteq Nat

VARIABLES
  updated,      \* receipt.updated_at
  transitions   \* receipt.transitions: the `to` and the `at` of each entry

trailVars == <<receipt, updated, transitions>>

Entry == [to : State, at : Time]

TrailInit ==
  /\ Init
  /\ updated = [k \in Key |-> 0]
  /\ transitions = [k \in Key |-> <<>>]

\* One file replacement writes the new head, its time and the entry for it.
Record(k, to, at) ==
  /\ updated' = [updated EXCEPT ![k] = at]
  /\ transitions' = [transitions EXCEPT ![k] = Append(@, [to |-> to, at |-> at])]

\* _receipt_from_value, which every read and every write of a receipt runs: the
\* list starts with created, each entry leaves the state the previous one reached
\* by an allowed transition and no earlier than that one, and the last entry is
\* the head.
AssertReceipt(head, time, t) ==
  /\ t # <<>>
  /\ t[1].to = "created"
  /\ \A i \in 1 .. Len(t) - 1 : /\ CanTransition(t[i].to, t[i + 1].to)
                                /\ t[i].at <= t[i + 1].at
  /\ t[Len(t)].to = head /\ t[Len(t)].at = time

\* _write_receipt refuses the new receipt if it would not be readable.
Writable(k, to, at) ==
  AssertReceipt(to, at, Append(transitions[k], [to |-> to, at |-> at]))

\* mutated form: the time of the call is not held against updated_at
CheckedButTime(k, to, at) ==
  receipt[k] # None /\ CanTransition(receipt[k], to)

\* What transition() checks before it builds the new receipt: the state graph, and
\* a time that does not precede updated_at.
Checked(k, to, at) ==
  /\ receipt[k] # None /\ CanTransition(receipt[k], to)
  /\ at >= updated[k]

AppendTransition(k, to, at) ==
  /\ Checked(k, to, at) /\ Writable(k, to, at)
  /\ Transition(k, to)
  /\ Record(k, to, at)

CreateReceipt(k, at) ==
  /\ Writable(k, "created", at)
  /\ Create(k)
  /\ Record(k, "created", at)

TrailNext ==
  \E k \in Key, at \in Time :
    \/ CreateReceipt(k, at)
    \/ /\ Len(transitions[k]) < MaxTransitions
       /\ \E to \in State : AppendTransition(k, to, at)

TrailSpec == TrailInit /\ [][TrailNext]_trailVars

-----------------------------------------------------------------------------
Passed(k) == {transitions[k][i].to : i \in DOMAIN transitions[k]}

\* The checks of transition() are as strict as those of _receipt_from_value: no
\* transition that they let through is then refused by the write, whatever the
\* receipt has been through and however the callers' clocks disagree.
CheckedIsWritable ==
  \A k \in Key, to \in State, at \in Time :
    Checked(k, to, at) => Writable(k, to, at)

\* docs/NYMREL_MESH_DELIVERY_TRUTH.md: "No state implies a later one, and proven
\* delivery cannot be downgraded to delivery_unknown".  Whatever follows a proven
\* delivery is proven too or ends the receipt, and never refuses it.
ProvenDeliveryKept ==
  \A k \in Key : \A i, j \in DOMAIN transitions[k] :
    i < j /\ transitions[k][i].to \in Proven =>
      transitions[k][j].to \in (Proven \union Terminal) \ {"rejected"}

\* A verified receipt carries the whole evidence: it was accepted by the outbox,
\* observed by the recipient and acted upon, whatever detours it took.
VerifiedHasEvidence ==
  \A k \in Key :
    receipt[k] = "verified" => {"accepted", "observed", "acted"} \subseteq Passed(k)
=============================================================================
