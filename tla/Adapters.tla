------------------------------ MODULE Adapters ------------------------------
(***************************************************************************)
(* Agents that keep their claims alive: BaseAgentAdapter of adapters.py on *)
(* top of Claims.  An adapter has two threads and one set they share,      *)
(* _active_claim_ids: the main thread claims, releases and tracks, and the *)
(* heartbeat thread goes round after round over a copy of the set and      *)
(* drops from it the claims whose heartbeat raised.  Agents without an     *)
(* adapter use the command line (cli.py): they track nothing.              *)
(***************************************************************************)
EXTENDS Claims

CONSTANT Adapter  \* the agents that run an adapter

ASSUME AdapterAssumption == Adapter \subseteq Agent

VARIABLES
  held,    \* _active_claim_ids of each adapter
  round,   \* what the heartbeat thread's copy of it still has to visit
  todo,    \* the main thread, back from the claim manager: the claim it is
           \* about to "add" to or "remove" from the set, or Null
  stopped  \* _stop_heartbeat: adapters whose destroy has been called

avars == <<held, round, todo, stopped>>
allvars == <<vars, avars>>

Todo == [do : {"add", "remove"}, id : ClaimId]

ASSUME TodoAssumption == Null \notin Todo

AInit ==
  /\ Init
  /\ held = [a \in Adapter |-> {}]
  /\ round = [a \in Adapter |-> {}]
  /\ todo = [a \in Adapter |-> Null]
  /\ stopped = {}

-----------------------------------------------------------------------------
(* The main thread.                                                         *)

Busy(a, kinds) == \E s \in Slot : ~Idle(s) /\ ops[s].agent = a /\ ops[s].kind \in kinds

\* The main thread is in the user's code.
MainFree(a) == todo[a] = Null /\ ~Busy(a, {"acquire", "release"})

MainCalls(s, a) ==
  /\ MainFree(a)
  /\ \/ \E x \in Path, m \in Asked : BeginAcquire(s, a, x, m)
     \/ \E c \in ClaimId : BeginRelease(s, a, c)
  /\ UNCHANGED avars

\* The claim manager has returned: the set is next.
Then(a, do, c) == todo' = [todo EXCEPT ![a] = [do |-> do, id |-> c]]

\* self._active_claim_ids.add(record.claim_id)
Track(a) ==
  /\ todo[a] # Null /\ todo[a].do = "add"
  /\ held' = [held EXCEPT ![a] = @ \union {todo[a].id}]
  /\ todo' = [todo EXCEPT ![a] = Null]
  /\ UNCHANGED <<vars, round, stopped>>

\* The test for membership and the removal; when the heartbeat thread drops the
\* claim between the two, the KeyError changes nothing any more.
Untrack(a) ==
  /\ todo[a] # Null /\ todo[a].do = "remove"
  /\ held' = [held EXCEPT ![a] = @ \ {todo[a].id}]
  /\ todo' = [todo EXCEPT ![a] = Null]
  /\ UNCHANGED <<vars, round, stopped>>

Destroy(a) ==
  /\ a \notin stopped
  /\ stopped' = stopped \union {a}
  /\ UNCHANGED <<vars, held, round, todo>>

-----------------------------------------------------------------------------
(* The heartbeat thread.                                                    *)

Drop(a, c) == held' = [held EXCEPT ![a] = @ \ {c}]

\* mutated form: the loop does not look at _stop_heartbeat
BeginRoundAlways(a) ==
  /\ round[a] = {} /\ ~Busy(a, {"heartbeat"})
  /\ held[a] # {}
  /\ round' = [round EXCEPT ![a] = held[a]]
  /\ UNCHANGED <<vars, held, todo, stopped>>

\* while not stopped: for cid in list(self._active_claim_ids)
BeginRound(a) ==
  /\ round[a] = {} /\ ~Busy(a, {"heartbeat"}) /\ a \notin stopped
  /\ held[a] # {}
  /\ round' = [round EXCEPT ![a] = held[a]]
  /\ UNCHANGED <<vars, held, todo, stopped>>

\* The next claim of the round: its heartbeat gets the mutex, or raises
\* TimeoutError and the claim is dropped.
Beat(a) ==
  \E c \in round[a] :
    /\ ~Busy(a, {"heartbeat"})
    /\ round' = [round EXCEPT ![a] = @ \ {c}]
    /\ \/ (\E s \in Slot : BeginHeartbeat(s, a, c)) /\ UNCHANGED held
       \/ Drop(a, c) /\ UNCHANGED vars
    /\ UNCHANGED <<todo, stopped>>

-----------------------------------------------------------------------------
(* What an adapter does with the outcome of a step inside the mutex.        *)

Returned(s) == ops'[s] = Null

AdapterRefresh(s) ==
  /\ Refresh(s)
  /\ Then(ops[s].agent, "add", ops[s].id)
  /\ UNCHANGED <<held, round, stopped>>

\* mutated form: the heartbeat thread survives the exception but keeps the claim
AdapterHeartbeatReadKeeps(s) ==
  /\ HeartbeatRead(s)
  /\ UNCHANGED avars

AdapterHeartbeatRead(s) ==
  /\ HeartbeatRead(s)
  /\ IF Returned(s) THEN Drop(ops[s].agent, ops[s].id) ELSE UNCHANGED held
  /\ UNCHANGED <<round, todo, stopped>>

\* record_event succeeded; or it raised, and with it the call.
AdapterEvent(s) ==
  LET a == ops[s].agent
      c == ops[s].id
  IN /\ Event(s)
     /\ \/ ops[s].kind = "acquire" /\ Then(a, "add", c) /\ UNCHANGED held
        \/ ops[s].kind = "release" /\ Then(a, "remove", c) /\ UNCHANGED held
        \/ ops[s].kind = "heartbeat" /\ Drop(a, c) /\ UNCHANGED todo
        \/ UNCHANGED <<held, todo>>
     /\ UNCHANGED <<round, stopped>>

OtherSteps(s) == Check(s) \/ Fence(s) \/ ReleaseRead(s) \/ ReapScan(s) \/ Write(s)

AdapterStep(s) ==
  /\ ~Idle(s) /\ ops[s].agent \in Adapter
  /\ \/ AdapterRefresh(s) \/ AdapterHeartbeatRead(s) \/ AdapterEvent(s)
     \/ OtherSteps(s) /\ UNCHANGED avars

CliStep(s) ==
  /\ ~Idle(s) /\ ops[s].agent \notin Adapter
  /\ Step(s) /\ UNCHANGED avars

CliCalls(s) ==
  /\ \E a \in Agent \ Adapter :
       \/ \E x \in Path, m \in Asked : BeginAcquire(s, a, x, m)
       \/ \E c \in ClaimId : BeginHeartbeat(s, a, c) \/ BeginRelease(s, a, c)
       \/ BeginReap(s, a)
  /\ UNCHANGED avars

\* A killed agent comes back with nothing tracked; its claims are on disk.
AdapterCrash(a) ==
  /\ Crash(a)
  /\ held' = [held EXCEPT ![a] = {}]
  /\ round' = [round EXCEPT ![a] = {}]
  /\ todo' = [todo EXCEPT ![a] = Null]
  /\ stopped' = stopped \ {a}

ANext ==
  \/ \E s \in Slot, a \in Adapter : MainCalls(s, a)
  \/ \E a \in Adapter : \/ Track(a) \/ Untrack(a) \/ Destroy(a)
                        \/ BeginRound(a) \/ Beat(a) \/ AdapterCrash(a)
  \/ \E s \in Slot : AdapterStep(s) \/ CliCalls(s) \/ CliStep(s)
  \/ \E a \in Agent \ Adapter : Crash(a) /\ UNCHANGED avars
  \/ Tick /\ UNCHANGED avars

ASpec == AInit /\ [][ANext]_allvars

\* Time passes, an operation inside the mutex and the heartbeat thread proceed,
\* and the main thread gets from the claim manager's return to the set.  Nobody
\* is obliged to call, to destroy an adapter or to crash.
FairASpec ==
  /\ ASpec
  /\ WF_allvars(Tick /\ UNCHANGED avars)
  /\ \A s \in Slot : WF_allvars(AdapterStep(s) \/ CliStep(s))
  /\ \A a \in Adapter : /\ WF_allvars(BeginRound(a) \/ Beat(a))
                        /\ WF_allvars(Track(a) \/ Untrack(a))

-----------------------------------------------------------------------------
(* Properties.                                                              *)

\* Every adapter variable stays within its type, and an adapter only tracks claims
\* that are on disk in its own agent's name: it never keeps another's alive.
ATypeOK ==
  /\ held \in [Adapter -> SUBSET ClaimId]
  /\ round \in [Adapter -> SUBSET ClaimId]
  /\ todo \in [Adapter -> Todo \union {Null}]
  /\ stopped \in SUBSET Adapter
  /\ \A a \in Adapter : \A c \in held[a] \union round[a] :
       claims[c] # Null /\ (Readable(c) => claims[c].owner = a)

\* Nobody heartbeats the claim, or is about to.
Unattended(c) ==
  LET a == claims[c].owner IN
  a \in Adapter /\ (a \in stopped \/ (c \notin held[a] /\ todo[a] = Null))

BeingReclaimed(c) == \E s \in Slot : At(s, "acquire", "refresh") /\ ops[s].id = c

\* README.md: "auto-expiring leases".  A live claim its owner's adapter does not
\* keep alive lapses, unless the owner claims the path again: after a kill, after
\* destroy, and after a call that raised with the record written already.
UnattendedClaimLapses ==
  \A c \in ClaimId :
    (c \in LiveClaims /\ Unattended(c))
      ~> (c \notin LiveClaims \/ ~Unattended(c) \/ BeingReclaimed(c))

\* A released claim does not stay in _active_claim_ids: release's removal and the
\* heartbeat thread's own cleanup race each other, and either may be cut short by
\* a failed event or a KeyError, but a round finds what they left behind.
ReleasedIsDropped ==
  \A a \in Adapter, c \in ClaimId :
    (Readable(c) /\ claims[c].status = "released" /\ c \in held[a])
      ~> (c \notin held[a] \/ a \in stopped)
=============================================================================
