------------------------------- MODULE Claims -------------------------------
(***************************************************************************)
(* Resource claims: ClaimManager of claims.py with the fencing counter it  *)
(* draws generations from (FencingClock of fencing.py).  Every operation   *)
(* runs under the claims_mutex lock and is several file operations; time   *)
(* passes, processes are killed and the event log fails between them.  A   *)
(* slot is one execution of with_lock("claims_mutex", _op): AtomicLock     *)
(* shows there is one at a time until the lock outlives its stale          *)
(* threshold, and two slots stand for a lock that was evicted.  Calls are  *)
(* made by anybody, as by the command line; Adapters adds the agents that  *)
(* keep their claims alive.                                                *)
(***************************************************************************)
EXTENDS Integers, FiniteSets

CONSTANTS
  Agent,
  ClaimId,    \* bound: claims ever made (uuid4 never repeats)
  Path,       \* normalised resource paths
  Asked,      \* bound: the modes claims are asked for in
  Inside,     \* <<a, d>>: path a is a proper ancestor directory of path d
  FileOf,     \* [Path -> File], _get_fencing_path: characters other than
              \* letters, digits and "._-" all become "_", so that paths may
  File,       \* share a fencing file
  Slot,       \* executions that may be inside claims_mutex at once
  Lease,      \* lease_duration_ms, in clock ticks
  MaxGen,     \* bound: fencing generations drawn per fencing file
  TornWrites, \* whether a kill during json.dump leaves an unreadable file
  Null,       \* no such file; nothing yet
  Torn        \* a file that does not parse

ASSUME LeaseAssumption  == Lease \in Nat
ASSUME MaxGenAssumption == MaxGen \in Nat
ASSUME PathAssumption   == Inside \subseteq Path \X Path /\ FileOf \in [Path -> File]
ASSUME WriteAssumption  == TornWrites \in BOOLEAN

Mode   == {"exclusive", "shared"}
Status == {"active", "expired", "released"}

ASSUME AskedAssumption == Asked \subseteq Mode

\* ttl: ticks until expires_at; it stays at -1 once expires_at has passed.
Ttl == -1 .. Lease
Gen == 0 .. MaxGen

ASSUME MarkAssumption ==
  /\ Null # Torn /\ Null \notin ClaimId
  /\ \A r \in [owner : Agent, path : Path, mode : Mode, status : Status,
               gen : Gen, ttl : Ttl] : r # Null /\ r # Torn

Record == [owner : Agent, path : Path, mode : Mode, status : Status,
           gen : Gen, ttl : Ttl]

VARIABLES
  claims,   \* claims/<id>.json: a record, Null or Torn
  clock,    \* fencing/<file>.json: current_generation, 0 if absent or torn
  ops,      \* what each slot is executing
  revived,  \* history: claims a heartbeat reactivated after they had lapsed
  restarted \* history: fencing files whose count was lost in a write cut short

vars == <<claims, clock, ops, revived, restarted>>

Kind  == {"acquire", "heartbeat", "release", "reap"}
Stage == {"check", "refresh", "fence", "read", "scan", "write", "event"}

\* An operation in progress: its caller, the claim file it works on, the record
\* it is going to write there, whether that claim was found lapsed, and the
\* files reap_expired_leases will still rewrite.
Op == [kind : Kind, agent : Agent, stage : Stage, id : ClaimId \union {Null},
       rec : Record \union {Null}, lapsed : BOOLEAN, todo : SUBSET ClaimId]

-----------------------------------------------------------------------------
(* Paths, conflicts, leases.                                                *)

IsSubPath(parent, child) == parent = child \/ <<parent, child>> \in Inside

\* mutated form: only claims on an ancestor directory are in the way
ConflictBelowOnly(r, path, mode) ==
  /\ IsSubPath(r.path, path)
  /\ r.mode = "exclusive" \/ mode = "exclusive"

CheckConflict(r, path, mode) ==
  /\ IsSubPath(r.path, path) \/ IsSubPath(path, r.path)
  /\ r.mode = "exclusive" \/ mode = "exclusive"

Readable(c) == claims[c] # Null /\ claims[c] # Torn

Live(r) == r.status = "active" /\ r.ttl >= 0

\* _list_active_internal
LiveClaims == {c \in ClaimId : Readable(c) /\ Live(claims[c])}

Sooner(t) == IF t < 0 THEN t ELSE t - 1

Idle(s)          == ops[s] = Null
At(s, kind, stg) == ~Idle(s) /\ ops[s].kind = kind /\ ops[s].stage = stg
Start(s, op)     == ops' = [ops EXCEPT ![s] = op]
Move(s, stg)     == ops' = [ops EXCEPT ![s].stage = stg]
Return(s)        == ops' = [ops EXCEPT ![s] = Null]

\* uuid.uuid4
Fresh(c) == claims[c] = Null /\ c \notin {ops[t].id : t \in {u \in Slot : ~Idle(u)}}

NewOp(kind, a, stg, c, r) ==
  [kind |-> kind, agent |-> a, stage |-> stg, id |-> c, rec |-> r,
   lapsed |-> FALSE, todo |-> {}]

-----------------------------------------------------------------------------
Init ==
  /\ claims = [c \in ClaimId |-> Null]
  /\ clock = [f \in File |-> 0]
  /\ ops = [s \in Slot |-> Null]
  /\ revived = {} /\ restarted = {}

-----------------------------------------------------------------------------
(* acquire_claim                                                            *)

\* The call enters the mutex and takes the time its lease runs from.
BeginAcquire(s, a, x, m) ==
  /\ Idle(s)
  /\ Start(s, NewOp("acquire", a, "check", Null,
                    [owner |-> a, path |-> x, mode |-> m, status |-> "active",
                     gen |-> 0, ttl |-> Lease]))
  /\ UNCHANGED <<claims, clock, revived, restarted>>

\* mutated form: a live claim on the same path is refreshed whoever owns it
OwnByPath(r, req) == r.path = req.path

Own(r, req) == r.owner = req.owner /\ r.path = req.path

\* The loop over the live claims, in directory order: its own claim on the
\* same path is refreshed, a conflicting one makes the call raise, whichever
\* comes first.
Check(s) ==
  /\ At(s, "acquire", "check")
  /\ LET req     == ops[s].rec
         own     == {c \in LiveClaims : Own(claims[c], req)}
         blocker == {c \in LiveClaims \ own :
                       CheckConflict(claims[c], req.path, req.mode)}
     IN \/ \E c \in own :
             Start(s, [ops[s] EXCEPT !.stage = "refresh", !.id = c,
                         !.rec = [claims[c] EXCEPT !.ttl = req.ttl]])
        \/ blocker # {} /\ Return(s)
        \/ own = {} /\ blocker = {} /\ Move(s, "fence")
  /\ UNCHANGED <<claims, clock, revived, restarted>>

\* The refreshed record is written back, without an event.
Refresh(s) ==
  /\ At(s, "acquire", "refresh")
  /\ claims' = [claims EXCEPT ![ops[s].id] = ops[s].rec]
  /\ Return(s)
  /\ UNCHANGED <<clock, revived, restarted>>

FenceFile(s) == FileOf[ops[s].rec.path]

\* mutated form: the incremented generation is not written back
FenceNotSaved(s) ==
  /\ At(s, "acquire", "fence")
  /\ \E c \in ClaimId :
       /\ Fresh(c)
       /\ Start(s, [ops[s] EXCEPT !.stage = "write", !.id = c,
                      !.rec.gen = clock[FenceFile(s)] + 1])
  /\ UNCHANGED <<claims, clock, revived, restarted>>

\* increment_generation, under its own lock, and a fresh id; or the wait for
\* that lock times out and the call raises.
Fence(s) ==
  /\ At(s, "acquire", "fence")
  /\ \/ Return(s) /\ UNCHANGED clock
     \/ /\ clock[FenceFile(s)] < MaxGen
        /\ clock' = [clock EXCEPT ![FenceFile(s)] = @ + 1]
        /\ \E c \in ClaimId :
             /\ Fresh(c)
             /\ Start(s, [ops[s] EXCEPT !.stage = "write", !.id = c,
                            !.rec.gen = clock[FenceFile(s)] + 1])
  /\ UNCHANGED <<claims, revived, restarted>>

-----------------------------------------------------------------------------
(* heartbeat, release_claim, reap_expired_leases                            *)

BeginHeartbeat(s, a, c) ==
  /\ Idle(s)
  /\ claims[c] # Null
  /\ Start(s, NewOp("heartbeat", a, "read", c, Null))
  /\ UNCHANGED <<claims, clock, revived, restarted>>

\* mutated form: a released claim can be reactivated
HeartbeatReleased(a, r) == r.owner = a

HeartbeatAllowed(a, r) == r.owner = a /\ r.status # "released"

\* mutated form: the lease is added to what is left of the old one
ExtendedByLease(r) == [r EXCEPT !.status = "active", !.ttl = r.ttl + Lease + 1]

\* expires_at = now + lease_duration_ms, whatever the status was.
Extended(r) == [r EXCEPT !.status = "active", !.ttl = Lease]

\* No readable file, another owner, a released claim: raises.
HeartbeatRead(s) ==
  /\ At(s, "heartbeat", "read")
  /\ LET c  == ops[s].id
         ok == Readable(c) /\ HeartbeatAllowed(ops[s].agent, claims[c])
     IN \/ /\ ok
           /\ Start(s, [ops[s] EXCEPT !.stage = "write",
                          !.rec = Extended(claims[c]),
                          !.lapsed = ~Live(claims[c])])
        \/ ~ok /\ Return(s)
  /\ UNCHANGED <<claims, clock, revived, restarted>>

BeginRelease(s, a, c) ==
  /\ Idle(s)
  /\ claims[c] # Null
  /\ Start(s, NewOp("release", a, "read", c, Null))
  /\ UNCHANGED <<claims, clock, revived, restarted>>

\* No readable file: returns False.  Another owner: raises.
ReleaseRead(s) ==
  /\ At(s, "release", "read")
  /\ LET c == ops[s].id
         ok == Readable(c) /\ claims[c].owner = ops[s].agent
     IN \/ /\ ok
           /\ Start(s, [ops[s] EXCEPT !.stage = "write",
                          !.rec = [claims[c] EXCEPT !.status = "released"]])
        \/ ~ok /\ Return(s)
  /\ UNCHANGED <<claims, clock, revived, restarted>>

Overdue(c) == Readable(c) /\ claims[c].status = "active" /\ claims[c].ttl < 0

\* The time expiries are compared with is taken at the start.
BeginReap(s, a) ==
  /\ Idle(s)
  /\ Start(s, [NewOp("reap", a, "scan", Null, Null)
                 EXCEPT !.todo = {c \in ClaimId : Overdue(c)}])
  /\ UNCHANGED <<claims, clock, revived, restarted>>

\* The next of those files; skipped if somebody else has renewed, released or
\* expired it since.
ReapScan(s) ==
  /\ At(s, "reap", "scan")
  /\ \/ ops[s].todo = {} /\ Return(s)
     \/ \E c \in ops[s].todo :
          LET op == [ops[s] EXCEPT !.todo = @ \ {c}] IN
          \/ /\ Overdue(c)
             /\ Start(s, [op EXCEPT !.stage = "write", !.id = c,
                            !.rec = [claims[c] EXCEPT !.status = "expired"]])
          \/ ~Overdue(c) /\ Start(s, op)
  /\ UNCHANGED <<claims, clock, revived, restarted>>

-----------------------------------------------------------------------------
(* Shared by all operations.                                                *)

\* json.dump of the claim record into its file.
Write(s) ==
  /\ ~Idle(s) /\ ops[s].stage = "write"
  /\ claims' = [claims EXCEPT ![ops[s].id] = ops[s].rec]
  /\ revived' = IF ops[s].lapsed THEN revived \union {ops[s].id} ELSE revived
  /\ Move(s, "event")
  /\ UNCHANGED <<clock, restarted>>

\* record_event succeeds and the call returns, or it raises after the record has
\* been written; the reaper goes on to the next file either way.
Event(s) ==
  /\ ~Idle(s) /\ ops[s].stage = "event"
  /\ \/ ops[s].kind # "reap" /\ Return(s)
     \/ /\ ops[s].kind = "reap"
        /\ Start(s, [ops[s] EXCEPT !.stage = "scan", !.id = Null, !.rec = Null])
  /\ UNCHANGED <<claims, clock, revived, restarted>>

-----------------------------------------------------------------------------
(* The environment.                                                         *)

\* An agent's process is killed inside the mutex (the lock it leaves behind is
\* evicted later).  With TornWrites a file being written may be left unreadable,
\* and an unreadable fencing file counts as generation 0.
Crash(a) ==
  LET mine == {s \in Slot : ~Idle(s) /\ ops[s].agent = a} IN
  /\ ops' = [s \in Slot |-> IF s \in mine THEN Null ELSE ops[s]]
  /\ \E cut \in SUBSET {s \in mine : TornWrites} :
       /\ claims' = [c \in ClaimId |->
                       IF \E s \in cut : /\ ops[s].stage \in {"write", "refresh"}
                                       /\ ops[s].id = c
                         THEN Torn ELSE claims[c]]
       /\ LET cleared == {f \in File : \E s \in cut : /\ At(s, "acquire", "fence")
                                                     /\ FenceFile(s) = f}
          IN /\ clock' = [f \in File |-> IF f \in cleared THEN 0 ELSE clock[f]]
             /\ restarted' = restarted \union {f \in cleared : clock[f] > 0}
  /\ UNCHANGED revived

Tick ==
  /\ claims' = [c \in ClaimId |->
                  IF Readable(c) THEN [claims[c] EXCEPT !.ttl = Sooner(@)]
                  ELSE claims[c]]
  /\ ops' = [s \in Slot |->
               IF Idle(s) \/ ops[s].rec = Null THEN ops[s]
               ELSE [ops[s] EXCEPT !.rec.ttl = Sooner(@)]]
  /\ UNCHANGED <<clock, revived, restarted>>

Step(s) ==
  \/ Check(s) \/ Refresh(s) \/ Fence(s) \/ HeartbeatRead(s) \/ ReleaseRead(s)
  \/ ReapScan(s) \/ Write(s) \/ Event(s)

Call(s) ==
  \E a \in Agent :
    \/ \E x \in Path, m \in Asked : BeginAcquire(s, a, x, m)
    \/ \E c \in ClaimId : BeginHeartbeat(s, a, c) \/ BeginRelease(s, a, c)
    \/ BeginReap(s, a)

Next ==
  \/ \E s \in Slot : Call(s) \/ Step(s)
  \/ \E a \in Agent : Crash(a)
  \/ Tick

Spec == Init /\ [][Next]_vars

-----------------------------------------------------------------------------
(* Properties.                                                              *)

\* Every variable stays within its type; in particular no lease is ever longer
\* than lease_duration_ms from now.
TypeOK ==
  /\ claims \in [ClaimId -> Record \union {Null, Torn}]
  /\ clock \in [File -> Gen]
  /\ ops \in [Slot -> Op \union {Null}]
  /\ \A s \in Slot : ~Idle(s) =>
       /\ ops[s].stage \notin {"read", "scan"} => ops[s].rec \in Record
       /\ ops[s].stage \notin {"check", "fence", "scan"} => ops[s].id \in ClaimId
  /\ revived \in SUBSET ClaimId
  /\ restarted \in SUBSET File

Conflicting(c, d) ==
  c # d /\ CheckConflict(claims[c], claims[d].path, claims[d].mode)

\* Two live claims on overlapping paths, one of them exclusive, exist only if
\* one of the two had lapsed and was reactivated by a heartbeat: acquire_claim
\* itself never grants a claim that overlaps another.
ExclusionUnlessRevived ==
  \A c, d \in LiveClaims : Conflicting(c, d) => c \in revived \/ d \in revived

\* README.md: "mode awareness (exclusive write vs shared read/review),
\* auto-expiring leases": an exclusive claim overlaps no other live claim.
Exclusion == \A c, d \in LiveClaims : ~Conflicting(c, d)

OwnFile(x) == \A y \in Path : FileOf[y] = FileOf[x] => y = x

\* The generation in a live exclusive claim is the newest its path has been
\* given, so validate_generation accepts the holder and no earlier one: unless
\* another path shares the fencing file, whose claims then outdate the holder's,
\* or a kill inside the write of that file has set its count back to nothing.
ExclusiveHoldsTop ==
  \A c \in LiveClaims :
    /\ claims[c].mode = "exclusive" /\ c \notin revived
    /\ OwnFile(claims[c].path) /\ FileOf[claims[c].path] \notin restarted
    => claims[c].gen = clock[FileOf[claims[c].path]]

\* README.md: "Monotonic Fencing Tokens".  No two claims on one path, or on
\* paths that share a fencing file, carry the same generation, released and
\* lapsed ones included, as long as no kill inside the write of that file has
\* lost its count: increment_generation takes a file that does not parse for 0.
GenerationsUnique ==
  \A c, d \in ClaimId :
    /\ Readable(c) /\ Readable(d)
    /\ FileOf[claims[c].path] = FileOf[claims[d].path]
    /\ FileOf[claims[c].path] \notin restarted
    /\ claims[c].gen = claims[d].gen
    => c = d

\* What one step may do to a claim: a released claim stays released, a claim
\* keeps its owner, path, mode and generation, its expiry is only ever put off by
\* making or keeping it active, and reap_expired_leases never expires a claim
\* that the check of acquire_claim still takes for live at that moment.
ClaimHistory ==
  [][\A c \in ClaimId :
       Readable(c) /\ Readable(c)' =>
         LET old == claims[c]
             new == claims'[c]
         IN /\ old.status = "released" => new.status = "released"
            /\ \A f \in {"owner", "path", "mode", "gen"} : new[f] = old[f]
            /\ new.ttl > old.ttl => new.status = "active"
            /\ new.status = "expired" /\ old.status = "active" => ~Live(old)]_vars

\* The claim store as a table of leases: what list_claims shows of each claim.
LeaseTerms ==
  [c \in ClaimId |->
     IF Readable(c)
       THEN [owner |-> claims[c].owner, path |-> claims[c].path,
             mode |-> claims[c].mode, gen |-> claims[c].gen]
       ELSE Null]

LeaseState ==
  [c \in ClaimId |->
     IF ~Readable(c) THEN "none"
     ELSE IF claims[c].status = "released" THEN "released"
     ELSE IF Live(claims[c]) THEN "live" ELSE "lapsed"]

Table == INSTANCE LeaseTable
            WITH terms <- LeaseTerms, state <- LeaseState, NoTerms <- Null

\* The operations are atomic to everybody else: whatever happens between a
\* call's check, its fencing and its write, the claim file it writes grants,
\* renews or ends a lease as one step of LeaseTable would at that moment.
LeasesAreAtomic == Table!Spec
=============================================================================
