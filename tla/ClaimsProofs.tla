---------------------------- MODULE ClaimsProofs ----------------------------
(***************************************************************************)
(* What Claims promises as long as claims_mutex is one mutex, for every    *)
(* set of agents and paths, every hierarchy and every lease.               *)
(***************************************************************************)
EXTENDS Claims, TLAPS

\* AtomicLock's MutexUntilStale: one execution inside claims_mutex at a time.
Serialized == \A s, t \in Slot : ~Idle(s) /\ ~Idle(t) => s = t

LEMMA TypeInitially == Init => TypeOK
  BY MaxGenAssumption DEF Init, TypeOK, Gen, Idle

\* A tick shortens a lease within its range, and never makes a claim live.
LEMMA SoonerType ==
  ASSUME NEW r \in Record
  PROVE  /\ [r EXCEPT !.ttl = Sooner(@)] \in Record
         /\ Live([r EXCEPT !.ttl = Sooner(@)]) => Live(r)
  BY LeaseAssumption DEF Record, Ttl, Sooner, Live

LEMMA RecordIsNoFileMark == \A r \in Record : r # Null /\ r # Torn
  BY MarkAssumption DEF Record

\* What a heartbeat writes is a record of the same claim, active for a lease.
LEMMA ExtendedType ==
  ASSUME NEW r \in Record
  PROVE  /\ Extended(r) \in Record
         /\ Extended(r).path = r.path /\ Extended(r).mode = r.mode
         /\ Extended(r).gen = r.gen
<1>1. Lease \in Ttl
  BY LeaseAssumption DEF Ttl
<1>2. Extended(r) \in Record
  BY <1>1 DEF Record, Status, Extended
<1> QED
  BY <1>2 DEF Record, Extended

\* A step that replaces what one slot is executing by a well formed operation,
\* and leaves claims and clock well typed, preserves the type invariant.
LEMMA StartType ==
  ASSUME TypeOK, NEW s \in Slot, NEW op \in Op,
         op.stage \notin {"read", "scan"} => op.rec \in Record,
         op.stage \notin {"check", "fence", "scan"} => op.id \in ClaimId,
         Start(s, op),
         claims' \in [ClaimId -> Record \union {Null, Torn}],
         clock' \in [File -> Gen], revived' \in SUBSET ClaimId, restarted' \in SUBSET File
  PROVE  TypeOK'
  BY DEF TypeOK, Start, Idle

LEMMA ReturnType ==
  ASSUME TypeOK, NEW s \in Slot, Return(s),
         claims' \in [ClaimId -> Record \union {Null, Torn}],
         clock' \in [File -> Gen], revived' \in SUBSET ClaimId, restarted' \in SUBSET File
  PROVE  TypeOK'
  BY DEF TypeOK, Return, Idle

LEMMA TypeKept == TypeOK /\ [Next]_vars => TypeOK'
<1> SUFFICES ASSUME TypeOK, [Next]_vars PROVE TypeOK'
  OBVIOUS
<1>0. \A s \in Slot : ~Idle(s) => ops[s] \in Op
  BY DEF TypeOK, Idle
<1>a. \A c \in ClaimId : Readable(c) => claims[c] \in Record
  BY DEF TypeOK, Readable
<1>b. /\ claims \in [ClaimId -> Record \union {Null, Torn}]
      /\ clock \in [File -> Gen]
      /\ revived \in SUBSET ClaimId
      /\ restarted \in SUBSET File
  BY DEF TypeOK
<1>c. \A s \in Slot : ~Idle(s) =>
        /\ ops[s].stage \notin {"read", "scan"} => ops[s].rec \in Record
        /\ ops[s].stage \notin {"check", "fence", "scan"} => ops[s].id \in ClaimId
  BY DEF TypeOK
<1>1. ASSUME NEW s \in Slot, NEW a \in Agent, NEW x \in Path, NEW m \in Asked,
             BeginAcquire(s, a, x, m)
      PROVE TypeOK'
  <2> DEFINE r == [owner |-> a, path |-> x, mode |-> m, status |-> "active",
                   gen |-> 0, ttl |-> Lease]
             op == NewOp("acquire", a, "check", Null, r)
  <2>1. r \in Record
    BY LeaseAssumption, MaxGenAssumption, AskedAssumption
       DEF Record, Status, Gen, Ttl
  <2>2. op \in Op /\ op.rec \in Record /\ op.stage = "check"
    BY <2>1 DEF NewOp, Op, Kind, Stage
  <2> HIDE DEF r, op
  <2>3. Start(s, op) /\ UNCHANGED <<claims, clock, revived, restarted>>
    BY <1>1 DEF BeginAcquire, r, op
  <2> QED
    BY <1>b, <2>2, <2>3, StartType
<1>2. ASSUME NEW s \in Slot, Check(s) PROVE TypeOK'
  <2>1. /\ ops[s] \in Op /\ ops[s].rec \in Record
        /\ UNCHANGED <<claims, clock, revived, restarted>>
    BY <1>2, <1>0, <1>c DEF Check, At
  <2>3. CASE Return(s)
    BY <1>b, <2>1, <2>3, ReturnType
  <2>4. CASE Move(s, "fence")
    <3> DEFINE op == [ops[s] EXCEPT !.stage = "fence"]
    <3>1. op \in Op /\ op.rec \in Record /\ op.stage = "fence"
      BY <2>1 DEF Op, Stage
    <3>2. Start(s, op)
      BY <2>4 DEF Move, Start, TypeOK
    <3> HIDE DEF op
    <3> QED
      BY <1>b, <2>1, <3>1, <3>2, StartType
  <2>5. ASSUME NEW c \in LiveClaims,
               Start(s, [ops[s] EXCEPT !.stage = "refresh", !.id = c,
                           !.rec = [claims[c] EXCEPT !.ttl = ops[s].rec.ttl]])
        PROVE TypeOK'
    <3> DEFINE r  == [claims[c] EXCEPT !.ttl = ops[s].rec.ttl]
               op == [ops[s] EXCEPT !.stage = "refresh", !.id = c, !.rec = r]
    <3>1. c \in ClaimId /\ claims[c] \in Record
      BY <1>a DEF LiveClaims
    <3>2. r \in Record
      BY <2>1, <3>1 DEF Record
    <3> HIDE DEF r
    <3>3. /\ op \in Op /\ op.stage = "refresh"
          /\ op.rec \in Record /\ op.id \in ClaimId
      BY <2>1, <3>1, <3>2 DEF Op, Stage
    <3>4. Start(s, op)
      BY <2>5 DEF r
    <3> HIDE DEF op
    <3> QED
      BY <1>b, <2>1, <3>3, <3>4, StartType
  <2> QED
    BY <1>2, <2>3, <2>4, <2>5 DEF Check
<1>3. ASSUME NEW s \in Slot, Refresh(s) PROVE TypeOK'
  <2>1. ops[s] \in Op /\ ops[s].rec \in Record /\ ops[s].id \in ClaimId
    BY <1>3, <1>0, <1>c DEF Refresh, At
  <2> QED
    BY <1>3, <1>b, <2>1, ReturnType DEF Refresh
<1>4. ASSUME NEW s \in Slot, Fence(s) PROVE TypeOK'
  <2>1. ops[s] \in Op /\ ops[s].rec \in Record
    BY <1>4, <1>0, <1>c DEF Fence, At
  <2>9. CASE Return(s) /\ UNCHANGED clock
    BY <1>4, <1>b, <2>9, ReturnType DEF Fence
  <2> SUFFICES ASSUME ~(Return(s) /\ UNCHANGED clock) PROVE TypeOK'
    BY <2>9
  <2> DEFINE f == FenceFile(s)
  <2>2. f \in File /\ clock[f] \in Gen /\ clock[f] < MaxGen
    BY <1>4, <1>b, <2>1, PathAssumption DEF Fence, FenceFile, Record
  <2>3. clock[f] + 1 \in Gen
    BY <2>2, MaxGenAssumption DEF Gen
  <2>4. PICK c \in ClaimId : Start(s, [ops[s] EXCEPT !.stage = "write", !.id = c,
                                         !.rec.gen = clock[f] + 1])
    BY <1>4 DEF Fence
  <2> DEFINE r  == [ops[s].rec EXCEPT !.gen = clock[f] + 1]
             op == [ops[s] EXCEPT !.stage = "write", !.id = c, !.rec = r]
  <2>5. Start(s, op)
    BY <2>1, <2>4 DEF Op
  <2>6. r \in Record
    BY <2>1, <2>3 DEF Record
  <2>7. clock' \in [File -> Gen]
    BY <1>4, <1>b, <2>3 DEF Fence
  <2> HIDE DEF f, r
  <2>8. op \in Op /\ op.stage = "write" /\ op.rec \in Record /\ op.id \in ClaimId
    BY <2>1, <2>6 DEF Op, Stage
  <2> HIDE DEF op
  <2> QED
    BY <1>4, <1>b, <2>5, <2>7, <2>8, StartType DEF Fence
<1>5. ASSUME NEW s \in Slot, NEW a \in Agent, NEW c \in ClaimId,
             BeginHeartbeat(s, a, c) \/ BeginRelease(s, a, c)
      PROVE TypeOK'
  <2>1. PICK k \in {"heartbeat", "release"} : Start(s, NewOp(k, a, "read", c, Null))
    BY <1>5 DEF BeginHeartbeat, BeginRelease
  <2> DEFINE op == NewOp(k, a, "read", c, Null)
  <2>2. op \in Op /\ op.stage = "read" /\ op.id \in ClaimId
    BY DEF NewOp, Op, Kind, Stage
  <2> HIDE DEF op
  <2> QED
    BY <1>5, <1>b, <2>1, <2>2, StartType DEF BeginHeartbeat, BeginRelease, op
<1>6. ASSUME NEW s \in Slot, HeartbeatRead(s) PROVE TypeOK'
  <2>1. ops[s] \in Op /\ ops[s].id \in ClaimId /\ ops[s].agent \in Agent
    BY <1>6, <1>0, <1>c DEF HeartbeatRead, At, Op
  <2> DEFINE c  == ops[s].id
             r  == Extended(claims[c])
             lp == ~Live(claims[c])
             op == [ops[s] EXCEPT !.stage = "write", !.rec = r, !.lapsed = lp]
  <2>2. CASE Return(s)
    BY <1>6, <1>b, <2>1, <2>2, ReturnType DEF HeartbeatRead
  <2>3. CASE Readable(c) /\ Start(s, op)
    <3>1. r \in Record
      BY <1>a, <2>1, <2>3, ExtendedType
    <3>2. lp \in BOOLEAN
      OBVIOUS
    <3>3. Start(s, op) /\ UNCHANGED <<claims, clock, revived, restarted>>
      BY <1>6, <2>3 DEF HeartbeatRead
    <3> HIDE DEF r, lp
    <3>4. op \in Op /\ op.stage = "write" /\ op.rec \in Record /\ op.id \in ClaimId
      BY <2>1, <3>1, <3>2 DEF Op, Stage
    <3> HIDE DEF op
    <3> QED
      BY <1>b, <3>3, <3>4, StartType
  <2> QED
    BY <1>6, <2>2, <2>3 DEF HeartbeatRead
<1>7. ASSUME NEW s \in Slot, ReleaseRead(s) PROVE TypeOK'
  <2>1. ops[s] \in Op /\ ops[s].id \in ClaimId
    BY <1>7, <1>0, <1>c DEF ReleaseRead, At, Op
  <2> DEFINE c  == ops[s].id
             r  == [claims[c] EXCEPT !.status = "released"]
             op == [ops[s] EXCEPT !.stage = "write", !.rec = r]
  <2>2. CASE Return(s)
    BY <1>7, <1>b, <2>2, ReturnType DEF ReleaseRead
  <2>3. CASE Readable(c) /\ Start(s, op)
    <3>1. r \in Record
      BY <1>a, <2>1, <2>3 DEF Record, Status
    <3>2. Start(s, op) /\ UNCHANGED <<claims, clock, revived, restarted>>
      BY <1>7, <2>3 DEF ReleaseRead
    <3> HIDE DEF r
    <3>3. op \in Op /\ op.stage = "write" /\ op.rec \in Record /\ op.id \in ClaimId
      BY <2>1, <3>1 DEF Op, Stage
    <3> HIDE DEF op
    <3> QED
      BY <1>b, <3>2, <3>3, StartType
  <2> QED
    BY <1>7, <2>2, <2>3 DEF ReleaseRead
<1>8. ASSUME NEW s \in Slot, NEW a \in Agent, BeginReap(s, a) PROVE TypeOK'
  <2> DEFINE td == {c \in ClaimId : Overdue(c)}
             op == [NewOp("reap", a, "scan", Null, Null) EXCEPT !.todo = td]
  <2>1. td \in SUBSET ClaimId
    OBVIOUS
  <2>2. Start(s, op) /\ UNCHANGED <<claims, clock, revived, restarted>>
    BY <1>8 DEF BeginReap
  <2> HIDE DEF td
  <2>3. op \in Op /\ op.stage = "scan"
    BY <2>1 DEF NewOp, Op, Kind, Stage
  <2> HIDE DEF op
  <2> QED
    BY <1>b, <2>2, <2>3, StartType
<1>9. ASSUME NEW s \in Slot, ReapScan(s) PROVE TypeOK'
  <2>1. /\ ops[s] \in Op /\ ops[s].stage = "scan"
        /\ UNCHANGED <<claims, clock, revived, restarted>>
    BY <1>9, <1>0 DEF ReapScan, At
  <2>2. CASE Return(s)
    BY <1>b, <2>1, <2>2, ReturnType
  <2>3. ASSUME NEW c \in ops[s].todo,
               Start(s, [ops[s] EXCEPT !.todo = @ \ {c}])
        PROVE TypeOK'
    <3> DEFINE op == [ops[s] EXCEPT !.todo = @ \ {c}]
    <3>1. op \in Op /\ op.stage = "scan"
      BY <2>1 DEF Op
    <3> HIDE DEF op
    <3> QED
      BY <1>b, <2>1, <2>3, <3>1, StartType DEF op
  <2>4. ASSUME NEW c \in ops[s].todo, Readable(c),
               Start(s, [[ops[s] EXCEPT !.todo = @ \ {c}]
                           EXCEPT !.stage = "write", !.id = c,
                             !.rec = [claims[c] EXCEPT !.status = "expired"]])
        PROVE TypeOK'
    <3> DEFINE r  == [claims[c] EXCEPT !.status = "expired"]
               op == [[ops[s] EXCEPT !.todo = @ \ {c}]
                        EXCEPT !.stage = "write", !.id = c, !.rec = r]
    <3>1. c \in ClaimId
      BY <2>1 DEF Op
    <3>2. r \in Record
      BY <1>a, <2>4, <3>1 DEF Record, Status
    <3>3. Start(s, op)
      BY <2>4
    <3> HIDE DEF r
    <3>4. op \in Op /\ op.stage = "write" /\ op.rec \in Record /\ op.id \in ClaimId
      BY <2>1, <3>1, <3>2 DEF Op, Stage
    <3> HIDE DEF op
    <3> QED
      BY <1>b, <2>1, <3>3, <3>4, StartType
  <2> QED
    BY <1>9, <2>2, <2>3, <2>4 DEF ReapScan, Overdue
<1>10. ASSUME NEW s \in Slot, Write(s) PROVE TypeOK'
  <2>1. ops[s] \in Op /\ ops[s].rec \in Record /\ ops[s].id \in ClaimId
    BY <1>10, <1>0, <1>c DEF Write
  <2> DEFINE op == [ops[s] EXCEPT !.stage = "event"]
  <2>2. op \in Op /\ op.rec \in Record /\ op.id \in ClaimId
    BY <2>1 DEF Op, Stage
  <2>3. Start(s, op)
    BY <1>10 DEF Write, Move, Start, TypeOK
  <2>4. claims' \in [ClaimId -> Record \union {Null, Torn}]
    BY <1>10, <1>b, <2>1 DEF Write
  <2>5. revived' \in SUBSET ClaimId /\ restarted' \in SUBSET File
    BY <1>10, <1>b, <2>1 DEF Write
  <2> HIDE DEF op
  <2> QED
    BY <1>10, <1>b, <2>2, <2>3, <2>4, <2>5, StartType DEF Write
<1>11. ASSUME NEW s \in Slot, Event(s) PROVE TypeOK'
  <2>1. ops[s] \in Op /\ UNCHANGED <<claims, clock, revived, restarted>>
    BY <1>11, <1>0, <1>c DEF Event, Op
  <2> DEFINE op == [ops[s] EXCEPT !.stage = "scan", !.id = Null, !.rec = Null]
  <2>2. op \in Op /\ op.stage = "scan"
    BY <2>1 DEF Op, Stage
  <2>3. Start(s, op) \/ Return(s)
    BY <1>11 DEF Event
  <2> HIDE DEF op
  <2> QED
    BY <1>b, <2>1, <2>2, <2>3, StartType, ReturnType
<1>12. ASSUME NEW a \in Agent, Crash(a) PROVE TypeOK'
  BY <1>12, MaxGenAssumption DEF Crash, TypeOK, Gen, Idle
<1>13. CASE Tick
  <2>1. claims' \in [ClaimId -> Record \union {Null, Torn}]
    BY <1>13, <1>a, <1>b, SoonerType DEF Tick
  <2>2. ASSUME NEW s \in Slot, ~Idle(s), ops[s].rec # Null
        PROVE  /\ ops'[s] \in Op /\ ops'[s].rec \in Record
               /\ ops'[s].id = ops[s].id /\ ops'[s].stage = ops[s].stage
    <3>1. ops[s] \in Op /\ ops[s].rec \in Record
      BY <1>0, <2>2 DEF Op
    <3> DEFINE r == [ops[s].rec EXCEPT !.ttl = Sooner(@)]
    <3>2. r \in Record
      BY <3>1, SoonerType
    <3>3. ops'[s] = [ops[s] EXCEPT !.rec = r]
      BY <1>13, <2>2, <3>1 DEF Tick, Op
    <3> HIDE DEF r
    <3> QED
      BY <3>1, <3>2, <3>3 DEF Op
  <2>3. ASSUME NEW s \in Slot, Idle(s) \/ ops[s].rec = Null
        PROVE  ops'[s] = ops[s]
    BY <1>13, <2>3 DEF Tick
  <2>4. ops' \in [Slot -> Op \union {Null}]
    <3>1. \A s \in Slot : ops'[s] \in Op \union {Null}
      BY <2>2, <2>3 DEF TypeOK
    <3>2. ops' = [s \in Slot |-> ops'[s]]
      BY <1>13 DEF Tick
    <3> QED
      BY <3>1, <3>2
  <2>5. UNCHANGED <<clock, revived, restarted>>
    BY <1>13 DEF Tick
  <2> QED
    BY <1>b, <1>c, <2>1, <2>2, <2>3, <2>4, <2>5 DEF TypeOK, Idle
<1>14. CASE UNCHANGED vars
  BY <1>14 DEF vars, TypeOK, Idle
<1> QED
  BY <1>1, <1>2, <1>3, <1>4, <1>5, <1>6, <1>7, <1>8, <1>9, <1>10, <1>11,
     <1>12, <1>13, <1>14 DEF Next, Call, Step

\* Every reachable state of the claim store is well typed: no lease is ever
\* longer than lease_duration_ms, no generation beyond those drawn.
THEOREM ClaimsTypeCorrect == Spec => []TypeOK
  BY TypeInitially, TypeKept, PTL DEF Spec

-----------------------------------------------------------------------------
(* Exclusion and fencing.                                                   *)

\* A claim call carries an active record of its own making or of a live claim.
AcquireShape ==
  \A s \in Slot : ~Idle(s) /\ ops[s].kind = "acquire" =>
    /\ ~ops[s].lapsed
    /\ ops[s].rec.status = "active"
    /\ ops[s].stage \in {"check", "fence"} => ops[s].id = Null

\* An operation that has decided to leave an active, never lapsed record.
Granting(s) ==
  /\ ~Idle(s)
  /\ ops[s].stage \in {"fence", "write", "refresh"}
  /\ ops[s].rec.status = "active" /\ ~ops[s].lapsed

\* What it is about to write is in nobody's way now: this outlives the check
\* because inside the mutex claims only lapse.
GrantIsClear ==
  \A s \in Slot : Granting(s) =>
    \A d \in LiveClaims :
      d # ops[s].id /\ CheckConflict(claims[d], ops[s].rec.path, ops[s].rec.mode)
        => ops[s].id \in revived \/ d \in revived

\* The inductive invariant for exclusion.
Arbitrated == TypeOK /\ AcquireShape /\ ExclusionUnlessRevived /\ GrantIsClear

LEMMA ConflictSymmetric ==
  ASSUME NEW r, NEW q, CheckConflict(r, q.path, q.mode)
  PROVE  CheckConflict(q, r.path, r.mode)
  BY DEF CheckConflict

\* A step that makes no claim live, and changes no path or mode, keeps exclusion.
LEMMA ShrinkKeepsExclusion ==
  ASSUME ExclusionUnlessRevived, revived \subseteq revived',
         LiveClaims' \subseteq LiveClaims,
         \A c \in LiveClaims' : /\ claims'[c].path = claims[c].path
                                /\ claims'[c].mode = claims[c].mode
  PROVE  ExclusionUnlessRevived'
  BY DEF ExclusionUnlessRevived, Conflicting, CheckConflict

\* Writing a record that conflicts with no live claim keeps exclusion.
LEMMA WriteKeepsExclusion ==
  ASSUME TypeOK, ExclusionUnlessRevived, NEW i \in ClaimId, NEW r \in Record,
         claims' = [claims EXCEPT ![i] = r], revived \subseteq revived',
         r.status = "active" =>
           \/ i \in revived'
           \/ \A d \in LiveClaims :
                d # i /\ CheckConflict(claims[d], r.path, r.mode)
                  => i \in revived \/ d \in revived
  PROVE  ExclusionUnlessRevived'
<1> SUFFICES ASSUME NEW c \in LiveClaims', NEW d \in LiveClaims', Conflicting(c, d)'
             PROVE  c \in revived' \/ d \in revived'
  BY DEF ExclusionUnlessRevived
<1>1. claims'[i] = r /\ \A e \in ClaimId : e # i => claims'[e] = claims[e]
  BY DEF TypeOK
<1>2. \A e \in LiveClaims' : e \in ClaimId /\ (e # i => e \in LiveClaims)
  BY <1>1 DEF LiveClaims, Readable
<1>3. c # d /\ CheckConflict(claims'[c], claims'[d].path, claims'[d].mode)
  BY DEF Conflicting, CheckConflict, IsSubPath
<1>4. CheckConflict(claims'[d], claims'[c].path, claims'[c].mode)
  BY <1>3 DEF CheckConflict
<1>5. CASE c # i /\ d # i
  <2>1. Conflicting(c, d)
    BY <1>1, <1>2, <1>3, <1>5 DEF Conflicting
  <2> QED
    BY <1>2, <1>5, <2>1 DEF ExclusionUnlessRevived
<1>6. CASE c = i
  <2>1. r.status = "active"
    BY <1>1, <1>6 DEF LiveClaims, Live
  <2> QED
    BY <1>1, <1>2, <1>3, <1>4, <1>6, <2>1
<1>7. CASE d = i
  <2>1. r.status = "active"
    BY <1>1, <1>7 DEF LiveClaims, Live
  <2> QED
    BY <1>1, <1>2, <1>3, <1>7, <2>1
<1> QED
  BY <1>5, <1>6, <1>7

LEMMA ArbitratedPreserved ==
  ASSUME Serialized, TypeOK', Arbitrated, [Next]_vars
  PROVE  Arbitrated'
<1> USE DEF Arbitrated
<1>0. \A s \in Slot : ~Idle(s) => ops[s] \in Op
  BY DEF TypeOK, Idle
<1>a. ops \in [Slot -> Op \union {Null}]
  BY DEF TypeOK
<1>b. \A s \in Slot : ~Idle(s) =>
        /\ ops[s].stage \notin {"read", "scan"} => ops[s].rec \in Record
        /\ ops[s].stage \notin {"check", "fence", "scan"} => ops[s].id \in ClaimId
  BY DEF TypeOK
\* Steps that leave the claims alone and start or end an operation.
<1>c. ASSUME NEW s \in Slot, NEW op, Start(s, op), UNCHANGED <<claims, revived>>,
             op # Null /\ op.kind = "acquire" =>
               /\ ~op.lapsed /\ op.rec.status = "active"
               /\ op.stage \in {"check", "fence"} => op.id = Null,
             op # Null /\ op.stage \in {"fence", "write", "refresh"}
             /\ op.rec.status = "active" /\ ~op.lapsed =>
               \A d \in LiveClaims :
                 d # op.id /\ CheckConflict(claims[d], op.rec.path, op.rec.mode)
                   => op.id \in revived \/ d \in revived
      PROVE  Arbitrated'
  <2>1. \A t \in Slot : ops'[t] = IF t = s THEN op ELSE ops[t]
    BY <1>a, <1>c DEF Start
  <2>2. LiveClaims' = LiveClaims
    BY <1>c DEF LiveClaims, Readable
  <2>3. AcquireShape'
    BY <1>c, <2>1 DEF AcquireShape, Idle
  <2>4. ExclusionUnlessRevived'
    BY <1>c, <2>2, ShrinkKeepsExclusion
  <2>5. GrantIsClear'
    BY <1>c, <2>1, <2>2 DEF GrantIsClear, Granting, Idle, CheckConflict
  <2> QED
    BY <2>3, <2>4, <2>5
<1>d. ASSUME NEW s \in Slot, Return(s), UNCHANGED <<claims, revived>>
      PROVE  Arbitrated'
  BY <1>c, <1>d DEF Return, Start
<1>1. ASSUME NEW s \in Slot, NEW a \in Agent, NEW x \in Path, NEW m \in Asked,
             BeginAcquire(s, a, x, m)
      PROVE  Arbitrated'
  BY <1>1, <1>c DEF BeginAcquire, NewOp
<1>2. ASSUME NEW s \in Slot, Check(s) PROVE Arbitrated'
  <2>1. /\ ~Idle(s) /\ ops[s] \in Op /\ ops[s].rec \in Record
        /\ ops[s].kind = "acquire" /\ ops[s].stage = "check" /\ ops[s].id = Null
        /\ ~ops[s].lapsed /\ ops[s].rec.status = "active"
    BY <1>2, <1>0, <1>b DEF Check, At, AcquireShape
  <2> DEFINE req == ops[s].rec
             own == {c \in LiveClaims : Own(claims[c], req)}
             blocker == {c \in LiveClaims \ own :
                           CheckConflict(claims[c], req.path, req.mode)}
  <2>2. UNCHANGED <<claims, clock, revived, restarted>>
    BY <1>2 DEF Check
  <2>3. CASE Return(s)
    BY <1>d, <2>2, <2>3
  <2>4. CASE own = {} /\ blocker = {} /\ Move(s, "fence")
    <3> DEFINE op == [ops[s] EXCEPT !.stage = "fence"]
    <3>1. /\ op.stage = "fence" /\ op.id = Null /\ ~op.lapsed
          /\ op.kind = "acquire" /\ op.rec = req
      BY <2>1 DEF Op
    <3>2. Start(s, op)
      BY <2>4 DEF Move, Start, TypeOK
    <3>3. \A d \in LiveClaims : ~CheckConflict(claims[d], req.path, req.mode)
      BY <2>4
    <3> HIDE DEF op
    <3> QED
      BY <1>c, <2>1, <2>2, <3>1, <3>2, <3>3
  <2>5. ASSUME NEW c \in own,
               Start(s, [ops[s] EXCEPT !.stage = "refresh", !.id = c,
                           !.rec = [claims[c] EXCEPT !.ttl = req.ttl]])
        PROVE  Arbitrated'
    <3> DEFINE r  == [claims[c] EXCEPT !.ttl = req.ttl]
               op == [ops[s] EXCEPT !.stage = "refresh", !.id = c, !.rec = r]
    <3>1. c \in LiveClaims /\ claims[c] \in Record /\ claims[c].status = "active"
      BY DEF LiveClaims, TypeOK, Readable, Live
    <3>2. r.path = claims[c].path /\ r.mode = claims[c].mode /\ r.status = "active"
      BY <3>1 DEF Record
    <3> HIDE DEF r
    <3>3. /\ op.stage = "refresh" /\ op.id = c /\ ~op.lapsed
          /\ op.kind = "acquire" /\ op.rec = r
      BY <2>1 DEF Op
    <3>4. Start(s, op)
      BY <2>5 DEF r
    <3> HIDE DEF op
    <3>5. \A d \in LiveClaims :
            d # c /\ CheckConflict(claims[d], r.path, r.mode)
              => c \in revived \/ d \in revived
      BY <3>1, <3>2 DEF ExclusionUnlessRevived, Conflicting
    <3> QED
      BY <1>c, <2>2, <3>2, <3>3, <3>4, <3>5
  <2> QED
    BY <1>2, <2>3, <2>4, <2>5 DEF Check
<1>3. ASSUME NEW s \in Slot, Refresh(s) PROVE Arbitrated'
  <2>1. /\ ~Idle(s) /\ ops[s].rec \in Record /\ ops[s].id \in ClaimId
        /\ ~ops[s].lapsed /\ ops[s].rec.status = "active"
        /\ ops[s].stage = "refresh"
    BY <1>3, <1>b DEF Refresh, At, AcquireShape
  <2>2. Granting(s)
    BY <2>1 DEF Granting
  <2>3. ExclusionUnlessRevived'
    BY <1>3, <2>1, <2>2, WriteKeepsExclusion DEF Refresh, GrantIsClear
  <2>4. \A t \in Slot : Idle(t)'
    BY <1>3, <1>a, <2>1 DEF Refresh, Return, Idle, Serialized
  <2> QED
    BY <2>3, <2>4 DEF AcquireShape, GrantIsClear, Granting
<1>4. ASSUME NEW s \in Slot, Fence(s) PROVE Arbitrated'
  <2>1. /\ ~Idle(s) /\ ops[s] \in Op /\ ops[s].rec \in Record
        /\ ops[s].kind = "acquire" /\ ops[s].stage = "fence" /\ ops[s].id = Null
        /\ ~ops[s].lapsed /\ ops[s].rec.status = "active"
    BY <1>4, <1>0, <1>b DEF Fence, At, AcquireShape
  <2>7. CASE Return(s) /\ UNCHANGED clock
    BY <1>4, <1>d, <2>7 DEF Fence
  <2> SUFFICES ASSUME ~(Return(s) /\ UNCHANGED clock) PROVE Arbitrated'
    BY <2>7
  <2> DEFINE g == clock[FenceFile(s)] + 1
             r == [ops[s].rec EXCEPT !.gen = g]
  <2>2. PICK c \in ClaimId : Start(s, [ops[s] EXCEPT !.stage = "write", !.id = c,
                                         !.rec.gen = g])
    BY <1>4 DEF Fence
  <2> DEFINE op == [ops[s] EXCEPT !.stage = "write", !.id = c, !.rec = r]
  <2>3. Start(s, op)
    BY <2>1, <2>2 DEF Op
  <2>4. /\ r.path = ops[s].rec.path /\ r.mode = ops[s].rec.mode
        /\ r.status = "active"
    BY <2>1 DEF Record
  <2>5. \A d \in LiveClaims :
          CheckConflict(claims[d], r.path, r.mode) => d \in revived
    <3>1. Granting(s)
      BY <2>1 DEF Granting
    <3>2. Null \notin revived /\ Null \notin LiveClaims
      BY MarkAssumption DEF TypeOK, LiveClaims
    <3> QED
      BY <2>1, <2>4, <3>1, <3>2 DEF GrantIsClear
  <2> HIDE DEF r
  <2>6. /\ op.stage = "write" /\ op.id = c /\ ~op.lapsed
        /\ op.kind = "acquire" /\ op.rec = r
    BY <2>1 DEF Op
  <2> HIDE DEF op
  <2> QED
    BY <1>4, <1>c, <2>3, <2>4, <2>5, <2>6 DEF Fence
<1>5. ASSUME NEW s \in Slot, NEW a \in Agent, NEW c \in ClaimId,
             BeginHeartbeat(s, a, c) \/ BeginRelease(s, a, c)
      PROVE  Arbitrated'
  BY <1>5, <1>c DEF BeginHeartbeat, BeginRelease, NewOp
<1>6. ASSUME NEW s \in Slot, HeartbeatRead(s) PROVE Arbitrated'
  <2>1. /\ ~Idle(s) /\ ops[s] \in Op /\ ops[s].id \in ClaimId
        /\ ops[s].kind = "heartbeat"
        /\ UNCHANGED <<claims, clock, revived, restarted>>
    BY <1>6, <1>0, <1>b DEF HeartbeatRead, At
  <2> DEFINE c  == ops[s].id
             r  == Extended(claims[c])
             lp == ~Live(claims[c])
             op == [ops[s] EXCEPT !.stage = "write", !.rec = r, !.lapsed = lp]
  <2>2. CASE Return(s)
    BY <1>d, <2>1, <2>2
  <2>3. CASE Readable(c) /\ Start(s, op)
    <3>1. claims[c] \in Record
      BY <2>1, <2>3 DEF TypeOK, Readable
    <3>2. r.path = claims[c].path /\ r.mode = claims[c].mode
      BY <3>1, ExtendedType
    <3>3. ~lp => c \in LiveClaims
      BY <2>1, <2>3 DEF LiveClaims
    <3>4. ~lp => \A d \in LiveClaims :
            d # c /\ CheckConflict(claims[d], r.path, r.mode)
              => c \in revived \/ d \in revived
      BY <3>2, <3>3 DEF ExclusionUnlessRevived, Conflicting
    <3> HIDE DEF r, lp
    <3>5. /\ op.kind = "heartbeat" /\ op.id = c
          /\ op.rec = r /\ op.lapsed = lp
      BY <2>1 DEF Op
    <3> HIDE DEF op
    <3> QED
      BY <1>c, <2>1, <2>3, <3>4, <3>5
  <2> QED
    BY <1>6, <2>2, <2>3 DEF HeartbeatRead
<1>7. ASSUME NEW s \in Slot, ReleaseRead(s) PROVE Arbitrated'
  <2>1. /\ ~Idle(s) /\ ops[s] \in Op /\ ops[s].id \in ClaimId
        /\ ops[s].kind = "release"
        /\ UNCHANGED <<claims, clock, revived, restarted>>
    BY <1>7, <1>0, <1>b DEF ReleaseRead, At
  <2> DEFINE r  == [claims[ops[s].id] EXCEPT !.status = "released"]
             op == [ops[s] EXCEPT !.stage = "write", !.rec = r]
  <2>2. CASE Return(s)
    BY <1>d, <2>1, <2>2
  <2>3. CASE Readable(ops[s].id) /\ Start(s, op)
    <3>1. r.status = "released"
      BY <2>1, <2>3 DEF TypeOK, Readable, Record
    <3> HIDE DEF r
    <3>2. op.kind = "release" /\ op.rec = r
      BY <2>1 DEF Op
    <3> HIDE DEF op
    <3> QED
      BY <1>c, <2>1, <2>3, <3>1, <3>2
  <2> QED
    BY <1>7, <2>2, <2>3 DEF ReleaseRead
<1>8. ASSUME NEW s \in Slot, NEW a \in Agent, BeginReap(s, a) PROVE Arbitrated'
  BY <1>8, <1>c DEF BeginReap, NewOp
<1>9. ASSUME NEW s \in Slot, ReapScan(s) PROVE Arbitrated'
  <2>1. /\ ~Idle(s) /\ ops[s] \in Op /\ ops[s].kind = "reap"
        /\ ops[s].stage = "scan" /\ UNCHANGED <<claims, clock, revived, restarted>>
    BY <1>9, <1>0 DEF ReapScan, At
  <2>2. CASE Return(s)
    BY <1>d, <2>1, <2>2
  <2>3. ASSUME NEW c \in ops[s].todo, Start(s, [ops[s] EXCEPT !.todo = @ \ {c}])
        PROVE  Arbitrated'
    <3> DEFINE op == [ops[s] EXCEPT !.todo = @ \ {c}]
    <3>1. op.kind = "reap" /\ op.stage = "scan"
      BY <2>1 DEF Op
    <3> HIDE DEF op
    <3> QED
      BY <1>c, <2>1, <2>3, <3>1 DEF op
  <2>4. ASSUME NEW c \in ops[s].todo, Readable(c),
               Start(s, [[ops[s] EXCEPT !.todo = @ \ {c}]
                           EXCEPT !.stage = "write", !.id = c,
                             !.rec = [claims[c] EXCEPT !.status = "expired"]])
        PROVE  Arbitrated'
    <3> DEFINE r  == [claims[c] EXCEPT !.status = "expired"]
               op == [[ops[s] EXCEPT !.todo = @ \ {c}]
                        EXCEPT !.stage = "write", !.id = c, !.rec = r]
    <3>1. r.status = "expired"
      BY <2>1, <2>4 DEF TypeOK, Readable, Record, Op
    <3>2. Start(s, op)
      BY <2>4
    <3> HIDE DEF r
    <3>3. op.kind = "reap" /\ op.rec = r
      BY <2>1 DEF Op
    <3> HIDE DEF op
    <3> QED
      BY <1>c, <2>1, <3>1, <3>2, <3>3
  <2> QED
    BY <1>9, <2>2, <2>3, <2>4 DEF ReapScan, Overdue
<1>10. ASSUME NEW s \in Slot, Write(s) PROVE Arbitrated'
  <2>1. /\ ~Idle(s) /\ ops[s] \in Op /\ ops[s].rec \in Record
        /\ ops[s].id \in ClaimId /\ ops[s].stage = "write"
    BY <1>10, <1>0, <1>b DEF Write
  <2>2. /\ claims' = [claims EXCEPT ![ops[s].id] = ops[s].rec]
        /\ revived \subseteq revived'
        /\ ops[s].lapsed => ops[s].id \in revived'
    BY <1>10 DEF Write
  <2>3. ExclusionUnlessRevived'
    <3>1. ops[s].rec.status = "active" => \/ ops[s].id \in revived'
                                          \/ Granting(s)
      BY <2>1, <2>2 DEF Granting
    <3> QED
      BY <2>1, <2>2, <3>1, WriteKeepsExclusion DEF GrantIsClear
  <2> DEFINE op == [ops[s] EXCEPT !.stage = "event"]
  <2>4. /\ op.stage = "event" /\ op.kind = ops[s].kind
        /\ op.lapsed = ops[s].lapsed /\ op.rec = ops[s].rec
    BY <2>1 DEF Op
  <2>5. ops'[s] = op /\ \A t \in Slot : ~Idle(t)' => t = s
    BY <1>10, <1>a, <2>1 DEF Write, Move, Idle, Serialized
  <2> HIDE DEF op
  <2>6. AcquireShape'
    BY <2>1, <2>4, <2>5 DEF AcquireShape, Idle
  <2> QED
    BY <2>3, <2>4, <2>5, <2>6 DEF GrantIsClear, Granting
<1>11. ASSUME NEW s \in Slot, Event(s) PROVE Arbitrated'
  <2>1. ~Idle(s) /\ ops[s] \in Op /\ UNCHANGED <<claims, clock, revived, restarted>>
    BY <1>11, <1>0 DEF Event
  <2>2. CASE Return(s)
    BY <1>d, <2>1, <2>2
  <2>3. CASE ops[s].kind = "reap" /\ Start(s, [ops[s] EXCEPT !.stage = "scan",
                                                  !.id = Null, !.rec = Null])
    <3> DEFINE op == [ops[s] EXCEPT !.stage = "scan", !.id = Null, !.rec = Null]
    <3>1. op.stage = "scan" /\ op.kind = "reap"
      BY <2>1, <2>3 DEF Op
    <3> HIDE DEF op
    <3> QED
      BY <1>c, <2>1, <2>3, <3>1 DEF op
  <2> QED
    BY <1>11, <2>2, <2>3 DEF Event
<1>12. ASSUME NEW a \in Agent, Crash(a) PROVE Arbitrated'
  <2>1. /\ \A c \in ClaimId : claims'[c] = claims[c] \/ claims'[c] = Torn
        /\ \A s \in Slot : ops'[s] = Null \/ ops'[s] = ops[s]
        /\ revived' = revived
    BY <1>12 DEF Crash
  <2>2. /\ LiveClaims' \subseteq LiveClaims
        /\ \A c \in LiveClaims' : claims'[c] = claims[c]
    BY <2>1 DEF LiveClaims, Readable
  <2>3. ExclusionUnlessRevived'
    BY <2>1, <2>2, ShrinkKeepsExclusion
  <2>4. AcquireShape'
    BY <2>1 DEF AcquireShape, Idle
  <2>5. GrantIsClear'
    BY <2>1, <2>2 DEF GrantIsClear, Granting, Idle
  <2> QED
    BY <2>3, <2>4, <2>5
<1>13. CASE Tick
  <2>1. revived' = revived
    BY <1>13 DEF Tick
  <2>2. \A c \in ClaimId :
          /\ Readable(c)' => Readable(c)
          /\ Readable(c) => /\ claims'[c] = [claims[c] EXCEPT !.ttl = Sooner(@)]
                            /\ claims[c] \in Record
    BY <1>13, RecordIsNoFileMark DEF Tick, Readable, TypeOK
  <2>3. \A c \in LiveClaims' : /\ c \in LiveClaims
                               /\ claims'[c].path = claims[c].path
                               /\ claims'[c].mode = claims[c].mode
    <3> TAKE c \in LiveClaims'
    <3>1. c \in ClaimId /\ Readable(c) /\ Live(claims'[c]) /\ claims[c] \in Record
      BY <2>2 DEF LiveClaims
    <3>2. claims'[c] = [claims[c] EXCEPT !.ttl = Sooner(@)]
      BY <2>2, <3>1
    <3>3. Live(claims[c])
      BY <3>1, <3>2, SoonerType
    <3> QED
      BY <3>1, <3>2, <3>3 DEF LiveClaims, Record
  <2>4. ExclusionUnlessRevived'
    BY <2>1, <2>3, ShrinkKeepsExclusion
  <2>5. ASSUME NEW s \in Slot, ~Idle(s)'
        PROVE  /\ ~Idle(s)
               /\ ops'[s].kind = ops[s].kind /\ ops'[s].stage = ops[s].stage
               /\ ops'[s].id = ops[s].id /\ ops'[s].lapsed = ops[s].lapsed
               /\ ops[s].rec \in Record =>
                    /\ ops'[s].rec.path = ops[s].rec.path
                    /\ ops'[s].rec.mode = ops[s].rec.mode
                    /\ ops'[s].rec.status = ops[s].rec.status
                    /\ ops'[s].rec.gen = ops[s].rec.gen
               /\ ops[s].rec = Null => ops'[s].rec = Null
    <3>1. ~Idle(s) /\ ops[s] \in Op
      BY <1>13, <1>0, <2>5 DEF Tick, Idle
    <3>2. CASE ops[s].rec = Null
      <4>1. ops'[s] = ops[s]
        BY <1>13, <3>2 DEF Tick
      <4> QED
        BY <3>1, <4>1
    <3>3. CASE ops[s].rec # Null
      <4>1. ops[s].rec \in Record
        BY <3>1, <3>3 DEF Op
      <4> DEFINE r == [ops[s].rec EXCEPT !.ttl = Sooner(@)]
      <4>2. /\ r.path = ops[s].rec.path /\ r.mode = ops[s].rec.mode
            /\ r.status = ops[s].rec.status /\ r.gen = ops[s].rec.gen
        BY <4>1 DEF Record
      <4>3. ops'[s] = [ops[s] EXCEPT !.rec = r]
        BY <1>13, <3>1, <3>3 DEF Tick, Op
      <4> HIDE DEF r
      <4> QED
        BY <3>1, <3>3, <4>2, <4>3 DEF Op
    <3> QED
      BY <3>2, <3>3
  <2>6. AcquireShape'
    <3> SUFFICES ASSUME NEW s \in Slot, ~Idle(s)', ops'[s].kind = "acquire"
                 PROVE  /\ ~ops'[s].lapsed
                        /\ ops'[s].rec.status = "active"
                        /\ ops'[s].stage \in {"check", "fence"} => ops'[s].id = Null
      BY DEF AcquireShape
    <3>1. ops[s].rec \in Record \/ ops[s].rec = Null
      BY <1>0, <2>5 DEF Op
    <3> QED
      BY <2>5, <3>1 DEF AcquireShape
  <2>7. GrantIsClear'
    <3> SUFFICES ASSUME NEW s \in Slot, Granting(s)', NEW d \in LiveClaims',
                        d # ops'[s].id,
                        CheckConflict(claims'[d], ops'[s].rec.path, ops'[s].rec.mode)
                 PROVE  ops'[s].id \in revived \/ d \in revived
      BY <2>1 DEF GrantIsClear, CheckConflict, IsSubPath
    <3>1. ops[s].rec \in Record
      BY <1>b, <2>5 DEF Granting
    <3>2. Granting(s)
      BY <2>5, <3>1 DEF Granting
    <3>3. CheckConflict(claims[d], ops[s].rec.path, ops[s].rec.mode)
      BY <2>3, <2>5, <3>1 DEF CheckConflict, Granting
    <3> QED
      BY <2>3, <2>5, <3>2, <3>3 DEF GrantIsClear, Granting
  <2> QED
    BY <2>4, <2>6, <2>7
<1>14. CASE UNCHANGED vars
  BY <1>14 DEF vars, AcquireShape, ExclusionUnlessRevived, GrantIsClear, Granting,
               Idle, LiveClaims, Readable, Conflicting, CheckConflict
<1> QED
  BY <1>1, <1>2, <1>3, <1>4, <1>5, <1>6, <1>7, <1>8, <1>9, <1>10, <1>11,
     <1>12, <1>13, <1>14 DEF Next, Call, Step

LEMMA ArbitratedInitially == Init => Arbitrated
<1> SUFFICES ASSUME Init PROVE Arbitrated
  OBVIOUS
<1>1. LiveClaims = {} /\ \A s \in Slot : Idle(s)
  BY DEF Init, LiveClaims, Readable, Idle
<1> QED
  BY <1>1, TypeInitially DEF Arbitrated, AcquireShape, ExclusionUnlessRevived,
                             GrantIsClear, Granting

\* The inductive invariant holds as long as the mutex is one.
THEOREM ClaimsArbitrated == Spec /\ []Serialized => []Arbitrated
<1>1. Init => Arbitrated
  BY ArbitratedInitially
<1>2. Arbitrated /\ Serialized /\ TypeOK' /\ [Next]_vars => Arbitrated'
  BY ArbitratedPreserved
<1> QED
  BY <1>1, <1>2, ClaimsTypeCorrect, PTL DEF Spec

\* acquire_claim never grants a claim that overlaps another live one: overlapping
\* live claims exist only through the reactivation of a lapsed claim.
THEOREM ClaimExclusion == Spec /\ []Serialized => []ExclusionUnlessRevived
<1>1. Arbitrated => ExclusionUnlessRevived
  BY DEF Arbitrated
<1> QED
  BY <1>1, ClaimsArbitrated, PTL

-----------------------------------------------------------------------------
(* Generations.                                                             *)

\* The claim whose number an operation is about to write into its file.
Carries(s, c, x, g) ==
  /\ ~Idle(s) /\ ops[s].stage \in {"write", "refresh"} /\ ops[s].id = c
  /\ ops[s].rec.path = x /\ ops[s].rec.gen = g

\* Claim c has, or is about to be written with, generation g of path x.
Bears(c, x, g) ==
  \/ Readable(c) /\ claims[c].path = x /\ claims[c].gen = g
  \/ \E s \in Slot : Carries(s, c, x, g)

\* The inductive invariant for generations: a claim bears one, and until a counter
\* has lost its count no generation exceeds it and no two claims bear the same.
Numbered ==
  \A c, d \in ClaimId, x, y \in Path, g, h \in Gen :
    Bears(c, x, g) /\ Bears(d, y, h) =>
      /\ c = d => x = y /\ g = h
      /\ FileOf[x] \notin restarted =>
           /\ g <= clock[FileOf[x]]
           /\ FileOf[x] = FileOf[y] /\ g = h => c = d

\* Steps that number nothing: what a claim bears afterwards it bore before.
LEMMA NumberedKept ==
  ASSUME Numbered, clock' = clock, restarted' = restarted,
         \A c \in ClaimId, x \in Path, g \in Gen : Bears(c, x, g)' => Bears(c, x, g)
  PROVE  Numbered'
<1>1. ASSUME NEW c \in ClaimId, NEW d \in ClaimId, NEW x \in Path, NEW y \in Path,
             NEW g \in Gen, NEW h \in Gen, Bears(c, x, g)', Bears(d, y, h)'
      PROVE  /\ c = d => x = y /\ g = h
             /\ FileOf[x] \notin restarted' =>
                  /\ g <= clock'[FileOf[x]]
                  /\ FileOf[x] = FileOf[y] /\ g = h => c = d
  <2>1. Bears(c, x, g) /\ Bears(d, y, h)
    BY <1>1
  <2> QED
    BY <2>1 DEF Numbered
<1> QED
  BY <1>1 DEF Numbered

\* An operation that starts, moves or ends without touching a file, and carries
\* at most the number of the claim it has read.
LEMMA StartKeepsBearings ==
  ASSUME TypeOK, NEW s \in Slot, NEW op, Start(s, op), UNCHANGED claims,
         op # Null /\ op.stage \in {"write", "refresh"} =>
           /\ Readable(op.id)
           /\ op.rec.path = claims[op.id].path /\ op.rec.gen = claims[op.id].gen
  PROVE  \A c \in ClaimId, x \in Path, g \in Gen : Bears(c, x, g)' => Bears(c, x, g)
<1>1. /\ ops'[s] = op
      /\ \A t \in Slot : t # s => ops'[t] = ops[t]
  BY DEF TypeOK, Start
<1>2. \A c \in ClaimId : Readable(c)' <=> Readable(c)
  BY DEF Readable
<1> QED
  BY <1>1, <1>2 DEF Bears, Carries, Idle

LEMMA NumberedPreserved ==
  ASSUME TypeOK, Numbered, [Next]_vars
  PROVE  Numbered'
<1>0. \A s \in Slot : ~Idle(s) => ops[s] \in Op
  BY DEF TypeOK, Idle
<1>a. ops \in [Slot -> Op \union {Null}]
  BY DEF TypeOK
<1>b. \A s \in Slot : ~Idle(s) =>
        /\ ops[s].stage \notin {"read", "scan"} => ops[s].rec \in Record
        /\ ops[s].stage \notin {"check", "fence", "scan"} => ops[s].id \in ClaimId
  BY DEF TypeOK
<1>c. \A c \in ClaimId : Readable(c) => claims[c] \in Record
  BY DEF TypeOK, Readable
<1>d. ASSUME NEW s \in Slot, Return(s), UNCHANGED <<claims, clock, restarted>>
      PROVE  Numbered'
  BY <1>d, StartKeepsBearings, NumberedKept DEF Return, Start
<1>1. ASSUME NEW s \in Slot, NEW a \in Agent, NEW x \in Path, NEW m \in Asked,
             BeginAcquire(s, a, x, m)
      PROVE  Numbered'
  BY <1>1, StartKeepsBearings, NumberedKept DEF BeginAcquire, NewOp
<1>2. ASSUME NEW s \in Slot, Check(s) PROVE Numbered'
  <2>1. /\ ~Idle(s) /\ ops[s] \in Op /\ UNCHANGED <<claims, clock, restarted>>
    BY <1>2, <1>0 DEF Check, At
  <2>2. CASE Return(s)
    BY <1>d, <2>1, <2>2
  <2>3. CASE Move(s, "fence")
    <3> DEFINE op == [ops[s] EXCEPT !.stage = "fence"]
    <3>1. op.stage = "fence"
      BY <2>1 DEF Op
    <3>2. Start(s, op)
      BY <2>3 DEF Move, Start, TypeOK
    <3> HIDE DEF op
    <3> QED
      BY <2>1, <3>1, <3>2, StartKeepsBearings, NumberedKept
  <2>4. ASSUME NEW c \in LiveClaims,
               Start(s, [ops[s] EXCEPT !.stage = "refresh", !.id = c,
                           !.rec = [claims[c] EXCEPT !.ttl = ops[s].rec.ttl]])
        PROVE  Numbered'
    <3> DEFINE r  == [claims[c] EXCEPT !.ttl = ops[s].rec.ttl]
               op == [ops[s] EXCEPT !.stage = "refresh", !.id = c, !.rec = r]
    <3>1. Readable(c) /\ claims[c] \in Record
      BY <1>c DEF LiveClaims
    <3>2. r.path = claims[c].path /\ r.gen = claims[c].gen
      BY <3>1 DEF Record
    <3>3. Start(s, op)
      BY <2>4
    <3> HIDE DEF r
    <3>4. op.id = c /\ op.rec = r
      BY <2>1 DEF Op
    <3> HIDE DEF op
    <3> QED
      BY <2>1, <3>1, <3>2, <3>3, <3>4, StartKeepsBearings, NumberedKept
  <2> QED
    BY <1>2, <2>2, <2>3, <2>4 DEF Check
<1>3. ASSUME NEW s \in Slot, Refresh(s) PROVE Numbered'
  <2>1. /\ ~Idle(s) /\ ops[s].stage = "refresh" /\ ops[s].id \in ClaimId
        /\ UNCHANGED <<clock, restarted>>
        /\ claims' = [claims EXCEPT ![ops[s].id] = ops[s].rec]
        /\ Return(s)
    BY <1>3, <1>b DEF Refresh, At
  <2>2. /\ \A t \in Slot : ~Idle(t)' => ~Idle(t) /\ ops'[t] = ops[t]
        /\ claims'[ops[s].id] = ops[s].rec
        /\ \A c \in ClaimId : c # ops[s].id => claims'[c] = claims[c]
    BY <1>a, <2>1 DEF Return, Idle, TypeOK
  <2>3. \A c \in ClaimId, x \in Path, g \in Gen : Bears(c, x, g)' => Bears(c, x, g)
    BY <2>1, <2>2 DEF Bears, Carries, Readable
  <2> QED
    BY <2>1, <2>3, NumberedKept
<1>4. ASSUME NEW s \in Slot, Fence(s) PROVE Numbered'
  <2>0. CASE Return(s) /\ UNCHANGED clock
    BY <1>4, <1>d, <2>0 DEF Fence
  <2> SUFFICES ASSUME ~(Return(s) /\ UNCHANGED clock) PROVE Numbered'
    BY <2>0
  <2> DEFINE f == FenceFile(s)
             n == clock[f] + 1
             y == ops[s].rec.path
             r == [ops[s].rec EXCEPT !.gen = n]
  <2>1. /\ ~Idle(s) /\ ops[s] \in Op /\ ops[s].rec \in Record /\ ops[s].stage = "fence"
        /\ UNCHANGED <<claims, restarted>> /\ clock' = [clock EXCEPT ![f] = n]
    BY <1>4, <1>0, <1>b DEF Fence, At
  <2>2. PICK i \in ClaimId :
          /\ Fresh(i)
          /\ Start(s, [ops[s] EXCEPT !.stage = "write", !.id = i, !.rec.gen = n])
    BY <1>4 DEF Fence
  <2> DEFINE op == [ops[s] EXCEPT !.stage = "write", !.id = i, !.rec = r]
  <2>3. ops'[s] = op /\ \A t \in Slot : t # s => ops'[t] = ops[t]
    BY <1>a, <2>1, <2>2 DEF Start, Op
  <2>4. y \in Path /\ f = FileOf[y] /\ r.path = y /\ r.gen = n
    BY <2>1 DEF Record, FenceFile
  <2> HIDE DEF r
  <2>5. op.id = i /\ op.rec = r
    BY <2>1 DEF Op
  <2> HIDE DEF op
  <2>6. f \in File /\ clock[f] \in Nat /\ clock \in [File -> Gen]
    BY <2>4, PathAssumption DEF TypeOK, Gen
  <2>7. /\ \A g \in File : clock'[g] = IF g = f THEN n ELSE clock[g]
    BY <2>1, <2>6
  <2>8. \A x \in Path, g \in Gen : ~Bears(i, x, g)
    BY <2>2 DEF Fresh, Bears, Carries, Readable
  <2> HIDE DEF f, n, y
  <2>9. ASSUME NEW c \in ClaimId, NEW x \in Path, NEW g \in Gen, Bears(c, x, g)'
        PROVE  (c = i /\ x = y /\ g = n) \/ (c # i /\ Bears(c, x, g))
    <3>1. CASE Readable(c)' /\ claims'[c].path = x /\ claims'[c].gen = g
      BY <2>1, <2>8, <3>1 DEF Bears, Readable
    <3>2. ASSUME NEW t \in Slot, Carries(t, c, x, g)'
          PROVE  (c = i /\ x = y /\ g = n) \/ (c # i /\ Bears(c, x, g))
      <4>1. CASE t = s
        BY <2>3, <2>4, <2>5, <3>2, <4>1 DEF Carries
      <4>2. CASE t # s
        <5>1. Carries(t, c, x, g)
          BY <2>3, <3>2, <4>2 DEF Carries, Idle
        <5> QED
          BY <2>8, <5>1 DEF Bears
      <4> QED
        BY <4>1, <4>2
    <3> QED
      BY <2>9, <3>1, <3>2 DEF Bears
  <2>10. ASSUME NEW c \in ClaimId, NEW x \in Path, NEW g \in Gen, Bears(c, x, g),
                FileOf[x] \notin restarted
         PROVE  /\ g <= clock[FileOf[x]] /\ g <= clock'[FileOf[x]]
                /\ FileOf[x] = f => g # n
    <3>1. FileOf[x] \in File /\ clock[FileOf[x]] \in Nat /\ g \in Nat
      BY PathAssumption DEF TypeOK, Gen
    <3>2. g <= clock[FileOf[x]]
      BY <2>10 DEF Numbered
    <3> QED
      BY <2>6, <2>7, <3>1, <3>2 DEF n
  <2>11. ASSUME NEW c \in ClaimId, NEW d \in ClaimId, NEW x \in Path, NEW z \in Path,
                NEW g \in Gen, NEW h \in Gen, Bears(c, x, g)', Bears(d, z, h)'
         PROVE  /\ c = d => x = z /\ g = h
                /\ FileOf[x] \notin restarted =>
                     /\ g <= clock'[FileOf[x]]
                     /\ FileOf[x] = FileOf[z] /\ g = h => c = d
    <3>1. (c = i /\ x = y /\ g = n) \/ (c # i /\ Bears(c, x, g))
      BY <2>9, <2>11
    <3>2. (d = i /\ z = y /\ h = n) \/ (d # i /\ Bears(d, z, h))
      BY <2>9, <2>11
    <3>3. n <= clock'[f]
      BY <2>6, <2>7 DEF n
    <3>4. CASE c = i /\ x = y /\ g = n
      BY <2>4, <2>10, <3>2, <3>3, <3>4
    <3>5. CASE c # i /\ Bears(c, x, g)
      BY <2>4, <2>10, <3>2, <3>5 DEF Numbered
    <3> QED
      BY <3>1, <3>4, <3>5
  <2> QED
    BY <2>1, <2>11 DEF Numbered
<1>5. ASSUME NEW s \in Slot, NEW a \in Agent, NEW c \in ClaimId,
             BeginHeartbeat(s, a, c) \/ BeginRelease(s, a, c)
      PROVE  Numbered'
  BY <1>5, StartKeepsBearings, NumberedKept DEF BeginHeartbeat, BeginRelease, NewOp
\* A heartbeat, a release and a reap rewrite the record they have read.
<1>e. ASSUME NEW s \in Slot, NEW c \in ClaimId, NEW r \in Record, NEW op \in Op,
             Readable(c), r.path = claims[c].path, r.gen = claims[c].gen,
             op.id = c, op.rec = r, Start(s, op), UNCHANGED <<claims, clock, restarted>>
      PROVE  Numbered'
  BY <1>e, StartKeepsBearings, NumberedKept
<1>6. ASSUME NEW s \in Slot, HeartbeatRead(s) PROVE Numbered'
  <2>1. /\ ~Idle(s) /\ ops[s] \in Op /\ ops[s].id \in ClaimId
        /\ UNCHANGED <<claims, clock, restarted>>
    BY <1>6, <1>0, <1>b DEF HeartbeatRead, At
  <2> DEFINE c  == ops[s].id
             r  == Extended(claims[c])
             lp == ~Live(claims[c])
             op == [ops[s] EXCEPT !.stage = "write", !.rec = r, !.lapsed = lp]
  <2>2. CASE Return(s)
    BY <1>d, <2>1, <2>2
  <2>3. CASE Readable(c) /\ Start(s, op)
    <3>1. r \in Record /\ r.path = claims[c].path /\ r.gen = claims[c].gen
      BY <1>c, <2>1, <2>3, ExtendedType
    <3>2. lp \in BOOLEAN
      OBVIOUS
    <3> HIDE DEF r, lp
    <3>3. op \in Op /\ op.id = c /\ op.rec = r
      BY <2>1, <3>1, <3>2 DEF Op, Stage
    <3> HIDE DEF op
    <3> QED
      BY <1>e, <2>1, <2>3, <3>1, <3>3
  <2> QED
    BY <1>6, <2>2, <2>3 DEF HeartbeatRead
<1>7. ASSUME NEW s \in Slot, ReleaseRead(s) PROVE Numbered'
  <2>1. /\ ~Idle(s) /\ ops[s] \in Op /\ ops[s].id \in ClaimId
        /\ UNCHANGED <<claims, clock, restarted>>
    BY <1>7, <1>0, <1>b DEF ReleaseRead, At
  <2> DEFINE c  == ops[s].id
             r  == [claims[c] EXCEPT !.status = "released"]
             op == [ops[s] EXCEPT !.stage = "write", !.rec = r]
  <2>2. CASE Return(s)
    BY <1>d, <2>1, <2>2
  <2>3. CASE Readable(c) /\ Start(s, op)
    <3>1. r \in Record /\ r.path = claims[c].path /\ r.gen = claims[c].gen
      BY <1>c, <2>1, <2>3 DEF Record, Status
    <3> HIDE DEF r
    <3>3. op \in Op /\ op.id = c /\ op.rec = r
      BY <2>1, <3>1 DEF Op, Stage
    <3> HIDE DEF op
    <3> QED
      BY <1>e, <2>1, <2>3, <3>1, <3>3
  <2> QED
    BY <1>7, <2>2, <2>3 DEF ReleaseRead
<1>8. ASSUME NEW s \in Slot, NEW a \in Agent, BeginReap(s, a) PROVE Numbered'
  BY <1>8, StartKeepsBearings, NumberedKept DEF BeginReap, NewOp
<1>9. ASSUME NEW s \in Slot, ReapScan(s) PROVE Numbered'
  <2>1. /\ ~Idle(s) /\ ops[s] \in Op /\ ops[s].stage = "scan"
        /\ UNCHANGED <<claims, clock, restarted>>
    BY <1>9, <1>0 DEF ReapScan, At
  <2>2. CASE Return(s)
    BY <1>d, <2>1, <2>2
  <2>3. ASSUME NEW c \in ops[s].todo, Start(s, [ops[s] EXCEPT !.todo = @ \ {c}])
        PROVE  Numbered'
    <3> DEFINE op == [ops[s] EXCEPT !.todo = @ \ {c}]
    <3>1. op.stage = "scan"
      BY <2>1 DEF Op
    <3> HIDE DEF op
    <3> QED
      BY <2>1, <2>3, <3>1, StartKeepsBearings, NumberedKept DEF op
  <2>4. ASSUME NEW c \in ops[s].todo, Readable(c),
               Start(s, [[ops[s] EXCEPT !.todo = @ \ {c}]
                           EXCEPT !.stage = "write", !.id = c,
                             !.rec = [claims[c] EXCEPT !.status = "expired"]])
        PROVE  Numbered'
    <3> DEFINE r  == [claims[c] EXCEPT !.status = "expired"]
               op == [[ops[s] EXCEPT !.todo = @ \ {c}]
                        EXCEPT !.stage = "write", !.id = c, !.rec = r]
    <3>1. c \in ClaimId
      BY <2>1 DEF Op
    <3>2. r \in Record /\ r.path = claims[c].path /\ r.gen = claims[c].gen
      BY <1>c, <2>4, <3>1 DEF Record, Status
    <3>3. Start(s, op)
      BY <2>4
    <3> HIDE DEF r
    <3>4. op \in Op /\ op.id = c /\ op.rec = r
      BY <2>1, <3>1, <3>2 DEF Op, Stage
    <3> HIDE DEF op
    <3> QED
      BY <1>e, <2>1, <2>4, <3>1, <3>2, <3>3, <3>4
  <2> QED
    BY <1>9, <2>2, <2>3, <2>4 DEF ReapScan, Overdue
<1>10. ASSUME NEW s \in Slot, Write(s) PROVE Numbered'
  <2>1. /\ ~Idle(s) /\ ops[s] \in Op /\ ops[s].stage = "write" /\ ops[s].id \in ClaimId
        /\ UNCHANGED <<clock, restarted>>
        /\ claims' = [claims EXCEPT ![ops[s].id] = ops[s].rec]
        /\ Move(s, "event")
    BY <1>10, <1>0, <1>b DEF Write
  <2>2. /\ ops'[s].stage = "event"
        /\ \A t \in Slot : t # s => ops'[t] = ops[t]
        /\ claims'[ops[s].id] = ops[s].rec
        /\ \A c \in ClaimId : c # ops[s].id => claims'[c] = claims[c]
    <3>1. ops'[s] = [ops[s] EXCEPT !.stage = "event"]
      BY <1>a, <2>1 DEF Move
    <3>2. ops'[s].stage = "event"
      BY <2>1, <3>1 DEF Op
    <3> QED
      BY <1>a, <2>1, <3>2 DEF Move, TypeOK
  <2>3. ASSUME NEW c \in ClaimId, NEW x \in Path, NEW g \in Gen, Bears(c, x, g)'
        PROVE  Bears(c, x, g)
    <3>1. CASE Readable(c)' /\ claims'[c].path = x /\ claims'[c].gen = g
      BY <2>1, <2>2, <3>1 DEF Bears, Carries, Readable
    <3>2. ASSUME NEW t \in Slot, Carries(t, c, x, g)' PROVE Bears(c, x, g)
      BY <2>2, <3>2 DEF Bears, Carries, Idle
    <3> QED
      BY <2>3, <3>1, <3>2 DEF Bears
  <2> QED
    BY <2>1, <2>3, NumberedKept
<1>11. ASSUME NEW s \in Slot, Event(s) PROVE Numbered'
  <2>1. ~Idle(s) /\ ops[s] \in Op /\ UNCHANGED <<claims, clock, restarted>>
    BY <1>11, <1>0 DEF Event
  <2>2. CASE Return(s)
    BY <1>d, <2>1, <2>2
  <2>3. CASE Start(s, [ops[s] EXCEPT !.stage = "scan", !.id = Null, !.rec = Null])
    <3> DEFINE op == [ops[s] EXCEPT !.stage = "scan", !.id = Null, !.rec = Null]
    <3>1. op.stage = "scan"
      BY <2>1 DEF Op
    <3> HIDE DEF op
    <3> QED
      BY <2>1, <2>3, <3>1, StartKeepsBearings, NumberedKept DEF op
  <2> QED
    BY <1>11, <2>2, <2>3 DEF Event
<1>12. ASSUME NEW a \in Agent, Crash(a) PROVE Numbered'
  <2>1. /\ \A c \in ClaimId : claims'[c] = claims[c] \/ claims'[c] = Torn
        /\ \A s \in Slot : ops'[s] = Null \/ ops'[s] = ops[s]
        /\ restarted \subseteq restarted'
    BY <1>12 DEF Crash
  <2>2. \A f \in File : f \notin restarted' => clock'[f] = clock[f]
    BY <1>12 DEF Crash, TypeOK, Gen
  <2>3. \A c \in ClaimId, x \in Path, g \in Gen : Bears(c, x, g)' => Bears(c, x, g)
    BY <2>1 DEF Bears, Carries, Idle, Readable
  <2>4. ASSUME NEW c \in ClaimId, NEW d \in ClaimId, NEW x \in Path, NEW y \in Path,
               NEW g \in Gen, NEW h \in Gen, Bears(c, x, g)', Bears(d, y, h)'
        PROVE  /\ c = d => x = y /\ g = h
               /\ FileOf[x] \notin restarted' =>
                    /\ g <= clock'[FileOf[x]]
                    /\ FileOf[x] = FileOf[y] /\ g = h => c = d
    <3>1. Bears(c, x, g) /\ Bears(d, y, h) /\ FileOf[x] \in File
      BY <2>3, <2>4, PathAssumption
    <3> QED
      BY <2>1, <2>2, <3>1 DEF Numbered
  <2> QED
    BY <2>4 DEF Numbered
<1>13. CASE Tick
  <2>1. \A c \in ClaimId :
          /\ Readable(c)' => Readable(c)
          /\ Readable(c) => /\ claims'[c] = [claims[c] EXCEPT !.ttl = Sooner(@)]
                            /\ claims[c] \in Record
    BY <1>13, RecordIsNoFileMark DEF Tick, Readable, TypeOK
  <2>2. \A c \in ClaimId : Readable(c)' =>
          claims'[c].path = claims[c].path /\ claims'[c].gen = claims[c].gen
    BY <2>1 DEF Record
  <2>3. ASSUME NEW s \in Slot, NEW c, NEW x, NEW g, Carries(s, c, x, g)'
        PROVE  Carries(s, c, x, g)
    <3>1. ~Idle(s) /\ ops[s] \in Op
      BY <1>13, <1>0, <2>3 DEF Tick, Idle, Carries
    <3>2. CASE ops[s].rec = Null
      <4>1. ops'[s] = ops[s]
        BY <1>13, <3>2 DEF Tick
      <4> QED
        BY <2>3, <3>1, <4>1 DEF Carries
    <3>3. CASE ops[s].rec # Null
      <4>1. ops[s].rec \in Record
        BY <3>1, <3>3 DEF Op
      <4> DEFINE r == [ops[s].rec EXCEPT !.ttl = Sooner(@)]
      <4>2. r.path = ops[s].rec.path /\ r.gen = ops[s].rec.gen
        BY <4>1 DEF Record
      <4>3. ops'[s] = [ops[s] EXCEPT !.rec = r]
        BY <1>13, <3>1, <3>3 DEF Tick, Op
      <4> HIDE DEF r
      <4>4. ops'[s].stage = ops[s].stage /\ ops'[s].id = ops[s].id /\ ops'[s].rec = r
        BY <3>1, <4>3 DEF Op
      <4> QED
        BY <2>3, <3>1, <4>2, <4>4 DEF Carries
    <3> QED
      BY <3>2, <3>3
  <2>4. \A c \in ClaimId, x \in Path, g \in Gen : Bears(c, x, g)' => Bears(c, x, g)
    BY <2>1, <2>2, <2>3 DEF Bears
  <2>5. UNCHANGED <<clock, restarted>>
    BY <1>13 DEF Tick
  <2> QED
    BY <2>4, <2>5, NumberedKept
<1>14. CASE UNCHANGED vars
  <2>1. \A c \in ClaimId, x \in Path, g \in Gen : Bears(c, x, g)' => Bears(c, x, g)
    BY <1>14 DEF vars, Bears, Carries, Idle, Readable
  <2> QED
    BY <1>14, <2>1, NumberedKept DEF vars
<1> QED
  BY <1>1, <1>2, <1>3, <1>4, <1>5, <1>6, <1>7, <1>8, <1>9, <1>10, <1>11,
     <1>12, <1>13, <1>14 DEF Next, Call, Step

\* As long as a counter has not lost its count, no generation of it that a claim
\* bears is borne by another, for any number of executions inside claims_mutex.
THEOREM ClaimsNumbered == Spec => []Numbered
<1>1. Init => Numbered
  BY DEF Init, Numbered, Bears, Carries, Readable, Idle
<1>2. TypeOK /\ Numbered /\ [Next]_vars => Numbered'
  BY NumberedPreserved
<1> QED
  BY <1>1, <1>2, ClaimsTypeCorrect, PTL DEF Spec

\* No two claims numbered by one counter have the same generation, whether or not
\* writes may be cut short and however many executions are inside claims_mutex
\* because the lock was evicted, until that counter itself has lost its count.
THEOREM ClaimGenerations == Spec => []GenerationsUnique
<1>1. TypeOK /\ Numbered => GenerationsUnique
  <2> SUFFICES ASSUME TypeOK, Numbered, NEW c \in ClaimId, NEW d \in ClaimId,
                      Readable(c), Readable(d),
                      FileOf[claims[c].path] = FileOf[claims[d].path],
                      FileOf[claims[c].path] \notin restarted,
                      claims[c].gen = claims[d].gen
               PROVE  c = d
    BY DEF GenerationsUnique
  <2>1. claims[c] \in Record /\ claims[d] \in Record
    BY DEF TypeOK, Readable
  <2>2. /\ claims[c].path \in Path /\ claims[c].gen \in Gen
        /\ claims[d].path \in Path /\ claims[d].gen \in Gen
    BY <2>1 DEF Record
  <2>3. Bears(c, claims[c].path, claims[c].gen) /\ Bears(d, claims[d].path, claims[d].gen)
    BY DEF Bears
  <2> QED
    BY <2>2, <2>3 DEF Numbered
<1> QED
  BY <1>1, ClaimsNumbered, ClaimsTypeCorrect, PTL
=============================================================================
