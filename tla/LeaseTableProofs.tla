-------------------------- MODULE LeaseTableProofs --------------------------
(***************************************************************************)
(* As long as claims_mutex is one mutex: what an operation has read or     *)
(* decided holds until it writes, so that no step takes back what a claim's*)
(* history forbids, and the holder of an exclusive claim has the newest    *)
(* generation until its fencing file has lost its count. With no file torn *)
(* the claim store implements LeaseTable, whose grants, renewals and       *)
(* releases are atomic.                                                    *)
(***************************************************************************)
EXTENDS ClaimsProofs

\* Nothing live is in the way of a claim on that path in that mode.
Clear(path, mode) == \A d \in LiveClaims : ~CheckConflict(claims[d], path, mode)

\* An operation that rewrites a claim file has the terms it has read there, and
\* the status that goes with its kind.
Copies(op) ==
  op.stage \in {"write", "refresh"} =>
    LET old == claims[op.id]
        new == op.rec
    IN /\ op.id \in ClaimId /\ Readable(op.id) /\ new \in Record
       /\ new.owner = old.owner /\ new.path = old.path
       /\ new.mode = old.mode /\ new.gen = old.gen
       /\ op.kind \in {"acquire", "heartbeat"} =>
            new.status = "active" /\ old.status # "released"
       /\ op.kind = "release" => new.status = "released" /\ new.ttl <= old.ttl
       /\ op.kind = "reap" => /\ new.status = "expired" /\ new.ttl < 0
                              /\ old.status = "active" /\ old.ttl < 0

\* An operation as it is started or moved without touching a file.
Prepared(op) ==
  /\ op \in Op /\ Copies(op)
  /\ op.kind = "acquire" => op.stage # "write"
  /\ op.kind = "acquire" /\ op.stage = "fence" =>
       Clear(op.rec.path, op.rec.mode)
  /\ op.stage \in {"write", "refresh"} /\ op.rec.status = "active" /\ ~op.lapsed =>
       op.id \in LiveClaims

Prepares ==
  /\ \E s \in Slot, op \in Op \union {Null} :
       Start(s, op) /\ (op # Null => Prepared(op))
  /\ UNCHANGED <<claims, clock, revived, restarted>>

\* Fence when it draws a generation.
Draws(s) == Fence(s) /\ ~(Return(s) /\ UNCHANGED clock)

\* Every step is one of seven kinds.
LEMMA StepKinds ==
  ASSUME TypeOK, AcquireShape, [Next]_vars
  PROVE  \/ Prepares
         \/ \E s \in Slot : Refresh(s) \/ Draws(s) \/ Write(s)
         \/ \E a \in Agent : Crash(a)
         \/ Tick
         \/ UNCHANGED vars
<1>0. \A s \in Slot : ~Idle(s) => ops[s] \in Op
  BY DEF TypeOK, Idle
<1>b. \A s \in Slot : ~Idle(s) =>
        /\ ops[s].stage \notin {"read", "scan"} => ops[s].rec \in Record
        /\ ops[s].stage \notin {"check", "fence", "scan"} => ops[s].id \in ClaimId
  BY DEF TypeOK
<1>c. \A c \in ClaimId : Readable(c) => claims[c] \in Record
  BY DEF TypeOK, Readable
<1>d. ASSUME NEW s \in Slot, Return(s), UNCHANGED <<claims, clock, revived, restarted>>
      PROVE  Prepares
  BY <1>d DEF Return, Start, Prepares
<1>e. ASSUME NEW s \in Slot, NEW op \in Op, Start(s, op), op.stage \in {"check", "read", "scan"},
             UNCHANGED <<claims, clock, revived, restarted>>
      PROVE  Prepares
  <2>1. Prepared(op)
    BY <1>e DEF Prepared, Copies
  <2> QED
    BY <1>e, <2>1 DEF Prepares
<1>1. ASSUME NEW s \in Slot, NEW a \in Agent, NEW x \in Path, NEW m \in Asked,
             BeginAcquire(s, a, x, m)
      PROVE  Prepares
  <2> DEFINE r == [owner |-> a, path |-> x, mode |-> m, status |-> "active",
                   gen |-> 0, ttl |-> Lease]
             op == NewOp("acquire", a, "check", Null, r)
  <2>1. r \in Record
    BY LeaseAssumption, MaxGenAssumption, AskedAssumption DEF Record, Status, Gen, Ttl
  <2> HIDE DEF r
  <2>2. op \in Op /\ op.stage = "check"
    BY <2>1 DEF NewOp, Op, Kind, Stage
  <2>3. Start(s, op)
    BY <1>1 DEF BeginAcquire, r
  <2> HIDE DEF op
  <2> QED
    BY <1>1, <1>e, <2>2, <2>3 DEF BeginAcquire
<1>2. ASSUME NEW s \in Slot, Check(s) PROVE Prepares
  <2>1. /\ ~Idle(s) /\ ops[s] \in Op /\ ops[s].rec \in Record
        /\ ops[s].kind = "acquire" /\ ~ops[s].lapsed
        /\ UNCHANGED <<claims, clock, revived, restarted>>
    BY <1>2, <1>0, <1>b DEF Check, At, AcquireShape
  <2> DEFINE req == ops[s].rec
             own == {c \in LiveClaims : Own(claims[c], req)}
             blocker == {c \in LiveClaims \ own :
                           CheckConflict(claims[c], req.path, req.mode)}
  <2>2. CASE Return(s)
    BY <1>d, <2>1, <2>2
  <2>3. CASE own = {} /\ blocker = {} /\ Move(s, "fence")
    <3> DEFINE op == [ops[s] EXCEPT !.stage = "fence"]
    <3>1. op \in Op /\ op.stage = "fence" /\ op.rec = req
      BY <2>1 DEF Op, Stage
    <3>2. Start(s, op)
      BY <2>3 DEF Move, Start, TypeOK
    <3>3. Clear(req.path, req.mode)
      BY <2>3 DEF Clear
    <3> HIDE DEF op
    <3>4. Prepared(op)
      BY <3>1, <3>3 DEF Prepared, Copies
    <3> QED
      BY <2>1, <3>1, <3>2, <3>4 DEF Prepares
  <2>4. ASSUME NEW c \in LiveClaims,
               Start(s, [ops[s] EXCEPT !.stage = "refresh", !.id = c,
                           !.rec = [claims[c] EXCEPT !.ttl = req.ttl]])
        PROVE  Prepares
    <3> DEFINE r  == [claims[c] EXCEPT !.ttl = req.ttl]
               op == [ops[s] EXCEPT !.stage = "refresh", !.id = c, !.rec = r]
    <3>1. c \in ClaimId /\ Readable(c) /\ claims[c] \in Record /\ claims[c].status = "active"
      BY <1>c DEF LiveClaims, Live
    <3>2. /\ r \in Record /\ r.owner = claims[c].owner /\ r.path = claims[c].path
          /\ r.mode = claims[c].mode /\ r.gen = claims[c].gen /\ r.status = "active"
      BY <2>1, <3>1 DEF Record
    <3>3. Start(s, op)
      BY <2>4
    <3> HIDE DEF r
    <3>4. /\ op \in Op /\ op.stage = "refresh" /\ op.id = c /\ op.rec = r
          /\ op.kind = "acquire" /\ ~op.lapsed
      BY <2>1, <3>1, <3>2 DEF Op, Stage
    <3> HIDE DEF op
    <3>5. Prepared(op)
      BY <2>4, <3>1, <3>2, <3>4 DEF Prepared, Copies
    <3> QED
      BY <2>1, <3>3, <3>4, <3>5 DEF Prepares
  <2> QED
    BY <1>2, <2>2, <2>3, <2>4 DEF Check
<1>5. ASSUME NEW s \in Slot, NEW a \in Agent, NEW c \in ClaimId,
             BeginHeartbeat(s, a, c) \/ BeginRelease(s, a, c)
      PROVE  Prepares
  <2>1. PICK k \in {"heartbeat", "release"} : Start(s, NewOp(k, a, "read", c, Null))
    BY <1>5 DEF BeginHeartbeat, BeginRelease
  <2> DEFINE op == NewOp(k, a, "read", c, Null)
  <2>2. op \in Op /\ op.stage = "read"
    BY DEF NewOp, Op, Kind, Stage
  <2>3. Start(s, op)
    BY <2>1
  <2> HIDE DEF op
  <2> QED
    BY <1>5, <1>e, <2>2, <2>3 DEF BeginHeartbeat, BeginRelease
<1>6. ASSUME NEW s \in Slot, HeartbeatRead(s) PROVE Prepares
  <2>1. /\ ~Idle(s) /\ ops[s] \in Op /\ ops[s].id \in ClaimId
        /\ ops[s].kind = "heartbeat" /\ UNCHANGED <<claims, clock, revived, restarted>>
    BY <1>6, <1>0, <1>b DEF HeartbeatRead, At
  <2> DEFINE c  == ops[s].id
             r  == Extended(claims[c])
             lp == ~Live(claims[c])
             op == [ops[s] EXCEPT !.stage = "write", !.rec = r, !.lapsed = lp]
  <2>2. CASE Return(s)
    BY <1>d, <2>1, <2>2
  <2>3. CASE Readable(c) /\ HeartbeatAllowed(ops[s].agent, claims[c]) /\ Start(s, op)
    <3>1. claims[c] \in Record
      BY <1>c, <2>1, <2>3
    <3>2. /\ r \in Record /\ r.owner = claims[c].owner /\ r.path = claims[c].path
          /\ r.mode = claims[c].mode /\ r.gen = claims[c].gen /\ r.status = "active"
      BY <3>1, ExtendedType DEF Extended, Record
    <3>3. lp \in BOOLEAN /\ (~lp => c \in LiveClaims)
      BY <2>1, <2>3 DEF LiveClaims
    <3> HIDE DEF r, lp
    <3>4. /\ op \in Op /\ op.stage = "write" /\ op.id = c /\ op.rec = r
          /\ op.kind = "heartbeat" /\ op.lapsed = lp
      BY <2>1, <3>2, <3>3 DEF Op, Stage
    <3> HIDE DEF op
    <3>5. Prepared(op)
      BY <2>1, <2>3, <3>2, <3>3, <3>4 DEF Prepared, Copies, HeartbeatAllowed
    <3> QED
      BY <2>1, <2>3, <3>4, <3>5 DEF Prepares
  <2> QED
    BY <1>6, <2>2, <2>3 DEF HeartbeatRead
<1>7. ASSUME NEW s \in Slot, ReleaseRead(s) PROVE Prepares
  <2>1. /\ ~Idle(s) /\ ops[s] \in Op /\ ops[s].id \in ClaimId
        /\ ops[s].kind = "release" /\ UNCHANGED <<claims, clock, revived, restarted>>
    BY <1>7, <1>0, <1>b DEF ReleaseRead, At
  <2> DEFINE c  == ops[s].id
             r  == [claims[c] EXCEPT !.status = "released"]
             op == [ops[s] EXCEPT !.stage = "write", !.rec = r]
  <2>2. CASE Return(s)
    BY <1>d, <2>1, <2>2
  <2>3. CASE Readable(c) /\ Start(s, op)
    <3>1. claims[c] \in Record
      BY <1>c, <2>1, <2>3
    <3>2. /\ r \in Record /\ r.owner = claims[c].owner /\ r.path = claims[c].path
          /\ r.mode = claims[c].mode /\ r.gen = claims[c].gen /\ r.status = "released"
          /\ r.ttl <= claims[c].ttl
      BY <3>1, LeaseAssumption DEF Record, Status, Ttl
    <3> HIDE DEF r
    <3>4. /\ op \in Op /\ op.stage = "write" /\ op.id = c /\ op.rec = r
          /\ op.kind = "release"
      BY <2>1, <3>2 DEF Op, Stage
    <3> HIDE DEF op
    <3>5. Prepared(op)
      BY <2>1, <2>3, <3>2, <3>4 DEF Prepared, Copies
    <3> QED
      BY <2>1, <2>3, <3>4, <3>5 DEF Prepares
  <2> QED
    BY <1>7, <2>2, <2>3 DEF ReleaseRead
<1>8. ASSUME NEW s \in Slot, NEW a \in Agent, BeginReap(s, a) PROVE Prepares
  <2> DEFINE td == {c \in ClaimId : Overdue(c)}
             op == [NewOp("reap", a, "scan", Null, Null) EXCEPT !.todo = td]
  <2>1. td \in SUBSET ClaimId
    OBVIOUS
  <2>2. Start(s, op)
    BY <1>8 DEF BeginReap
  <2> HIDE DEF td
  <2>3. op \in Op /\ op.stage = "scan"
    BY <2>1 DEF NewOp, Op, Kind, Stage
  <2> HIDE DEF op
  <2> QED
    BY <1>8, <1>e, <2>2, <2>3 DEF BeginReap
<1>9. ASSUME NEW s \in Slot, ReapScan(s) PROVE Prepares
  <2>1. /\ ~Idle(s) /\ ops[s] \in Op /\ ops[s].stage = "scan" /\ ops[s].kind = "reap"
        /\ UNCHANGED <<claims, clock, revived, restarted>>
    BY <1>9, <1>0 DEF ReapScan, At
  <2>2. CASE Return(s)
    BY <1>d, <2>1, <2>2
  <2>3. ASSUME NEW c \in ops[s].todo, Start(s, [ops[s] EXCEPT !.todo = @ \ {c}])
        PROVE  Prepares
    <3> DEFINE op == [ops[s] EXCEPT !.todo = @ \ {c}]
    <3>1. op \in Op /\ op.stage = "scan"
      BY <2>1 DEF Op
    <3> HIDE DEF op
    <3> QED
      BY <1>e, <2>1, <2>3, <3>1 DEF op
  <2>4. ASSUME NEW c \in ops[s].todo, Overdue(c),
               Start(s, [[ops[s] EXCEPT !.todo = @ \ {c}]
                           EXCEPT !.stage = "write", !.id = c,
                             !.rec = [claims[c] EXCEPT !.status = "expired"]])
        PROVE  Prepares
    <3> DEFINE r  == [claims[c] EXCEPT !.status = "expired"]
               op == [[ops[s] EXCEPT !.todo = @ \ {c}]
                        EXCEPT !.stage = "write", !.id = c, !.rec = r]
    <3>1. c \in ClaimId
      BY <2>1 DEF Op
    <3>2. claims[c] \in Record
      BY <1>c, <2>4, <3>1 DEF Overdue
    <3>3. /\ r \in Record /\ r.owner = claims[c].owner /\ r.path = claims[c].path
          /\ r.mode = claims[c].mode /\ r.gen = claims[c].gen /\ r.status = "expired"
          /\ r.ttl = claims[c].ttl
      BY <3>2 DEF Record, Status
    <3>4. Start(s, op)
      BY <2>4
    <3> HIDE DEF r
    <3>5. /\ op \in Op /\ op.stage = "write" /\ op.id = c /\ op.rec = r
          /\ op.kind = "reap"
      BY <2>1, <3>1, <3>3 DEF Op, Stage
    <3> HIDE DEF op
    <3>6. Prepared(op)
      BY <2>4, <3>1, <3>3, <3>5 DEF Prepared, Copies, Overdue
    <3> QED
      BY <2>1, <3>4, <3>5, <3>6 DEF Prepares
  <2> QED
    BY <1>9, <2>2, <2>3, <2>4 DEF ReapScan
<1>11. ASSUME NEW s \in Slot, Event(s) PROVE Prepares
  <2>1. ~Idle(s) /\ ops[s] \in Op /\ UNCHANGED <<claims, clock, revived, restarted>>
    BY <1>11, <1>0 DEF Event
  <2>2. CASE Return(s)
    BY <1>d, <2>1, <2>2
  <2>3. CASE Start(s, [ops[s] EXCEPT !.stage = "scan", !.id = Null, !.rec = Null])
    <3> DEFINE op == [ops[s] EXCEPT !.stage = "scan", !.id = Null, !.rec = Null]
    <3>1. op \in Op /\ op.stage = "scan"
      BY <2>1 DEF Op, Stage
    <3> HIDE DEF op
    <3> QED
      BY <1>e, <2>1, <2>3, <3>1 DEF op
  <2> QED
    BY <1>11, <2>2, <2>3 DEF Event
<1>12. ASSUME NEW s \in Slot, Fence(s) PROVE Prepares \/ Draws(s)
  BY <1>12, <1>d DEF Draws, Fence
<1> QED
  BY <1>1, <1>2, <1>5, <1>6, <1>7, <1>8, <1>9, <1>11, <1>12 DEF Next, Call, Step

\* What a tick leaves alone.
SameTerms(r, q) ==
  /\ r.owner = q.owner /\ r.path = q.path /\ r.mode = q.mode /\ r.gen = q.gen
  /\ r.status = q.status

LEMMA SoonerInOrder ==
  \A t, u \in Ttl : /\ t <= u => Sooner(t) <= Sooner(u)
                    /\ t < 0 => Sooner(t) < 0
                    /\ Sooner(t) <= t
  BY LeaseAssumption DEF Ttl, Sooner

LEMMA TickKeepsClaims ==
  ASSUME TypeOK, Tick, NEW c \in ClaimId
  PROVE  /\ Readable(c)' <=> Readable(c)
         /\ Readable(c) => /\ SameTerms(claims'[c], claims[c])
                           /\ Live(claims'[c]) => Live(claims[c])
                           /\ claims'[c].ttl = Sooner(claims[c].ttl)
<1>1. CASE ~Readable(c)
  BY <1>1 DEF Tick, Readable
<1>2. CASE Readable(c)
  <2>1. claims[c] \in Record
    BY <1>2 DEF TypeOK, Readable
  <2> DEFINE r == [claims[c] EXCEPT !.ttl = Sooner(@)]
  <2>2. claims'[c] = r
    BY <1>2 DEF Tick
  <2>3. r \in Record /\ (Live(r) => Live(claims[c]))
    BY <2>1, SoonerType
  <2>4. SameTerms(r, claims[c]) /\ r.ttl = Sooner(claims[c].ttl)
    BY <2>1 DEF Record, SameTerms
  <2> HIDE DEF r
  <2> QED
    BY <1>2, <2>2, <2>3, <2>4, RecordIsNoFileMark DEF Readable
<1> QED
  BY <1>1, <1>2

LEMMA TickShrinks ==
  ASSUME TypeOK, Tick
  PROVE  \A c \in LiveClaims' : /\ c \in LiveClaims
                                /\ claims'[c].path = claims[c].path
                                /\ claims'[c].mode = claims[c].mode
                                /\ claims'[c].gen = claims[c].gen
<1> SUFFICES ASSUME NEW c \in LiveClaims'
             PROVE  /\ c \in LiveClaims
                    /\ claims'[c].path = claims[c].path
                    /\ claims'[c].mode = claims[c].mode
                    /\ claims'[c].gen = claims[c].gen
  OBVIOUS
<1>1. c \in ClaimId /\ Readable(c)' /\ Live(claims'[c])
  BY DEF LiveClaims
<1> QED
  BY <1>1, TickKeepsClaims DEF LiveClaims, SameTerms

LEMMA TickKeepsOps ==
  ASSUME TypeOK, Tick, NEW s \in Slot, ~Idle(s)'
  PROVE  /\ ~Idle(s)
         /\ ops'[s].kind = ops[s].kind /\ ops'[s].stage = ops[s].stage
         /\ ops'[s].id = ops[s].id /\ ops'[s].lapsed = ops[s].lapsed
         /\ ops[s].rec \in Record => /\ ops'[s].rec \in Record
                                     /\ SameTerms(ops'[s].rec, ops[s].rec)
                                     /\ ops'[s].rec.ttl = Sooner(ops[s].rec.ttl)
<1>1. ~Idle(s) /\ ops[s] \in Op
  BY DEF Tick, Idle, TypeOK
<1>2. CASE ops[s].rec = Null
  <2>1. ops'[s] = ops[s]
    BY <1>2 DEF Tick
  <2> QED
    BY <1>1, <1>2, <2>1, RecordIsNoFileMark
<1>3. CASE ops[s].rec # Null
  <2>1. ops[s].rec \in Record
    BY <1>1, <1>3 DEF Op
  <2> DEFINE r == [ops[s].rec EXCEPT !.ttl = Sooner(@)]
  <2>2. r \in Record /\ SameTerms(r, ops[s].rec) /\ r.ttl = Sooner(ops[s].rec.ttl)
    BY <2>1, SoonerType DEF Record, SameTerms
  <2>3. ops'[s] = [ops[s] EXCEPT !.rec = r]
    BY <1>1, <1>3 DEF Tick, Op
  <2> HIDE DEF r
  <2> QED
    BY <1>1, <2>1, <2>2, <2>3 DEF Op
<1> QED
  BY <1>2, <1>3

-----------------------------------------------------------------------------
(* The newest generation.                                                   *)

\* An exclusive claim that is live, or about to be written so without having
\* lapsed, bears generation g of path x.
Tops(c, x, g) ==
  /\ c \notin revived
  /\ \/ /\ c \in LiveClaims /\ claims[c].mode = "exclusive"
        /\ claims[c].path = x /\ claims[c].gen = g
     \/ \E s \in Slot : /\ Carries(s, c, x, g)
                        /\ ops[s].rec.mode = "exclusive"
                        /\ ops[s].rec.status = "active" /\ ~ops[s].lapsed

OnTop ==
  \A c \in ClaimId, x \in Path, g \in Gen :
    Tops(c, x, g) /\ OwnFile(x) /\ FileOf[x] \notin restarted => g = clock[FileOf[x]]

LEMMA OnTopKept ==
  ASSUME OnTop, clock' = clock, restarted' = restarted,
         \A c \in ClaimId, x \in Path, g \in Gen : Tops(c, x, g)' => Tops(c, x, g)
  PROVE  OnTop'
  BY DEF OnTop, OwnFile

LEMMA OnTopPreserved ==
  ASSUME Serialized, Arbitrated, OnTop, [Next]_vars
  PROVE  OnTop'
<1>0. TypeOK /\ AcquireShape /\ GrantIsClear
  BY DEF Arbitrated
<1>a. ops \in [Slot -> Op \union {Null}] /\ claims \in [ClaimId -> Record \union {Null, Torn}]
  BY <1>0 DEF TypeOK
<1>b. \A s \in Slot : ~Idle(s) =>
        /\ ops[s] \in Op
        /\ ops[s].stage \notin {"read", "scan"} => ops[s].rec \in Record
        /\ ops[s].stage \notin {"check", "fence", "scan"} => ops[s].id \in ClaimId
  BY <1>0 DEF TypeOK, Idle
<1>1. CASE Prepares
  <2>1. PICK s \in Slot, op \in Op \union {Null} :
          Start(s, op) /\ (op # Null => Prepared(op))
    BY <1>1 DEF Prepares
  <2>2. \A t \in Slot : ops'[t] = IF t = s THEN op ELSE ops[t]
    BY <1>a, <2>1 DEF Start
  <2>3. UNCHANGED <<claims, clock, revived, restarted>> /\ LiveClaims' = LiveClaims
    BY <1>1 DEF Prepares, LiveClaims, Readable
  <2>4. ASSUME NEW c \in ClaimId, NEW x \in Path, NEW g \in Gen, Tops(c, x, g)'
        PROVE  Tops(c, x, g)
    <3>1. CASE c \in LiveClaims' /\ claims'[c].mode = "exclusive"
               /\ claims'[c].path = x /\ claims'[c].gen = g
      BY <2>3, <2>4, <3>1 DEF Tops
    <3>2. ASSUME NEW t \in Slot, Carries(t, c, x, g)', ops'[t].rec.mode = "exclusive",
                 ops'[t].rec.status = "active", ~ops'[t].lapsed
          PROVE  Tops(c, x, g)
      <4>0. CASE t # s
        BY <2>2, <2>3, <2>4, <3>2, <4>0 DEF Carries, Idle, Tops
      <4> SUFFICES ASSUME t = s PROVE Tops(c, x, g)
        BY <4>0
      <4>1. /\ op # Null /\ op.stage \in {"write", "refresh"} /\ op.id = c
            /\ op.rec.path = x /\ op.rec.gen = g /\ op.rec.mode = "exclusive"
            /\ op.rec.status = "active" /\ ~op.lapsed
        BY <2>2, <3>2 DEF Carries, Idle
      <4> QED
        BY <2>1, <2>3, <2>4, <4>1 DEF Prepared, Copies, Tops
    <3> QED
      BY <2>4, <3>1, <3>2 DEF Tops
  <2> QED
    BY <2>3, <2>4, OnTopKept
<1>2. ASSUME NEW s \in Slot, Refresh(s) PROVE OnTop'
  <2>1. /\ ~Idle(s) /\ ops[s].stage = "refresh" /\ ops[s].id \in ClaimId
        /\ ops[s].rec.status = "active" /\ ~ops[s].lapsed
        /\ UNCHANGED <<clock, restarted>>
        /\ claims' = [claims EXCEPT ![ops[s].id] = ops[s].rec]
        /\ revived' = revived
    BY <1>2, <1>0, <1>b DEF Refresh, At, AcquireShape
  <2>2. /\ \A t \in Slot : Idle(t)'
        /\ claims'[ops[s].id] = ops[s].rec
        /\ \A c \in ClaimId : c # ops[s].id => claims'[c] = claims[c]
    BY <1>a, <1>2, <2>1 DEF Refresh, Return, Idle, Serialized
  <2>3. \A c \in ClaimId, x \in Path, g \in Gen : Tops(c, x, g)' => Tops(c, x, g)
    BY <2>1, <2>2 DEF Tops, Carries, LiveClaims, Readable
  <2> QED
    BY <2>1, <2>3, OnTopKept
<1>3. ASSUME NEW s \in Slot, Draws(s) PROVE OnTop'
  <2> DEFINE f == FenceFile(s)
             n == clock[f] + 1
             y == ops[s].rec.path
             r == [ops[s].rec EXCEPT !.gen = n]
  <2>1. /\ ~Idle(s) /\ ops[s] \in Op /\ ops[s].rec \in Record
        /\ ops[s].kind = "acquire" /\ ops[s].stage = "fence"
        /\ ops[s].rec.status = "active" /\ ~ops[s].lapsed /\ ops[s].id = Null
        /\ UNCHANGED <<claims, revived, restarted>> /\ clock' = [clock EXCEPT ![f] = n]
    BY <1>3, <1>0, <1>b DEF Draws, Fence, At, AcquireShape
  <2>2. PICK i \in ClaimId :
          Start(s, [ops[s] EXCEPT !.stage = "write", !.id = i, !.rec.gen = n])
    BY <1>3 DEF Draws, Fence
  <2> DEFINE op == [ops[s] EXCEPT !.stage = "write", !.id = i, !.rec = r]
  <2>3. \A t \in Slot : ~Idle(t)' => ops'[t] = op
    BY <1>a, <2>1, <2>2 DEF Start, Op, Idle, Serialized
  <2>4. y \in Path /\ f = FileOf[y] /\ r.path = y /\ r.gen = n
    BY <2>1 DEF Record, FenceFile
  <2> HIDE DEF r
  <2>5. op.id = i /\ op.rec = r
    BY <2>1 DEF Op
  <2> HIDE DEF op
  <2>6. \A g \in File : clock'[g] = IF g = f THEN n ELSE clock[g]
    BY <1>0, <2>1 DEF TypeOK
  <2>7. \A d \in LiveClaims : CheckConflict(claims[d], y, ops[s].rec.mode) => d \in revived
    <3>1. Granting(s)
      BY <2>1 DEF Granting
    <3>2. Null \notin revived /\ Null \notin LiveClaims
      BY <1>0, MarkAssumption DEF TypeOK, LiveClaims
    <3> QED
      BY <1>0, <2>1, <3>1, <3>2 DEF GrantIsClear
  <2>8. ASSUME NEW c \in ClaimId, NEW x \in Path, NEW g \in Gen, Tops(c, x, g)', OwnFile(x),
               FileOf[x] \notin restarted
        PROVE  g = clock'[FileOf[x]]
    <3>1. FileOf[x] \in File
      BY PathAssumption
    <3>2. CASE c \in LiveClaims' /\ claims'[c].mode = "exclusive"
               /\ claims'[c].path = x /\ claims'[c].gen = g
      <4>1. c \in LiveClaims /\ c \notin revived
        BY <2>1, <2>8, <3>2 DEF LiveClaims, Readable, Tops
      <4>2. Tops(c, x, g)
        BY <2>1, <3>2, <4>1 DEF Tops
      <4>3. x # y
        BY <2>1, <2>7, <3>2, <4>1 DEF CheckConflict, IsSubPath
      <4>4. FileOf[x] # f
        BY <2>4, <2>8, <4>3 DEF OwnFile
      <4> QED
        BY <2>6, <2>8, <3>1, <4>2, <4>4 DEF OnTop
    <3>3. ASSUME NEW t \in Slot, Carries(t, c, x, g)' PROVE g = clock'[FileOf[x]]
      <4>1. x = y /\ g = n
        BY <2>3, <2>4, <2>5, <3>3 DEF Carries
      <4> QED
        BY <2>4, <2>6, <3>1, <4>1
    <3> QED
      BY <2>8, <3>2, <3>3 DEF Tops
  <2> QED
    BY <2>1, <2>8 DEF OnTop, OwnFile
<1>4. ASSUME NEW s \in Slot, Write(s) PROVE OnTop'
  <2>1. /\ ~Idle(s) /\ ops[s] \in Op /\ ops[s].stage = "write" /\ ops[s].id \in ClaimId
        /\ UNCHANGED <<clock, restarted>>
        /\ claims' = [claims EXCEPT ![ops[s].id] = ops[s].rec]
        /\ revived' = IF ops[s].lapsed THEN revived \union {ops[s].id} ELSE revived
    BY <1>4, <1>b DEF Write
  <2>2. /\ \A t \in Slot : Idle(t)' \/ ops'[t].stage = "event"
        /\ claims'[ops[s].id] = ops[s].rec
        /\ \A c \in ClaimId : c # ops[s].id => claims'[c] = claims[c]
    <3>1. ops'[s] = [ops[s] EXCEPT !.stage = "event"]
      BY <1>a, <1>4 DEF Write, Move
    <3>2. ops'[s].stage = "event"
      BY <2>1, <3>1 DEF Op
    <3>3. \A t \in Slot : t # s => Idle(t)'
      BY <1>a, <1>4, <2>1 DEF Write, Move, Idle, Serialized
    <3> QED
      BY <1>a, <2>1, <3>2, <3>3
  <2>3. \A c \in ClaimId, x \in Path, g \in Gen : Tops(c, x, g)' => Tops(c, x, g)
    <3> SUFFICES ASSUME NEW c \in ClaimId, NEW x \in Path, NEW g \in Gen, Tops(c, x, g)'
                 PROVE  Tops(c, x, g)
      OBVIOUS
    <3>1. /\ c \notin revived' /\ c \in LiveClaims' /\ claims'[c].mode = "exclusive"
          /\ claims'[c].path = x /\ claims'[c].gen = g
      BY <2>2 DEF Tops, Carries
    <3>2. CASE c # ops[s].id
      BY <2>1, <2>2, <3>1, <3>2 DEF Tops, LiveClaims, Readable
    <3>3. CASE c = ops[s].id
      <4>1. ~ops[s].lapsed /\ c \notin revived
        BY <2>1, <3>1, <3>3
      <4>2. ops[s].rec.status = "active"
        BY <2>2, <3>1, <3>3 DEF LiveClaims, Live
      <4> QED
        BY <2>1, <2>2, <3>1, <3>3, <4>1, <4>2 DEF Tops, Carries
    <3> QED
      BY <3>2, <3>3
  <2> QED
    BY <2>1, <2>3, OnTopKept
<1>5. ASSUME NEW a \in Agent, Crash(a) PROVE OnTop'
  <2>1. /\ \A c \in ClaimId : claims'[c] = claims[c] \/ claims'[c] = Torn
        /\ \A s \in Slot : ops'[s] = Null \/ ops'[s] = ops[s]
        /\ revived' = revived /\ restarted \subseteq restarted'
    BY <1>5 DEF Crash
  <2>2. \A f \in File : f \notin restarted' => clock'[f] = clock[f]
    BY <1>0, <1>5 DEF Crash, TypeOK, Gen
  <2>3. \A c \in ClaimId, x \in Path, g \in Gen : Tops(c, x, g)' => Tops(c, x, g)
    BY <2>1 DEF Tops, Carries, Idle, LiveClaims, Readable
  <2>4. ASSUME NEW c \in ClaimId, NEW x \in Path, NEW g \in Gen, Tops(c, x, g)', OwnFile(x),
               FileOf[x] \notin restarted'
        PROVE  g = clock'[FileOf[x]]
    <3>1. FileOf[x] \in File
      BY PathAssumption
    <3> QED
      BY <2>1, <2>2, <2>3, <2>4, <3>1 DEF OnTop
  <2> QED
    BY <2>4 DEF OnTop, OwnFile
<1>6. CASE Tick
  <2>1. \A c \in LiveClaims' : /\ c \in LiveClaims
                               /\ claims'[c].path = claims[c].path
                               /\ claims'[c].mode = claims[c].mode
                               /\ claims'[c].gen = claims[c].gen
    BY <1>0, <1>6, TickShrinks
  <2>2. \A s \in Slot : ~Idle(s)' => /\ ~Idle(s)
                                     /\ ops'[s].stage = ops[s].stage
                                     /\ ops'[s].id = ops[s].id
                                     /\ ops'[s].lapsed = ops[s].lapsed
                                     /\ ops[s].rec \in Record => SameTerms(ops'[s].rec, ops[s].rec)
    BY <1>0, <1>6, TickKeepsOps
  <2>3. ASSUME NEW c \in ClaimId, NEW x \in Path, NEW g \in Gen, Tops(c, x, g)'
        PROVE  Tops(c, x, g)
    <3>1. revived' = revived
      BY <1>6 DEF Tick
    <3>2. CASE c \in LiveClaims' /\ claims'[c].mode = "exclusive"
               /\ claims'[c].path = x /\ claims'[c].gen = g
      BY <2>1, <2>3, <3>1, <3>2 DEF Tops
    <3>3. ASSUME NEW t \in Slot, Carries(t, c, x, g)', ops'[t].rec.mode = "exclusive",
                 ops'[t].rec.status = "active", ~ops'[t].lapsed
          PROVE  Tops(c, x, g)
      <4>1. ~Idle(t) /\ ops[t].rec \in Record
        BY <1>b, <2>2, <3>3 DEF Carries
      <4> QED
        BY <2>2, <2>3, <3>1, <3>3, <4>1 DEF Tops, Carries, SameTerms
    <3> QED
      BY <2>3, <3>2, <3>3 DEF Tops
  <2>4. UNCHANGED <<clock, restarted>>
    BY <1>6 DEF Tick
  <2> QED
    BY <2>3, <2>4, OnTopKept
<1>7. CASE UNCHANGED vars
  <2>1. \A c \in ClaimId, x \in Path, g \in Gen : Tops(c, x, g)' => Tops(c, x, g)
    BY <1>7 DEF vars, Tops, Carries, Idle, LiveClaims, Readable
  <2> QED
    BY <1>7, <2>1, OnTopKept DEF vars
<1> QED
  BY <1>0, <1>1, <1>2, <1>3, <1>4, <1>5, <1>6, <1>7, StepKinds

\* A live exclusive claim that no heartbeat has revived, on a path that shares
\* its fencing file with no other, has the newest generation of its path, until
\* that file has lost its count.
THEOREM ExclusiveClaimIsNewest == Spec /\ []Serialized => []ExclusiveHoldsTop
<1>1. Init => OnTop
  BY DEF Init, OnTop, Tops, Carries, LiveClaims, Readable, Idle
<1>2. Serialized /\ Arbitrated /\ OnTop /\ [Next]_vars => OnTop'
  BY OnTopPreserved
<1>3. Arbitrated /\ OnTop => ExclusiveHoldsTop
  <2> SUFFICES ASSUME Arbitrated, OnTop, NEW c \in LiveClaims,
                      claims[c].mode = "exclusive", OwnFile(claims[c].path),
                      c \notin revived, FileOf[claims[c].path] \notin restarted
               PROVE  claims[c].gen = clock[FileOf[claims[c].path]]
    BY DEF ExclusiveHoldsTop
  <2>1. c \in ClaimId /\ claims[c] \in Record
    BY DEF Arbitrated, TypeOK, LiveClaims, Readable
  <2>2. claims[c].path \in Path /\ claims[c].gen \in Gen
    BY <2>1 DEF Record
  <2>3. Tops(c, claims[c].path, claims[c].gen)
    BY DEF Tops
  <2> QED
    BY <2>1, <2>2, <2>3 DEF OnTop
<1> QED
  BY <1>1, <1>2, <1>3, ClaimsArbitrated, PTL DEF Spec

-----------------------------------------------------------------------------
(* What an operation knows until it writes.                                 *)

\* What holds of the operation inside the mutex until it writes: a claim call
\* past its check is in nobody's way and has the newest number for a new file;
\* any other call still has the terms that are on disk.
Holds(s) ==
  IF ops[s].kind = "acquire" /\ ops[s].stage \in {"fence", "write"}
    THEN /\ Clear(ops[s].rec.path, ops[s].rec.mode)
         /\ ops[s].stage = "write" =>
              /\ claims[ops[s].id] = Null /\ ops[s].rec.status = "active"
              /\ ops[s].rec.gen = clock[FileOf[ops[s].rec.path]]
    ELSE Copies(ops[s])

Faithful == \A s \in Slot : ~Idle(s) => Holds(s)

LEMMA FaithfulPreserved ==
  ASSUME Serialized, TypeOK, AcquireShape, Faithful, [Next]_vars
  PROVE  Faithful'
<1>a. ops \in [Slot -> Op \union {Null}] /\ claims \in [ClaimId -> Record \union {Null, Torn}]
  BY DEF TypeOK
<1>b. \A s \in Slot : ~Idle(s) =>
        /\ ops[s] \in Op
        /\ ops[s].stage \notin {"read", "scan"} => ops[s].rec \in Record
        /\ ops[s].stage \notin {"check", "fence", "scan"} => ops[s].id \in ClaimId
  BY DEF TypeOK, Idle
<1>1. CASE Prepares
  <2>1. PICK s \in Slot, op \in Op \union {Null} :
          Start(s, op) /\ (op # Null => Prepared(op))
    BY <1>1 DEF Prepares
  <2>2. \A t \in Slot : ops'[t] = IF t = s THEN op ELSE ops[t]
    BY <1>a, <2>1 DEF Start
  <2>3. UNCHANGED <<claims, clock, revived, restarted>> /\ LiveClaims' = LiveClaims
    BY <1>1 DEF Prepares, LiveClaims, Readable
  <2>4. ASSUME NEW t \in Slot, t # s, ~Idle(t)'
        PROVE  Holds(t)'
    <3>1. ~Idle(t) /\ ops'[t] = ops[t]
      BY <2>2, <2>4 DEF Idle
    <3> QED
      BY <2>3, <3>1 DEF Faithful, Holds, Copies, Clear, CheckConflict, Readable
  <2>5. ASSUME op # Null PROVE Holds(s)'
    <3>1. Prepared(op) /\ ops'[s] = op
      BY <2>1, <2>2, <2>5
    <3>2. Copies(op)'
      BY <2>3, <3>1 DEF Prepared, Copies, Readable
    <3>3. op.kind = "acquire" /\ op.stage = "fence" => Clear(op.rec.path, op.rec.mode)'
      BY <2>3, <3>1 DEF Prepared, Clear, CheckConflict
    <3>4. ~(op.kind = "acquire" /\ op.stage = "write")
      BY <3>1 DEF Prepared
    <3>5. /\ Copies(ops[s])' <=> Copies(op)'
          /\ Clear(ops[s].rec.path, ops[s].rec.mode)' <=> Clear(op.rec.path, op.rec.mode)'
      BY <3>1 DEF Copies, Clear, CheckConflict, Readable
    <3> QED
      BY <3>1, <3>2, <3>3, <3>4, <3>5 DEF Holds
  <2> QED
    BY <2>2, <2>4, <2>5 DEF Faithful, Idle
<1>2. ASSUME NEW s \in Slot, Refresh(s) PROVE Faithful'
  <2>1. \A t \in Slot : Idle(t)'
    BY <1>a, <1>2 DEF Refresh, At, Return, Idle, Serialized
  <2> QED
    BY <2>1 DEF Faithful
<1>3. ASSUME NEW s \in Slot, Draws(s) PROVE Faithful'
  <2> DEFINE f == FenceFile(s)
             n == clock[f] + 1
             r == [ops[s].rec EXCEPT !.gen = n]
  <2>1. /\ ~Idle(s) /\ ops[s] \in Op /\ ops[s].rec \in Record
        /\ ops[s].kind = "acquire" /\ ops[s].stage = "fence"
        /\ ops[s].rec.status = "active"
        /\ UNCHANGED <<claims, revived>> /\ clock' = [clock EXCEPT ![f] = n]
    BY <1>3, <1>b DEF Draws, Fence, At, AcquireShape
  <2>2. PICK i \in ClaimId :
          /\ Fresh(i)
          /\ Start(s, [ops[s] EXCEPT !.stage = "write", !.id = i, !.rec.gen = n])
    BY <1>3 DEF Draws, Fence
  <2> DEFINE op == [ops[s] EXCEPT !.stage = "write", !.id = i, !.rec = r]
  <2>3. \A t \in Slot : ~Idle(t)' => ops'[t] = op
    BY <1>a, <2>1, <2>2 DEF Start, Op, Idle, Serialized
  <2>4. /\ f \in File /\ f = FileOf[ops[s].rec.path]
        /\ r.path = ops[s].rec.path /\ r.mode = ops[s].rec.mode
        /\ r.gen = n /\ r.status = "active"
    BY <2>1, PathAssumption DEF Record, FenceFile
  <2>5. clock'[f] = n
    BY <2>1, <2>4 DEF TypeOK
  <2> HIDE DEF r, n, f
  <2>6. op.id = i /\ op.rec = r /\ op.kind = "acquire" /\ op.stage = "write"
    BY <2>1 DEF Op
  <2> HIDE DEF op
  <2>7. claims'[i] = Null
    BY <2>1, <2>2 DEF Fresh
  <2>8. LiveClaims' = LiveClaims
    BY <2>1 DEF LiveClaims, Readable
  <2>9. Clear(ops[s].rec.path, ops[s].rec.mode)
    BY <2>1 DEF Faithful, Holds
  <2>10. \A t \in Slot : ~Idle(t)' => Clear(ops[t].rec.path, ops[t].rec.mode)'
    BY <2>1, <2>3, <2>4, <2>6, <2>8, <2>9 DEF Clear, CheckConflict
  <2> QED
    BY <2>3, <2>4, <2>5, <2>6, <2>7, <2>10 DEF Faithful, Holds
<1>4. ASSUME NEW s \in Slot, Write(s) PROVE Faithful'
  <2>1. \A t \in Slot : Idle(t)' \/ ops'[t].stage = "event"
    <3>1. ~Idle(s) /\ ops[s] \in Op /\ ops'[s] = [ops[s] EXCEPT !.stage = "event"]
      BY <1>a, <1>b, <1>4 DEF Write, Move
    <3>2. ops'[s].stage = "event"
      BY <3>1 DEF Op
    <3>3. \A t \in Slot : t # s => Idle(t)'
      BY <1>a, <1>4, <3>1 DEF Write, Move, Idle, Serialized
    <3> QED
      BY <3>2, <3>3
  <2> QED
    BY <2>1 DEF Faithful, Holds, Copies
<1>5. ASSUME NEW a \in Agent, Crash(a) PROVE Faithful'
  <2>1. CASE \A s \in Slot : Idle(s)'
    BY <2>1 DEF Faithful
  <2>2. ASSUME NEW u \in Slot, ~Idle(u)' PROVE Faithful'
    <3>1. ~Idle(u) /\ ops[u].agent # a
      BY <1>5, <2>2 DEF Crash, Idle
    <3>2. \A s \in Slot : ~(~Idle(s) /\ ops[s].agent = a)
      BY <3>1 DEF Serialized
    <3>3. /\ claims' = [c \in ClaimId |-> claims[c]]
          /\ clock' = [f \in File |-> clock[f]]
          /\ ops' = [s \in Slot |-> ops[s]]
      BY <1>5, <3>2 DEF Crash
    <3>4. claims' = claims /\ clock' = clock /\ ops' = ops
      BY <1>a, <3>3 DEF TypeOK
    <3> QED
      BY <3>4 DEF Faithful, Holds, Copies, Clear, CheckConflict, Idle, LiveClaims, Readable
  <2> QED
    BY <2>1, <2>2
<1>6. CASE Tick
  <2>1. ASSUME NEW s \in Slot, ~Idle(s)' PROVE Holds(s)'
    <3>1. /\ ~Idle(s)
          /\ ops'[s].kind = ops[s].kind /\ ops'[s].stage = ops[s].stage
          /\ ops'[s].id = ops[s].id
          /\ ops[s].rec \in Record => /\ ops'[s].rec \in Record
                                      /\ SameTerms(ops'[s].rec, ops[s].rec)
                                      /\ ops'[s].rec.ttl = Sooner(ops[s].rec.ttl)
      BY <1>6, <2>1, TickKeepsOps
    <3>2. CASE ops[s].kind = "acquire" /\ ops[s].stage \in {"fence", "write"}
      <4>1. ops[s].rec \in Record /\ Clear(ops[s].rec.path, ops[s].rec.mode)
        BY <1>b, <3>1, <3>2 DEF Faithful, Holds
      <4>2. Clear(ops[s].rec.path, ops[s].rec.mode)'
        BY <1>6, <3>1, <4>1, TickShrinks DEF Clear, CheckConflict, SameTerms
      <4>3. ASSUME ops[s].stage = "write"
            PROVE  /\ claims'[ops'[s].id] = Null /\ ops'[s].rec.status = "active"
                   /\ ops'[s].rec.gen = clock'[FileOf[ops'[s].rec.path]]
        <5>1. /\ ops[s].id \in ClaimId /\ claims[ops[s].id] = Null
              /\ ops[s].rec.status = "active"
              /\ ops[s].rec.gen = clock[FileOf[ops[s].rec.path]]
          BY <1>b, <3>1, <3>2, <4>3 DEF Faithful, Holds
        <5>2. claims'[ops[s].id] = Null /\ clock' = clock
          BY <1>6, <5>1 DEF Tick, Readable
        <5> QED
          BY <3>1, <4>1, <5>1, <5>2 DEF SameTerms
      <4> QED
        BY <3>1, <3>2, <4>2, <4>3 DEF Holds
    <3>3. CASE ~(ops[s].kind = "acquire" /\ ops[s].stage \in {"fence", "write"})
      <4>1. Copies(ops[s])
        BY <3>1, <3>3 DEF Faithful, Holds
      <4>2. CASE ops[s].stage \notin {"write", "refresh"}
        BY <3>1, <3>3, <4>2 DEF Copies, Holds
      <4>3. CASE ops[s].stage \in {"write", "refresh"}
        <5>1. /\ ops[s].id \in ClaimId /\ Readable(ops[s].id) /\ ops[s].rec \in Record
          BY <4>1, <4>3 DEF Copies
        <5>2. ASSUME NEW c \in ClaimId, c = ops[s].id
              PROVE  /\ Readable(c)'
                     /\ SameTerms(claims'[c], claims[c])
                     /\ claims'[c].ttl = Sooner(claims[c].ttl)
          BY <1>6, <5>1, <5>2, TickKeepsClaims
        <5>3. claims[ops[s].id].ttl \in Ttl /\ ops[s].rec.ttl \in Ttl
          BY <5>1 DEF TypeOK, Readable, Record
        <5>4. Copies(ops[s])'
          BY <3>1, <4>1, <4>3, <5>1, <5>2, <5>3, SoonerInOrder
             DEF Copies, SameTerms, Readable
        <5> QED
          BY <3>1, <3>3, <5>4 DEF Holds
      <4> QED
        BY <4>2, <4>3
    <3> QED
      BY <3>2, <3>3
  <2> QED
    BY <2>1 DEF Faithful
<1>7. CASE UNCHANGED vars
  BY <1>7 DEF vars, Faithful, Holds, Copies, Clear, CheckConflict, Idle, LiveClaims, Readable
<1> QED
  BY <1>1, <1>2, <1>3, <1>4, <1>5, <1>6, <1>7, StepKinds

\* While claims_mutex excludes, every operation inside it still has what it has
\* read or decided, up to the moment it writes.
THEOREM ClaimsFaithful == Spec /\ []Serialized => []Faithful
<1>1. Init => Faithful
  BY DEF Init, Faithful, Idle
<1>2. Serialized /\ TypeOK /\ AcquireShape /\ Faithful /\ [Next]_vars => Faithful'
  BY FaithfulPreserved
<1>3. Arbitrated => TypeOK /\ AcquireShape
  BY DEF Arbitrated
<1> QED
  BY <1>1, <1>2, <1>3, ClaimsArbitrated, PTL DEF Spec

-----------------------------------------------------------------------------
(* The history of a claim.                                                  *)

\* What a step may do to a claim record.
Follows(new, old) ==
  /\ old.status = "released" => new.status = "released"
  /\ new.owner = old.owner /\ new.path = old.path
  /\ new.mode = old.mode /\ new.gen = old.gen
  /\ new.ttl > old.ttl => new.status = "active"
  /\ new.status = "expired" /\ old.status = "active" => ~Live(old)

LEMMA HistoryKept ==
  ASSUME TypeOK, AcquireShape, Faithful, [Next]_vars,
         NEW c \in ClaimId, Readable(c), Readable(c)'
  PROVE  Follows(claims'[c], claims[c])
<1>a. claims[c] \in Record /\ claims[c].ttl \in Ttl
  BY DEF TypeOK, Readable, Record
<1>1. CASE claims'[c] = claims[c]
  BY <1>1, <1>a, LeaseAssumption DEF Follows, Ttl
<1>2. ASSUME NEW s \in Slot, Refresh(s) \/ Write(s) PROVE Follows(claims'[c], claims[c])
  <2>1. /\ ~Idle(s) /\ ops[s].stage \in {"write", "refresh"} /\ ops[s].kind \in Kind
        /\ ops[s].stage = "refresh" => ops[s].kind = "acquire"
        /\ ops[s].id \in ClaimId /\ ops[s].rec \in Record
        /\ claims' = [claims EXCEPT ![ops[s].id] = ops[s].rec]
    BY <1>2 DEF Refresh, Write, At, TypeOK, Idle, Op
  <2>2. CASE c # ops[s].id
    BY <1>1, <2>1, <2>2 DEF TypeOK
  <2>3. CASE c = ops[s].id
    <3>1. claims'[c] = ops[s].rec /\ ops[s].rec.ttl \in Ttl
      BY <2>1, <2>3 DEF TypeOK, Record
    <3>2. Copies(ops[s])
      BY <2>1, <2>3 DEF Faithful, Holds, Readable
    <3> QED
      BY <1>a, <2>1, <2>3, <3>1, <3>2, LeaseAssumption DEF Copies, Follows, Live, Kind, Ttl
  <2> QED
    BY <2>2, <2>3
<1>3. CASE Tick
  <2>1. SameTerms(claims'[c], claims[c]) /\ claims'[c].ttl = Sooner(claims[c].ttl)
    BY <1>3, TickKeepsClaims
  <2>2. ~(Sooner(claims[c].ttl) > claims[c].ttl)
    BY <1>a, LeaseAssumption DEF Ttl, Sooner
  <2> QED
    BY <2>1, <2>2 DEF SameTerms, Follows
<1>4. ASSUME NEW a \in Agent, Crash(a) PROVE claims'[c] = claims[c]
  BY <1>4 DEF Crash, Readable
<1>5. ASSUME NEW s \in Slot, Draws(s) PROVE UNCHANGED claims
  BY <1>5 DEF Draws, Fence
<1> QED
  BY <1>1, <1>2, <1>3, <1>4, <1>5, StepKinds DEF Prepares, vars

\* A released claim stays released, a claim keeps its owner, path, mode and
\* generation, its expiry is put off only by making or keeping it active, and
\* the reaper expires no claim that is still live.
THEOREM ClaimsKeepHistory == Spec /\ []Serialized => ClaimHistory
<1>1. TypeOK /\ AcquireShape /\ Faithful /\ [Next]_vars =>
        [\A c \in ClaimId : Readable(c) /\ Readable(c)' =>
           LET old == claims[c]
               new == claims'[c]
           IN /\ old.status = "released" => new.status = "released"
              /\ \A f \in {"owner", "path", "mode", "gen"} : new[f] = old[f]
              /\ new.ttl > old.ttl => new.status = "active"
              /\ new.status = "expired" /\ old.status = "active" => ~Live(old)]_vars
  BY HistoryKept DEF Follows
<1>2. Arbitrated => TypeOK /\ AcquireShape
  BY DEF Arbitrated
<1> QED
  BY <1>1, <1>2, ClaimsArbitrated, ClaimsFaithful, PTL DEF Spec, ClaimHistory

-----------------------------------------------------------------------------
(* The lease table.                                                         *)

\* With whole writes no file is ever unreadable, and no count is ever lost.
Intact ==
  /\ \A c \in ClaimId : claims[c] # Torn
  /\ restarted = {}

LEMMA IntactPreserved ==
  ASSUME TornWrites = FALSE, TypeOK, Intact, [Next]_vars PROVE Intact'
<1>a. claims \in [ClaimId -> Record \union {Null, Torn}] /\ ops \in [Slot -> Op \union {Null}]
  BY DEF TypeOK
<1>1. ASSUME NEW s \in Slot, Refresh(s) \/ Write(s) PROVE Intact'
  <2>1. /\ ops[s].rec \in Record /\ ops[s].id \in ClaimId
        /\ claims' = [claims EXCEPT ![ops[s].id] = ops[s].rec]
        /\ UNCHANGED restarted
    BY <1>1 DEF Refresh, Write, At, TypeOK
  <2> QED
    BY <1>a, <2>1, RecordIsNoFileMark DEF Intact
<1>2. ASSUME NEW a \in Agent, Crash(a) PROVE Intact'
  <2>1. PICK cut \in SUBSET {s \in {t \in Slot : ~Idle(t) /\ ops[t].agent = a} : TornWrites} :
          /\ claims' = [c \in ClaimId |->
                          IF \E s \in cut : /\ ops[s].stage \in {"write", "refresh"}
                                          /\ ops[s].id = c
                            THEN Torn ELSE claims[c]]
          /\ restarted' = restarted \union
                 {f \in {g \in File : \E s \in cut : /\ At(s, "acquire", "fence")
                                                  /\ FenceFile(s) = g} : clock[f] > 0}
    BY <1>2 DEF Crash
  <2>2. cut = {}
    OBVIOUS
  <2> QED
    BY <2>1, <2>2 DEF Intact
<1>3. CASE Tick
  BY <1>3, <1>a, SoonerType, RecordIsNoFileMark DEF Tick, Intact, Readable
<1>4. CASE UNCHANGED <<claims, restarted>>
  BY <1>4 DEF Intact
<1>5. ASSUME NEW s \in Slot,
             Check(s) \/ Fence(s) \/ HeartbeatRead(s) \/ ReleaseRead(s)
             \/ ReapScan(s) \/ Event(s) \/ Call(s)
      PROVE UNCHANGED <<claims, restarted>>
  BY <1>5 DEF Check, Fence, HeartbeatRead, ReleaseRead, ReapScan, Event, Call,
              BeginAcquire, BeginHeartbeat, BeginRelease, BeginReap
<1> QED
  BY <1>1, <1>2, <1>3, <1>4, <1>5 DEF Next, Step, vars

\* A lease is live in the table exactly when list_claims shows it so.
LEMMA TableReads ==
  ASSUME TypeOK, Intact, NEW c \in ClaimId
  PROVE  /\ LeaseState[c] = "none" <=> claims[c] = Null
         /\ LeaseState[c] = "live" <=> c \in LiveClaims
         /\ Readable(c) => LeaseTerms[c] \in Table!Terms
<1>1. Readable(c) => claims[c] \in Record
  BY DEF TypeOK, Readable
<1>2. Readable(c) <=> claims[c] # Null
  BY DEF Intact, Readable
<1>3. Readable(c) => LeaseTerms[c] \in Table!Terms
  BY <1>1 DEF LeaseTerms, Table!Terms, Record, Mode, Gen, Readable
<1> QED
  BY <1>2, <1>3 DEF LeaseState, LiveClaims, Live, Readable

LEMMA TableShape ==
  /\ LeaseTerms = [c \in ClaimId |-> LeaseTerms[c]]
  /\ LeaseState = [c \in ClaimId |-> LeaseState[c]]
  /\ LeaseTerms' = [c \in ClaimId |-> LeaseTerms'[c]]
  /\ LeaseState' = [c \in ClaimId |-> LeaseState'[c]]
<1>1. LeaseTerms = [c \in ClaimId |-> LeaseTerms[c]] /\ LeaseState = [c \in ClaimId |-> LeaseState[c]]
  BY DEF LeaseTerms, LeaseState, Readable, Live
<1>2. /\ LeaseTerms' = [c \in ClaimId |-> LeaseTerms'[c]]
      /\ LeaseState' = [c \in ClaimId |-> LeaseState'[c]]
  BY DEF LeaseTerms, LeaseState, Readable, Live
<1> QED
  BY <1>1, <1>2

\* Rewriting one claim file is one step of the table or none.
LEMMA RewriteIsOneStep ==
  ASSUME TypeOK, Intact, TypeOK', Intact',
         NEW i \in ClaimId, NEW r \in Record,
         claims' = [claims EXCEPT ![i] = r],
         Readable(i),
         r.owner = claims[i].owner, r.path = claims[i].path,
         r.mode = claims[i].mode, r.gen = claims[i].gen,
         \/ r.status = "released"
         \/ r.status = "active" /\ claims[i].status # "released"
         \/ r.status = "expired" /\ claims[i].status = "active" /\ claims[i].ttl < 0
  PROVE  [Table!Next]_(Table!vars)
<1>1. /\ claims'[i] = r /\ \A c \in ClaimId : c # i => claims'[c] = claims[c]
      /\ Readable(i)'
  BY RecordIsNoFileMark DEF TypeOK, Readable
<1>2. \A c \in ClaimId : c # i =>
        LeaseTerms'[c] = LeaseTerms[c] /\ LeaseState'[c] = LeaseState[c]
  BY <1>1 DEF LeaseTerms, LeaseState, Readable, Live
<1>3. LeaseTerms'[i] = LeaseTerms[i]
  BY <1>1 DEF LeaseTerms, Readable
<1>4. LeaseTerms' = LeaseTerms
  BY <1>2, <1>3 DEF LeaseTerms, Readable
<1>5. LeaseState[i] \in {"live", "lapsed", "released"}
  BY DEF LeaseState, Readable, Live
<1>6. \/ LeaseState'[i] = LeaseState[i]
      \/ LeaseState[i] \in {"live", "lapsed"} /\ LeaseState'[i] \in {"live", "released"}
      \/ LeaseState[i] = "live" /\ LeaseState'[i] = "lapsed"
  BY <1>1, <1>5 DEF LeaseState, Live, Readable
<1>7. LeaseState' = [LeaseState EXCEPT ![i] = LeaseState'[i]]
  BY <1>2, TableShape
<1>8. CASE LeaseState'[i] = LeaseState[i]
  <2>1. LeaseState' = LeaseState
    BY <1>2, <1>8 DEF LeaseState, Readable, Live
  <2> QED
    BY <1>4, <2>1 DEF Table!vars
<1>9. CASE LeaseState[i] \in {"live", "lapsed"} /\ LeaseState'[i] = "live"
  <2>1. Table!Renew(i)
    BY <1>4, <1>7, <1>9 DEF Table!Renew
  <2> QED
    BY <2>1 DEF Table!Next
<1>10. CASE LeaseState[i] \in {"live", "lapsed"} /\ LeaseState'[i] = "released"
  <2>1. Table!Release(i)
    BY <1>4, <1>7, <1>10 DEF Table!Release
  <2> QED
    BY <2>1 DEF Table!Next
<1>11. CASE LeaseState[i] = "live" /\ LeaseState'[i] = "lapsed"
  <2>1. {i} \in SUBSET {c \in ClaimId : LeaseState[c] = "live"}
    BY <1>11 DEF LeaseState, Readable, Live
  <2>2. LeaseState' = [c \in ClaimId |-> IF c \in {i} THEN "lapsed" ELSE LeaseState[c]]
    BY <1>2, <1>11 DEF LeaseState, Readable, Live
  <2>3. Table!Lapse
    BY <1>4, <2>1, <2>2 DEF Table!Lapse
  <2> QED
    BY <2>3 DEF Table!Next
<1> QED
  BY <1>6, <1>8, <1>9, <1>10, <1>11

LEMMA ClaimStepIsTableStep ==
  ASSUME TornWrites = FALSE, TypeOK, TypeOK', Intact, Intact',
         AcquireShape, Numbered, Faithful, [Next]_vars
  PROVE  [Table!Next]_(Table!vars)
<1>b. \A s \in Slot : ~Idle(s) =>
        /\ ops[s] \in Op
        /\ ops[s].stage \notin {"read", "scan"} => ops[s].rec \in Record
        /\ ops[s].stage \notin {"check", "fence", "scan"} => ops[s].id \in ClaimId
  BY DEF TypeOK, Idle
<1>c. claims \in [ClaimId -> Record \union {Null, Torn}]
  BY DEF TypeOK
<1>1. CASE UNCHANGED claims
  <2>1. \A c \in ClaimId : LeaseTerms'[c] = LeaseTerms[c] /\ LeaseState'[c] = LeaseState[c]
    BY <1>1 DEF LeaseTerms, LeaseState, Readable, Live
  <2> QED
    BY <2>1, TableShape DEF Table!vars
<1>2. ASSUME NEW s \in Slot, Refresh(s) PROVE [Table!Next]_(Table!vars)
  <2>1. /\ ~Idle(s) /\ ops[s].stage = "refresh" /\ ops[s].kind = "acquire"
        /\ claims' = [claims EXCEPT ![ops[s].id] = ops[s].rec]
        /\ ops[s].id \in ClaimId /\ ops[s].rec \in Record
    BY <1>2, <1>b DEF Refresh, At
  <2>2. Copies(ops[s])
    BY <2>1 DEF Faithful, Holds
  <2> QED
    BY <2>1, <2>2, RewriteIsOneStep DEF Copies
<1>3. ASSUME NEW s \in Slot, Write(s) PROVE [Table!Next]_(Table!vars)
  <2> DEFINE i == ops[s].id
             r == ops[s].rec
  <2>1. /\ ~Idle(s) /\ ops[s].stage = "write" /\ ops[s].kind \in Kind
        /\ claims' = [claims EXCEPT ![i] = r]
        /\ i \in ClaimId /\ r \in Record
    BY <1>3, <1>b DEF Write, Op
  <2>2. CASE ops[s].kind # "acquire"
    <3>1. Copies(ops[s])
      BY <2>1, <2>2 DEF Faithful, Holds
    <3> QED
      BY <2>1, <2>2, <3>1, RewriteIsOneStep DEF Copies, Kind
  <2>3. CASE ops[s].kind = "acquire"
    <3>1. /\ Clear(r.path, r.mode) /\ claims[i] = Null /\ r.status = "active"
          /\ r.gen = clock[FileOf[r.path]]
      BY <2>1, <2>3 DEF Faithful, Holds
    <3>2. r.path \in Path /\ r.gen \in Gen
      BY <2>1 DEF Record
    <3>3. Carries(s, i, r.path, r.gen)
      BY <2>1 DEF Carries
    <3>4. /\ claims'[i] = r /\ \A c \in ClaimId : c # i => claims'[c] = claims[c]
      BY <1>c, <2>1
    <3> DEFINE t == [owner |-> r.owner, path |-> r.path, mode |-> r.mode, gen |-> r.gen]
    <3>5. claims'[i] \notin {Null, Torn} /\ LeaseTerms'[i] = t
      <4>1. claims'[i] \notin {Null, Torn}
        BY <2>1, <3>4, RecordIsNoFileMark
      <4>2. LeaseTerms'[i] = [owner |-> claims'[i].owner, path |-> claims'[i].path,
                              mode |-> claims'[i].mode, gen |-> claims'[i].gen]
        BY <2>1, <4>1 DEF LeaseTerms, Readable
      <4> QED
        BY <3>4, <4>1, <4>2
    <3>6. t \in Table!Terms
      BY <2>1 DEF Table!Terms, Record, Mode, Gen
    <3>7. LeaseState[i] = "none" /\ LeaseState'[i] \in {"live", "lapsed"}
      <4>1. LeaseState[i] = "none"
        BY <2>1, <3>1 DEF LeaseState, Readable
      <4>2. claims'[i].status = "active"
        BY <3>1, <3>4
      <4>3. LeaseState'[i] \in {"live", "lapsed"}
        BY <2>1, <3>5, <4>2 DEF LeaseState, Readable, Live
      <4> QED
        BY <4>1, <4>3
    <3>8. \A c \in ClaimId : c # i =>
            LeaseTerms'[c] = LeaseTerms[c] /\ LeaseState'[c] = LeaseState[c]
      BY <3>4 DEF LeaseTerms, LeaseState, Readable, Live
    <3>9. /\ LeaseTerms' = [LeaseTerms EXCEPT ![i] = t]
          /\ LeaseState' = [LeaseState EXCEPT ![i] = LeaseState'[i]]
      BY <3>5, <3>8, TableShape
    <3>10. ASSUME NEW d \in ClaimId, LeaseState[d] # "none"
           PROVE  /\ ~(LeaseState[d] = "live" /\ Table!InTheWay(LeaseTerms[d], t))
                  /\ FileOf[LeaseTerms[d].path] = FileOf[t.path] =>
                       LeaseTerms[d].gen < t.gen
      <4>1. Readable(d) /\ claims[d] \in Record /\ d # i
        BY <1>c, <3>1, <3>10, TableReads DEF Readable, Intact
      <4>2. /\ LeaseTerms[d].path = claims[d].path /\ LeaseTerms[d].mode = claims[d].mode
            /\ LeaseTerms[d].gen = claims[d].gen
        BY <4>1 DEF LeaseTerms, Readable
      <4>3. LeaseState[d] = "live" => ~CheckConflict(claims[d], r.path, r.mode)
        BY <3>1, TableReads DEF Clear
      <4>4. Table!InTheWay(LeaseTerms[d], t) => CheckConflict(claims[d], r.path, r.mode)
        BY <4>2 DEF Table!InTheWay, Table!Overlap, CheckConflict, IsSubPath
      <4>5. claims[d].path \in Path /\ claims[d].gen \in Gen
        BY <4>1 DEF Record
      <4>6. Bears(d, claims[d].path, claims[d].gen) /\ Bears(i, r.path, r.gen)
        BY <3>3, <4>1 DEF Bears
      <4>7. FileOf[claims[d].path] = FileOf[r.path] =>
              claims[d].gen <= r.gen /\ claims[d].gen # r.gen
        BY <2>1, <3>1, <3>2, <4>1, <4>5, <4>6 DEF Numbered, Intact
      <4>8. FileOf[claims[d].path] = FileOf[r.path] => claims[d].gen < r.gen
        BY <3>2, <4>5, <4>7 DEF Gen
      <4> QED
        BY <4>2, <4>3, <4>4, <4>8
    <3> HIDE DEF t
    <3>11. Table!Grant(i, LeaseTerms'[i])
      <4>1. LeaseTerms'[i] = t
        BY <2>1, <3>5 DEF LeaseTerms, Readable
      <4>2. \A d \in ClaimId : LeaseTerms[d] = LeaseTerms[d] /\ LeaseState[d] = LeaseState[d]
        BY DEF LeaseTerms, LeaseState, Readable, Live
      <4> QED
        BY <2>1, <3>6, <3>7, <3>9, <3>10, <4>1, <4>2 DEF Table!Grant
    <3> QED
      BY <2>1, <3>11 DEF Table!Next
  <2> QED
    BY <2>2, <2>3
<1>4. CASE Tick
  <2> DEFINE C == {c \in ClaimId : LeaseState[c] = "live" /\ LeaseState'[c] # "live"}
  <2>1. ASSUME NEW c \in ClaimId
        PROVE  /\ LeaseTerms'[c] = LeaseTerms[c]
               /\ LeaseState'[c] = IF c \in C THEN "lapsed" ELSE LeaseState[c]
    <3>1. /\ Readable(c)' <=> Readable(c)
          /\ Readable(c) => /\ SameTerms(claims'[c], claims[c])
                            /\ Live(claims'[c]) => Live(claims[c])
      BY <1>4, TickKeepsClaims
    <3> QED
      BY <3>1 DEF LeaseTerms, LeaseState, SameTerms, Live, Readable
  <2>2. C \in SUBSET {c \in ClaimId : LeaseState[c] = "live"}
    BY DEF LeaseState, Readable, Live
  <2>3. LeaseState' = [c \in ClaimId |-> IF c \in C THEN "lapsed" ELSE LeaseState[c]]
    BY <2>1 DEF LeaseState, Readable, Live
  <2>4. LeaseTerms' = LeaseTerms
    BY <2>1 DEF LeaseTerms, Readable
  <2> HIDE DEF C
  <2>5. Table!Lapse
    BY <2>2, <2>3, <2>4 DEF Table!Lapse
  <2> QED
    BY <2>5 DEF Table!Next
<1>5. ASSUME NEW a \in Agent, Crash(a) PROVE UNCHANGED claims
  BY <1>5, <1>c DEF Crash
<1>6. ASSUME NEW s \in Slot, Draws(s) PROVE UNCHANGED claims
  BY <1>6 DEF Draws, Fence
<1> QED
  BY <1>1, <1>2, <1>3, <1>4, <1>5, <1>6, StepKinds DEF Prepares, vars

\* ClaimManager implements the lease table: to everybody who reads the claim
\* files, a grant, a renewal and a release are single steps, and a grant happens
\* at a moment when nothing live is in its way.
THEOREM ClaimsImplementLeaseTable ==
  ASSUME TornWrites = FALSE PROVE Spec /\ []Serialized => LeasesAreAtomic
<1>1. Init => Intact /\ Table!Init
  BY MarkAssumption DEF Init, Intact, Table!Init, LeaseTerms, LeaseState, Readable, Live
<1>3. TypeOK /\ Intact /\ [Next]_vars => Intact'
  BY IntactPreserved
<1>4. TypeOK /\ TypeOK' /\ Intact /\ Intact' /\ AcquireShape /\ Numbered /\ Faithful
      /\ [Next]_vars => [Table!Next]_(Table!vars)
  BY ClaimStepIsTableStep
<1>5. Arbitrated => TypeOK /\ AcquireShape
  BY DEF Arbitrated
<1> QED
  BY <1>1, <1>3, <1>4, <1>5, ClaimsArbitrated, ClaimsFaithful, ClaimsNumbered, PTL
     DEF Spec, LeasesAreAtomic, Table!Spec
=============================================================================
