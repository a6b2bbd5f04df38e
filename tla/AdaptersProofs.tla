--------------------------- MODULE AdaptersProofs ---------------------------
(***************************************************************************)
(* Adapters only call the claim manager as anybody may: every behaviour of *)
(* Adapters is one of Claims, so whatever is proved of the claim store     *)
(* holds however the two threads of an adapter interleave.                 *)
(* The last section composes both with the lock they run under.            *)
(***************************************************************************)
EXTENDS Adapters, LeaseTableProofs

\* A call by an adapter or from the command line is a call of the claim manager.
LEMMA CallsAreCalls ==
  ASSUME NEW s \in Slot
  PROVE  /\ \A a \in Adapter : MainCalls(s, a) => Call(s)
         /\ CliCalls(s) => Call(s)
<1>1. ASSUME NEW a \in Adapter, MainCalls(s, a) PROVE Call(s)
  BY <1>1, AdapterAssumption DEF MainCalls, Call
<1>2. ASSUME CliCalls(s) PROVE Call(s)
  BY <1>2 DEF CliCalls, Call
<1> QED
  BY <1>1, <1>2

LEMMA AdapterStepIsStep == \A s \in Slot : AdapterStep(s) => Step(s)
  BY DEF AdapterStep, AdapterRefresh, AdapterHeartbeatRead, AdapterEvent, OtherSteps, Step

\* What the adapters keep are ids of claims.
ATypes ==
  /\ held \in [Adapter -> SUBSET ClaimId]
  /\ round \in [Adapter -> SUBSET ClaimId]
  /\ todo \in [Adapter -> Todo \union {Null}]
  /\ stopped \in SUBSET Adapter

\* A heartbeat of the round is one, or never reaches the claim manager.
LEMMA BeatIsCall ==
  ASSUME ATypes, NEW a \in Adapter, Beat(a)
  PROVE  (\E s \in Slot : Call(s)) \/ UNCHANGED vars
<1>1. PICK c \in round[a] : (\E s \in Slot : BeginHeartbeat(s, a, c)) \/ UNCHANGED vars
  BY DEF Beat
<1>2. c \in ClaimId /\ a \in Agent
  BY AdapterAssumption DEF ATypes
<1> QED
  BY <1>1, <1>2 DEF Call

LEMMA AdapterNextIsNext == ATypes /\ [ANext]_allvars => [Next]_vars
<1> SUFFICES ASSUME ATypes, [ANext]_allvars PROVE [Next]_vars
  OBVIOUS
<1>1. ASSUME NEW s \in Slot, Call(s) \/ Step(s) PROVE Next
  BY <1>1 DEF Next
<1>2. ASSUME NEW s \in Slot, NEW a \in Adapter, MainCalls(s, a) PROVE Next
  BY <1>1, <1>2, CallsAreCalls
<1>3. ASSUME NEW a \in Adapter, Track(a) \/ Untrack(a) \/ Destroy(a) \/ BeginRound(a)
      PROVE  UNCHANGED vars
  BY <1>3 DEF Track, Untrack, Destroy, BeginRound
<1>4. ASSUME NEW a \in Adapter, Beat(a) PROVE [Next]_vars
  BY <1>1, <1>4, BeatIsCall
<1>5. ASSUME NEW a \in Adapter, AdapterCrash(a) PROVE Next
  BY <1>5, AdapterAssumption DEF AdapterCrash, Next
<1>6. ASSUME NEW s \in Slot, AdapterStep(s) \/ CliCalls(s) \/ CliStep(s) PROVE Next
  BY <1>1, <1>6, AdapterStepIsStep, CallsAreCalls DEF CliStep
<1>7. ASSUME NEW a \in Agent \ Adapter, Crash(a) PROVE Next
  BY <1>7 DEF Next
<1>8. Tick => Next
  BY DEF Next
<1>9. UNCHANGED allvars => UNCHANGED vars
  BY DEF allvars
<1> QED
  BY <1>2, <1>3, <1>4, <1>5, <1>6, <1>7, <1>8, <1>9 DEF ANext

LEMMA AdapterTypesKept == TypeOK /\ ATypes /\ [ANext]_allvars => ATypes'
<1> SUFFICES ASSUME TypeOK, ATypes, [ANext]_allvars PROVE ATypes'
  OBVIOUS
<1> USE DEF ATypes
<1>1. ASSUME NEW a \in Adapter, Track(a) \/ Untrack(a) PROVE ATypes'
  <2>1. todo[a].id \in ClaimId
    BY <1>1 DEF Track, Untrack, Todo
  <2> QED
    BY <1>1, <2>1 DEF Track, Untrack
<1>2. ASSUME NEW a \in Adapter, Destroy(a) \/ BeginRound(a) PROVE ATypes'
  BY <1>2 DEF Destroy, BeginRound
<1>3. ASSUME NEW a \in Adapter, Beat(a) PROVE ATypes'
  BY <1>3 DEF Beat, Drop
<1>4. ASSUME NEW a \in Adapter, AdapterCrash(a) PROVE ATypes'
  BY <1>4 DEF AdapterCrash
<1>5. ASSUME NEW s \in Slot, AdapterStep(s) PROVE ATypes'
  <2> DEFINE a == ops[s].agent
             c == ops[s].id
  <2>1. a \in Adapter
    BY <1>5 DEF AdapterStep
  <2>2. ASSUME c \in ClaimId, NEW do \in {"add", "remove"}, Then(a, do, c)
        PROVE  todo' \in [Adapter -> Todo \union {Null}]
    BY <2>1, <2>2 DEF Then, Todo
  <2>3. Drop(a, c) => held' \in [Adapter -> SUBSET ClaimId]
    BY <2>1 DEF Drop
  <2>4. CASE AdapterRefresh(s)
    <3>1. c \in ClaimId
      BY <2>4 DEF AdapterRefresh, Refresh, At, TypeOK
    <3> QED
      BY <2>2, <2>4, <3>1 DEF AdapterRefresh
  <2>5. CASE AdapterHeartbeatRead(s)
    BY <2>3, <2>5 DEF AdapterHeartbeatRead
  <2>6. CASE AdapterEvent(s)
    <3>1. c \in ClaimId
      BY <2>6 DEF AdapterEvent, Event, TypeOK
    <3> QED
      BY <2>2, <2>3, <2>6, <3>1 DEF AdapterEvent
  <2>7. CASE UNCHANGED avars
    BY <2>7 DEF avars
  <2> QED
    BY <1>5, <2>4, <2>5, <2>6, <2>7 DEF AdapterStep
<1>6. UNCHANGED avars => ATypes'
  BY DEF avars
<1> QED
  BY <1>1, <1>2, <1>3, <1>4, <1>5, <1>6
     DEF ANext, MainCalls, CliCalls, CliStep, allvars

LEMMA AdapterTypes == ASpec => []ATypes /\ [][Next]_vars
<1>1. AInit => TypeOK /\ ATypes
  BY TypeInitially DEF AInit, ATypes
<1>2. TypeOK /\ ATypes /\ [ANext]_allvars => TypeOK' /\ ATypes' /\ [Next]_vars
  BY AdapterNextIsNext, AdapterTypesKept, TypeKept
<1> QED
  BY <1>1, <1>2, PTL DEF ASpec

\* The adapters and the command line together are one way to use Claims.
THEOREM AdaptersImplementClaims == ASpec => Spec
<1>1. AInit => Init
  BY DEF AInit
<1> QED
  BY <1>1, AdapterTypes, PTL DEF ASpec, Spec

\* Hence the claims that adapters hold are exclusive unless one of them lapsed and
\* was reactivated.
THEOREM AdaptersKeepExclusion == ASpec /\ []Serialized => []ExclusionUnlessRevived
  BY AdaptersImplementClaims, ClaimExclusion, PTL

\* And any two of them numbered by one fencing file have different generations,
\* whoever is killed and whether or not claims_mutex excludes, as long as no
\* write of that fencing file has been cut short and has lost its count.
THEOREM AdaptersKeepGenerations == ASpec => []GenerationsUnique
  BY AdaptersImplementClaims, ClaimGenerations, PTL

-----------------------------------------------------------------------------
(* Whose claims adapters keep.                                              *)

\* The claim file is there, and nobody else's name is in it.
Named(c, a) == claims[c] # Null /\ (claims[c] # Torn => claims[c].owner = a)

\* No claim is unmade or changes its owner, and a torn file stays torn.
LEMMA OwnerKept ==
  ASSUME TypeOK, AcquireShape, Faithful, [Next]_vars,
         NEW c \in ClaimId, NEW a, Named(c, a)
  PROVE  Named(c, a)'
<1>a. claims \in [ClaimId -> Record \union {Null, Torn}] /\ claims[c] # Null
  BY DEF TypeOK, Named
<1>1. CASE claims'[c] = claims[c]
  BY <1>1 DEF Named
<1>2. CASE Readable(c) /\ Readable(c)'
  <2>1. claims'[c].owner = claims[c].owner
    BY <1>2, HistoryKept DEF Follows
  <2> QED
    BY <1>2, <2>1 DEF Named, Readable
<1>3. ASSUME NEW s \in Slot, Refresh(s) \/ Write(s) PROVE Named(c, a)'
  <2>1. /\ ~Idle(s) /\ ops[s].stage \in {"write", "refresh"}
        /\ ops[s].rec \in Record /\ ops[s].id \in ClaimId
        /\ claims' = [claims EXCEPT ![ops[s].id] = ops[s].rec]
    BY <1>3 DEF Refresh, Write, At, TypeOK
  <2>2. CASE c # ops[s].id
    BY <1>1, <1>a, <2>1, <2>2
  <2>3. CASE c = ops[s].id
    <3>1. Copies(ops[s])
      BY <1>a, <2>1, <2>3 DEF Faithful, Holds
    <3>2. Readable(c) /\ Readable(c)'
      BY <1>a, <2>1, <2>3, <3>1, RecordIsNoFileMark DEF Copies, Readable
    <3> QED
      BY <1>2, <3>2
  <2> QED
    BY <2>2, <2>3
<1>4. ASSUME NEW b \in Agent, Crash(b) PROVE claims'[c] \in {claims[c], Torn}
  BY <1>4 DEF Crash
<1>5. CASE claims'[c] = Torn
  BY <1>5, MarkAssumption DEF Named
<1>6. CASE Tick
  <2>1. ~Readable(c) => claims'[c] = claims[c]
    BY <1>6 DEF Tick, Readable
  <2> QED
    BY <1>1, <1>2, <1>6, <2>1, TickKeepsClaims
<1>7. Prepares \/ (\E s \in Slot : Draws(s)) \/ UNCHANGED vars => UNCHANGED claims
  BY DEF Prepares, Draws, Fence, vars
<1> QED
  BY <1>1, <1>3, <1>4, <1>5, <1>6, <1>7, StepKinds

\* A claim call writes and returns a record in its caller's name.
SignedOp(s) ==
  ops[s].kind = "acquire" =>
    /\ ops[s].rec.owner = ops[s].agent
    /\ ops[s].stage \in {"refresh", "event"} => Named(ops[s].id, ops[s].agent)

Signed == \A s \in Slot : ~Idle(s) => SignedOp(s)

LEMMA SignedPreserved ==
  ASSUME TypeOK, Signed, [Next]_vars,
         \A c \in ClaimId, a \in Agent : Named(c, a) => Named(c, a)'
  PROVE  Signed'
<1>a. ops \in [Slot -> Op \union {Null}] /\ claims \in [ClaimId -> Record \union {Null, Torn}]
  BY DEF TypeOK
<1>b. \A s \in Slot : ~Idle(s) =>
        /\ ops[s] \in Op
        /\ ops[s].stage \notin {"read", "scan"} => ops[s].rec \in Record
        /\ ops[s].stage \notin {"check", "fence", "scan"} => ops[s].id \in ClaimId
  BY DEF TypeOK, Idle
\* What another slot executes stays signed.
<1>o. ASSUME NEW t \in Slot, ops'[t] = ops[t], ~Idle(t)' PROVE SignedOp(t)'
  <2>1. ~Idle(t) /\ SignedOp(t) /\ ops[t] \in Op
    BY <1>b, <1>o DEF Idle, Signed
  <2>2. CASE ops[t].kind = "acquire" /\ ops[t].stage \in {"refresh", "event"}
    <3>1. ops[t].id \in ClaimId /\ ops[t].agent \in Agent /\ Named(ops[t].id, ops[t].agent)
      BY <1>b, <2>1, <2>2 DEF SignedOp, Op
    <3>2. PICK c \in ClaimId, a \in Agent :
            c = ops[t].id /\ a = ops[t].agent /\ Named(c, a)'
      BY <3>1
    <3> QED
      BY <1>o, <2>1, <3>2 DEF SignedOp, Named
  <2> QED
    BY <1>o, <2>1, <2>2 DEF SignedOp
<1>i. ASSUME NEW s \in Slot, \A t \in Slot : t # s => ops'[t] = ops[t],
             ~Idle(s)' => SignedOp(s)'
      PROVE  Signed'
  BY <1>i, <1>o DEF Signed
\* A step that gives the slot an operation which is signed, or no claim call.
<1>s. ASSUME NEW s \in Slot, NEW op, Start(s, op),
             op.kind = "acquire" => op.rec.owner = op.agent /\ op.stage \notin {"refresh", "event"}
      PROVE  Signed'
  <2>1. ops'[s] = op /\ \A t \in Slot : t # s => ops'[t] = ops[t]
    BY <1>a, <1>s DEF Start
  <2> QED
    BY <1>s, <1>i, <2>1 DEF SignedOp
<1>r. ASSUME NEW s \in Slot, Return(s) PROVE Signed'
  <2>1. Idle(s)' /\ \A t \in Slot : t # s => ops'[t] = ops[t]
    BY <1>a, <1>r DEF Return, Idle
  <2> QED
    BY <1>i, <2>1
<1>1. ASSUME NEW s \in Slot, NEW a \in Agent, NEW x \in Path, NEW m \in Asked,
             BeginAcquire(s, a, x, m)
      PROVE  Signed'
  BY <1>1, <1>s DEF BeginAcquire, NewOp
<1>2. ASSUME NEW s \in Slot, Check(s) PROVE Signed'
  <2>1. /\ ~Idle(s) /\ ops[s].kind = "acquire" /\ ops[s] \in Op
        /\ ops[s].rec \in Record /\ ops[s].rec.owner = ops[s].agent
        /\ UNCHANGED claims
    BY <1>2, <1>b DEF Check, At, Signed, SignedOp
  <2>2. CASE Move(s, "fence")
    <3>1. Start(s, [ops[s] EXCEPT !.stage = "fence"])
      BY <1>a, <2>2 DEF Move, Start
    <3> DEFINE op == [ops[s] EXCEPT !.stage = "fence"]
    <3>2. op.rec.owner = op.agent /\ op.stage = "fence"
      BY <2>1 DEF Op
    <3> HIDE DEF op
    <3> QED
      BY <1>s, <3>1, <3>2 DEF op
  <2>3. ASSUME NEW c \in LiveClaims, Own(claims[c], ops[s].rec),
               Start(s, [ops[s] EXCEPT !.stage = "refresh", !.id = c,
                           !.rec = [claims[c] EXCEPT !.ttl = ops[s].rec.ttl]])
        PROVE  Signed'
    <3> DEFINE r  == [claims[c] EXCEPT !.ttl = ops[s].rec.ttl]
               op == [ops[s] EXCEPT !.stage = "refresh", !.id = c, !.rec = r]
    <3>1. c \in ClaimId /\ claims[c] \in Record /\ claims[c] # Null
      BY <1>a DEF LiveClaims, Readable
    <3>2. r.owner = claims[c].owner
      BY <3>1 DEF Record
    <3> HIDE DEF r
    <3>3. op.id = c /\ op.rec = r /\ op.agent = ops[s].agent
      BY <2>1 DEF Op
    <3>4. ops'[s] = op /\ \A t \in Slot : t # s => ops'[t] = ops[t]
      BY <1>a, <2>3 DEF Start, r
    <3> HIDE DEF op
    <3>5. claims[c].owner = ops[s].agent
      BY <2>1, <2>3 DEF Own
    <3> QED
      BY <1>i, <2>1, <3>1, <3>2, <3>3, <3>4, <3>5 DEF SignedOp, Named
  <2> QED
    BY <1>2, <1>r, <2>2, <2>3 DEF Check
<1>3. ASSUME NEW s \in Slot, Fence(s) PROVE Signed'
  <2>1. /\ ~Idle(s) /\ ops[s] \in Op
        /\ ops[s].rec \in Record /\ ops[s].rec.owner = ops[s].agent
    BY <1>3, <1>b DEF Fence, At, Signed, SignedOp
  <2>2. ASSUME NEW i \in ClaimId, NEW n,
               Start(s, [ops[s] EXCEPT !.stage = "write", !.id = i, !.rec.gen = n])
        PROVE  Signed'
    <3> DEFINE r  == [ops[s].rec EXCEPT !.gen = n]
               op == [ops[s] EXCEPT !.stage = "write", !.id = i, !.rec = r]
    <3>1. r.owner = ops[s].rec.owner
      BY <2>1 DEF Record
    <3>2. Start(s, op)
      BY <2>1, <2>2 DEF Op
    <3> HIDE DEF r
    <3>3. op.rec.owner = op.agent /\ op.stage = "write"
      BY <2>1, <3>1 DEF Op
    <3> HIDE DEF op
    <3> QED
      BY <1>s, <3>2, <3>3
  <2> QED
    BY <1>3, <1>r, <2>2 DEF Fence
<1>4. ASSUME NEW s \in Slot, Write(s) PROVE Signed'
  <2>1. /\ ~Idle(s) /\ ops[s] \in Op /\ ops[s].rec \in Record /\ ops[s].id \in ClaimId
        /\ claims' = [claims EXCEPT ![ops[s].id] = ops[s].rec]
    BY <1>4, <1>b DEF Write
  <2>2. /\ ops'[s].kind = ops[s].kind /\ ops'[s].agent = ops[s].agent
        /\ ops'[s].rec = ops[s].rec /\ ops'[s].id = ops[s].id
        /\ \A t \in Slot : t # s => ops'[t] = ops[t]
    <3>1. /\ ops'[s] = [ops[s] EXCEPT !.stage = "event"]
          /\ \A t \in Slot : t # s => ops'[t] = ops[t]
      BY <1>a, <1>4 DEF Write, Move
    <3> QED
      BY <2>1, <3>1 DEF Op
  <2>3. claims'[ops[s].id] = ops[s].rec /\ SignedOp(s)
    BY <1>a, <2>1 DEF Signed
  <2> QED
    BY <1>i, <2>1, <2>2, <2>3, RecordIsNoFileMark DEF SignedOp, Named
<1>5. ASSUME NEW s \in Slot, NEW a \in Agent,
             \/ BeginReap(s, a)
             \/ \E c \in ClaimId : BeginHeartbeat(s, a, c) \/ BeginRelease(s, a, c)
      PROVE  Signed'
  <2> DEFINE reap == [NewOp("reap", a, "scan", Null, Null)
                        EXCEPT !.todo = {d \in ClaimId : Overdue(d)}]
  <2>1. reap.kind = "reap"
    BY DEF NewOp
  <2>2. Start(s, reap) => Signed'
    <3> HIDE DEF reap
    <3> QED
      BY <1>s, <2>1
  <2> QED
    BY <1>5, <1>s, <2>2 DEF BeginHeartbeat, BeginRelease, BeginReap, NewOp
<1>6. ASSUME NEW s \in Slot,
             HeartbeatRead(s) \/ ReleaseRead(s) \/ ReapScan(s) \/ Refresh(s) \/ Event(s)
      PROVE  Signed'
  <2>1. /\ ~Idle(s) /\ ops[s] \in Op
        /\ ops[s].kind # "acquire" \/ Return(s)
    BY <1>6, <1>b DEF HeartbeatRead, ReleaseRead, ReapScan, Refresh, Event, At
  <2>2. Return(s) \/ ops'[s].kind = ops[s].kind
    <3>1. CASE HeartbeatRead(s)
      <4> DEFINE r == Extended(claims[ops[s].id])
                 l == ~Live(claims[ops[s].id])
      <4>1. Return(s) \/ Start(s, [ops[s] EXCEPT !.stage = "write", !.rec = r, !.lapsed = l])
        BY <3>1 DEF HeartbeatRead
      <4> HIDE DEF r, l
      <4> QED
        BY <1>a, <2>1, <4>1 DEF Start, Op
    <3>2. CASE ReleaseRead(s)
      BY <1>a, <2>1, <3>2 DEF ReleaseRead, Start, Op
    <3>3. CASE ReapScan(s)
      <4>1. PICK c \in ops[s].todo \union {Null} :
              LET op == [ops[s] EXCEPT !.todo = @ \ {c}] IN
              \/ Return(s)
              \/ Start(s, op)
              \/ Start(s, [op EXCEPT !.stage = "write", !.id = c,
                             !.rec = [claims[c] EXCEPT !.status = "expired"]])
        BY <3>3 DEF ReapScan
      <4> DEFINE td == ops[s].todo \ {c}
                 op == [ops[s] EXCEPT !.todo = td]
                 r  == [claims[c] EXCEPT !.status = "expired"]
                 wr == [op EXCEPT !.stage = "write", !.id = c, !.rec = r]
      <4>2. Return(s) \/ Start(s, op) \/ Start(s, wr)
        BY <4>1
      <4> HIDE DEF td, r
      <4>3. op.kind = ops[s].kind /\ wr.kind = ops[s].kind
        BY <2>1 DEF Op
      <4> HIDE DEF op, wr
      <4> QED
        BY <1>a, <4>2, <4>3 DEF Start
    <3>4. CASE Refresh(s)
      BY <3>4 DEF Refresh
    <3>5. CASE Event(s)
      <4> DEFINE op == [ops[s] EXCEPT !.stage = "scan", !.id = Null, !.rec = Null]
      <4>1. op.kind = ops[s].kind
        BY <2>1 DEF Op
      <4>2. Return(s) \/ Start(s, op)
        BY <3>5 DEF Event
      <4> HIDE DEF op
      <4> QED
        BY <1>a, <4>1, <4>2 DEF Start
    <3> QED
      BY <1>6, <3>1, <3>2, <3>3, <3>4, <3>5
  <2>3. \A t \in Slot : t # s => ops'[t] = ops[t]
    BY <1>6, <1>a DEF HeartbeatRead, ReleaseRead, ReapScan, Refresh, Event, Start, Return
  <2> QED
    BY <1>i, <1>r, <2>1, <2>2, <2>3 DEF SignedOp
<1>7. ASSUME NEW a \in Agent, Crash(a) PROVE Signed'
  <2>1. \A s \in Slot : ~Idle(s)' => ops'[s] = ops[s] /\ ~Idle(s)
    BY <1>7 DEF Crash, Idle
  <2> QED
    BY <1>o, <2>1 DEF Signed
<1>8. CASE Tick
  <2>1. ASSUME NEW s \in Slot, ~Idle(s)' PROVE SignedOp(s)'
    <3>1. /\ ~Idle(s) /\ ops'[s].kind = ops[s].kind /\ ops'[s].stage = ops[s].stage
          /\ ops'[s].id = ops[s].id
          /\ ops[s].rec \in Record => SameTerms(ops'[s].rec, ops[s].rec)
      BY <1>8, <2>1, TickKeepsOps
    <3>2. ops'[s].agent = ops[s].agent /\ ops[s].agent \in Agent
      BY <1>8, <1>b, <3>1 DEF Tick, Op
    <3>3. CASE ops'[s] = ops[s]
      BY <1>o, <2>1, <3>3
    <3>4. CASE ops[s].rec \in Record
      <4>1. ops[s].kind = "acquire" => ops'[s].rec.owner = ops'[s].agent
        BY <3>1, <3>2, <3>4 DEF Signed, SignedOp, SameTerms
      <4>2. CASE ops[s].kind = "acquire" /\ ops[s].stage \in {"refresh", "event"}
        <5>1. ops[s].id \in ClaimId /\ Named(ops[s].id, ops[s].agent)
          BY <1>b, <3>1, <4>2 DEF Signed, SignedOp
        <5>2. PICK c \in ClaimId, a \in Agent :
                c = ops[s].id /\ a = ops[s].agent /\ Named(c, a)'
          BY <3>2, <5>1
        <5> QED
          BY <3>1, <3>2, <4>1, <5>2 DEF SignedOp, Named
      <4> QED
        BY <3>1, <4>1, <4>2 DEF SignedOp
    <3>5. ops'[s] = ops[s] \/ ops[s].rec \in Record
      BY <1>8, <1>b, <3>1 DEF Tick, Op
    <3> QED
      BY <3>3, <3>4, <3>5
  <2> QED
    BY <2>1 DEF Signed
<1>9. CASE UNCHANGED vars
  BY <1>9, <1>o DEF vars, Signed
<1> QED
  BY <1>1, <1>2, <1>3, <1>4, <1>5, <1>6, <1>7, <1>8, <1>9 DEF Next, Call, Step

\* What an adapter keeps, or is about to keep, is on disk in its agent's name.
Keeps(a, c) == c \in held[a] \union round[a] \/ todo[a] = [do |-> "add", id |-> c]

Tracks ==
  \A a \in Adapter, c \in ClaimId :
    Keeps(a, c) => Named(c, a)

LEMMA TracksPreserved ==
  ASSUME TypeOK, ATypes, Signed, Tracks, [ANext]_allvars,
         \A c \in ClaimId, a \in Agent : Named(c, a) => Named(c, a)'
  PROVE  Tracks'
<1> USE DEF ATypes
\* It is enough that what is newly kept is a claim of the agent's.
<1> SUFFICES ASSUME NEW b \in Adapter, NEW d \in ClaimId, Keeps(b, d)'
             PROVE  Keeps(b, d) \/ Named(d, b)
  BY AdapterAssumption DEF Tracks
<1> DEFINE Goal == Keeps(b, d) \/ Named(d, b)
<1>p. d \in held'[b] \/ d \in round'[b] \/ todo'[b] = [do |-> "add", id |-> d]
  BY DEF Keeps
<1>q. d \in held[b] \/ d \in round[b] \/ todo[b] = [do |-> "add", id |-> d] => Goal
  <2>1. d \in held[b] \/ d \in round[b] \/ todo[b] = [do |-> "add", id |-> d] => Keeps(b, d)
    BY DEF Keeps
  <2>2. Keeps(b, d) => Goal
    OBVIOUS
  <2> QED
    BY <2>1, <2>2
<1> HIDE DEF Goal
<1>n. \A e \in ClaimId : Null # [do |-> "add", id |-> e]
  BY TodoAssumption DEF Todo
<1>1. ASSUME NEW a \in Adapter, Track(a) PROVE Goal
  <2>1. /\ todo[a] = [do |-> "add", id |-> todo[a].id]
        /\ held' = [held EXCEPT ![a] = @ \union {todo[a].id}]
        /\ todo' = [todo EXCEPT ![a] = Null] /\ round' = round
    BY <1>1 DEF Track, Todo
  <2> QED
    BY <1>n, <1>p, <1>q, <2>1
<1>2. ASSUME NEW a \in Adapter, Untrack(a) PROVE Goal
  <2>1. /\ held' = [held EXCEPT ![a] = @ \ {todo[a].id}]
        /\ todo' = [todo EXCEPT ![a] = Null] /\ round' = round
    BY <1>2 DEF Untrack
  <2> QED
    BY <1>n, <1>p, <1>q, <2>1
<1>3. ASSUME NEW a \in Adapter, Destroy(a) \/ BeginRound(a) PROVE Goal
  <2>1. /\ held' = held /\ todo' = todo
        /\ round' = round \/ round' = [round EXCEPT ![a] = held[a]]
    BY <1>3 DEF Destroy, BeginRound
  <2> QED
    BY <1>p, <1>q, <2>1
<1>4. ASSUME NEW a \in Adapter, Beat(a) PROVE Goal
  <2>1. PICK c \in round[a] :
          /\ round' = [round EXCEPT ![a] = @ \ {c}] /\ todo' = todo
          /\ held' = held \/ held' = [held EXCEPT ![a] = @ \ {c}]
    BY <1>4 DEF Beat, Drop
  <2> QED
    BY <1>p, <1>q, <2>1
<1>7. ASSUME NEW a \in Adapter, AdapterCrash(a) PROVE Goal
  <2>1. /\ held' = [held EXCEPT ![a] = {}] /\ round' = [round EXCEPT ![a] = {}]
        /\ todo' = [todo EXCEPT ![a] = Null]
    BY <1>7 DEF AdapterCrash
  <2> QED
    BY <1>n, <1>p, <1>q, <2>1
<1>5. ASSUME NEW s \in Slot, AdapterStep(s) PROVE Goal
  <2> DEFINE a == ops[s].agent
             c == ops[s].id
  <2>1. a \in Adapter /\ ~Idle(s)
    BY <1>5 DEF AdapterStep
  <2>2. ASSUME Named(c, a), Then(a, "add", c),
               UNCHANGED <<held, round>>
        PROVE  Goal
    BY <1>p, <1>q, <2>1, <2>2 DEF Then, Goal
  <2>3. CASE AdapterRefresh(s)
    <3>1. Named(c, a)
      BY <2>1, <2>3 DEF AdapterRefresh, Refresh, At, Signed, SignedOp
    <3> QED
      BY <2>2, <2>3, <3>1 DEF AdapterRefresh
  <2>4. CASE AdapterHeartbeatRead(s)
    BY <1>p, <1>q, <2>1, <2>4 DEF AdapterHeartbeatRead, Drop
  <2>5. CASE AdapterEvent(s)
    <3>1. ops[s].kind = "acquire" => Named(c, a)
      BY <2>1, <2>5 DEF AdapterEvent, Event, Signed, SignedOp
    <3>2. CASE ops[s].kind = "acquire" /\ Then(a, "add", c) /\ UNCHANGED held
      BY <2>2, <2>5, <3>1, <3>2 DEF AdapterEvent
    <3>3. CASE Then(a, "remove", c) /\ UNCHANGED held
      BY <1>p, <1>q, <2>1, <2>5, <3>3 DEF AdapterEvent, Then
    <3>4. CASE Drop(a, c) /\ UNCHANGED todo
      BY <1>p, <1>q, <2>1, <2>5, <3>4 DEF AdapterEvent, Drop
    <3>5. CASE UNCHANGED <<held, todo>>
      BY <1>p, <1>q, <2>5, <3>5 DEF AdapterEvent
    <3> QED
      BY <2>5, <3>2, <3>3, <3>4, <3>5 DEF AdapterEvent
  <2>6. CASE UNCHANGED avars
    BY <1>p, <1>q, <2>6 DEF avars
  <2> QED
    BY <1>5, <2>3, <2>4, <2>5, <2>6 DEF AdapterStep
<1>6. UNCHANGED avars => Goal
  BY <1>p, <1>q DEF avars
<1> QED
  BY <1>1, <1>2, <1>3, <1>4, <1>5, <1>6, <1>7
     DEF ANext, MainCalls, CliCalls, CliStep, allvars, Goal

LEMMA AdaptersInitially == AInit => ATypes /\ Signed /\ Tracks
<1> SUFFICES ASSUME AInit PROVE ATypes /\ Signed /\ Tracks
  OBVIOUS
<1>1. \A a \in Adapter : held[a] = {} /\ round[a] = {} /\ todo[a] = Null
  BY DEF AInit
<1>2. \A c \in ClaimId : Null # [do |-> "add", id |-> c]
  BY TodoAssumption DEF Todo
<1> QED
  BY <1>1, <1>2 DEF AInit, Init, ATypes, Tracks, Keeps, Signed, Idle

LEMMA OwnershipPreserved ==
  TypeOK /\ AcquireShape /\ Faithful /\ Signed /\ ATypes /\ Tracks /\ [ANext]_allvars =>
    Signed' /\ Tracks'
<1> SUFFICES ASSUME TypeOK, AcquireShape, Faithful, Signed, ATypes, Tracks, [ANext]_allvars
             PROVE  Signed' /\ Tracks'
  OBVIOUS
<1>1. [Next]_vars
  BY AdapterNextIsNext
<1>2. \A c \in ClaimId, a \in Agent : Named(c, a) => Named(c, a)'
  BY <1>1, OwnerKept
<1> QED
  BY <1>1, <1>2, SignedPreserved, TracksPreserved

LEMMA TracksSuffices == ATypes /\ Tracks => ATypeOK
  BY DEF ATypes, Tracks, Keeps, Named, Readable, ATypeOK

\* An adapter keeps alive only claims that are on disk in its own agent's name.
THEOREM AdaptersTrackTheirOwn == ASpec /\ []Serialized => []ATypeOK
<1>1. Arbitrated => TypeOK /\ AcquireShape
  BY DEF Arbitrated
<1> QED
  BY <1>1, AdaptersInitially, OwnershipPreserved, TracksSuffices, AdaptersImplementClaims,
     AdapterTypes, ClaimsArbitrated, ClaimsFaithful, PTL DEF ASpec

-----------------------------------------------------------------------------
(* Under the lock.  claims_mutex is a lock of AtomicLock whose threads are  *)
(* the slots; the claim manager runs its operations inside with_lock.       *)

CONSTANTS Process, Home, NoOne, StaleThreshold, Timeout, MaxCrashes, CrashAt

VARIABLES tlock, dir, meta, writers, age, pc, seen, waited, crashes, overdue

Lock == INSTANCE AtomicLock WITH Thread <- Slot

\* with_lock("claims_mutex", _op): _op runs between acquire_lock's return and
\* release_lock, and dies with its thread.
RunsInside == \A s \in Slot : ~Idle(s) => pc[s] = "critical"

\* What AtomicLockProofs!MutualExclusion proves of the lock.
LockPromise == Lock!Spec /\ []Lock!MutexUntilStale

LEMMA OverdueSticks == [Lock!Next]_(Lock!vars) /\ overdue' = "no" => overdue = "no"
<1> SUFFICES ASSUME [Lock!Next]_(Lock!vars), overdue' = "no" PROVE overdue = "no"
  OBVIOUS
<1>1. CASE Lock!Tick
  BY <1>1 DEF Lock!Tick
<1>2. ASSUME NEW h \in Process, Lock!Crash(h) PROVE overdue = "no"
  BY <1>2 DEF Lock!Crash
<1>3. ASSUME NEW p \in Slot,
             Lock!Begin(p) \/ Lock!Step(p) \/ Lock!AcquireRaises(p) \/ Lock!Restart(p)
      PROVE  overdue = "no"
  BY <1>3 DEF Lock!Begin, Lock!Step, Lock!AcquireRaises, Lock!Enter, Lock!Mkdir, Lock!CreateMeta, Lock!FillMeta,
              Lock!Inspect, Lock!Judge, Lock!Evict, Lock!EvictDir, Lock!Backoff, Lock!Leave,
              Lock!Release, Lock!ReleaseDir, Lock!Restart
<1>4. CASE UNCHANGED Lock!vars
  BY <1>4 DEF Lock!vars
<1> QED
  BY <1>1, <1>2, <1>3, <1>4 DEF Lock!Next

LEMMA LockSerializes ==
  Lock!MutexUntilStale /\ RunsInside /\ overdue = "no" => Serialized
  BY DEF Lock!MutexUntilStale, Lock!Mutex, RunsInside, Serialized

\* The claim manager and its lock together: until a lock of claims_mutex first
\* outlives the stale threshold, overlapping claims are exclusive unless one was
\* revived, whatever happens after that.
THEOREM ExclusionUnderLock ==
  Spec /\ LockPromise /\ []RunsInside =>
    [](overdue = "no" => Arbitrated /\ Faithful /\ ExclusionUnlessRevived)
<1> DEFINE J == overdue = "no" => Arbitrated /\ Faithful
<1>1. Init => J
  BY ArbitratedInitially DEF Init, Faithful, Idle
<1>2. Lock!MutexUntilStale /\ RunsInside /\ J /\ TypeOK' /\ [Next]_vars
      /\ [Lock!Next]_(Lock!vars) => J'
  <2> SUFFICES ASSUME Lock!MutexUntilStale, RunsInside, J, TypeOK', [Next]_vars,
                      [Lock!Next]_(Lock!vars), overdue' = "no"
               PROVE  Arbitrated' /\ Faithful'
    OBVIOUS
  <2>1. Serialized /\ Arbitrated /\ Faithful
    BY OverdueSticks, LockSerializes
  <2>2. Arbitrated'
    BY <2>1, ArbitratedPreserved
  <2>3. Faithful'
    BY <2>1, FaithfulPreserved DEF Arbitrated
  <2> QED
    BY <2>2, <2>3
<1>3. J => (overdue = "no" => Arbitrated /\ Faithful /\ ExclusionUnlessRevived)
  BY DEF Arbitrated
<1> HIDE DEF J
<1> QED
  BY <1>1, <1>2, <1>3, ClaimsTypeCorrect, PTL DEF Spec, LockPromise, Lock!Spec

\* And adapters, under the same lock, keep alive only their own agent's claims.
THEOREM AdaptersUnderLock ==
  ASpec /\ LockPromise /\ []RunsInside =>
    [](overdue = "no" => ExclusionUnlessRevived /\ ATypeOK)
<1> DEFINE J == overdue = "no" => Arbitrated /\ Faithful /\ ExclusionUnlessRevived
           K == overdue = "no" => Signed /\ Tracks
<1>1. AInit => K
  BY AdaptersInitially
<1>2. J /\ K /\ ATypes /\ [ANext]_allvars /\ [Lock!Next]_(Lock!vars) => K'
  <2> SUFFICES ASSUME J, K, ATypes, [ANext]_allvars, [Lock!Next]_(Lock!vars),
                      overdue' = "no"
               PROVE  Signed' /\ Tracks'
    OBVIOUS
  <2>1. TypeOK /\ AcquireShape /\ Faithful /\ Signed /\ Tracks
    BY OverdueSticks DEF Arbitrated
  <2> QED
    BY <2>1, OwnershipPreserved
<1>3. J /\ K /\ ATypes => (overdue = "no" => ExclusionUnlessRevived /\ ATypeOK)
  BY TracksSuffices
<1>4. Spec /\ LockPromise /\ []RunsInside => []J
  BY ExclusionUnderLock
<1> HIDE DEF J, K
<1> QED
  BY <1>1, <1>2, <1>3, <1>4, AdaptersImplementClaims, AdapterTypes, PTL
     DEF ASpec, LockPromise, Lock!Spec
=============================================================================
