--------------------------- MODULE TwoSeatProofs ----------------------------
(***************************************************************************)
(* Proofs about TwoSeat for any set of seats and any number of transfers.  *)
(***************************************************************************)
EXTENDS TwoSeat, TLAPS

Drawing == op # Null /\ op.stage \in {"increment", "stamp"}
Saving  == op # Null /\ op.stage \in {"open", "write"}

Good(r) == r \in Record /\ r.owner # r.controller

\* An operation on its way to a token goes on from what Check saw: nobody else
\* writes the mission while it holds the lock.
DrawingInv ==
  Drawing => /\ op.kind # "close" /\ ~Closed
             /\ IF op.kind = "init" THEN op.agent # op.peer ELSE Good(op.rec)

StampInv == At("stamp") => /\ op.token \in Token
                           /\ op.token.claimant = Claimant

\* A record about to be written is complete, and only close_mission goes on
\* with a mission that is closed.
SavingInv ==
  Saving => /\ Good(op.rec)
            /\ op.kind = "close" => op.rec.state = "TERMINATED"
            /\ op.stage = "open" /\ op.kind # "close" => ~Closed
            /\ op.stage = "write" => mission = Torn

\* The inductive invariant behind TypeOK and SeatsDistinct.
ShapeInv == TypeOK /\ SeatsDistinct /\ DrawingInv /\ StampInv /\ SavingInv

LEMMA ShapeInitially == Init => ShapeInv
<1> SUFFICES ASSUME Init PROVE ShapeInv
  OBVIOUS
<1>1. TypeOK
  BY DEF Init, TypeOK
<1>2. SeatsDistinct
  BY DEF Init, SeatsDistinct, Readable
<1>3. DrawingInv /\ StampInv /\ SavingInv
  BY DEF Init, DrawingInv, StampInv, SavingInv, Drawing, Saving, At
<1> QED
  BY <1>1, <1>2, <1>3 DEF ShapeInv

\* A readable mission file holds a record, with the seats apart.
LEMMA ReadableIsGood == ShapeInv /\ Readable(mission) => Good(mission)
  BY DEF ShapeInv, TypeOK, SeatsDistinct, Readable, Good

LEMMA ShapePreserved == ShapeInv /\ [Next]_vars => ShapeInv'
<1> SUFFICES ASSUME ShapeInv, [Next]_vars PROVE ShapeInv'
  OBVIOUS
<1> USE DEF ShapeInv
<1>1. ASSUME NEW k \in Kind, NEW a \in Seat, NEW b \in Seat, Call(k, a, b)
      PROVE  ShapeInv'
  <2>1. /\ op' = [kind |-> k, agent |-> a, peer |-> b, stage |-> "check",
                  rec |-> Null, token |-> Null]
        /\ UNCHANGED <<files, writing, stamp, history>>
    BY <1>1 DEF Call
  <2>2. TypeOK'
    BY <2>1 DEF TypeOK, files, history, Op, Stage
  <2>3. SeatsDistinct'
    BY <2>1 DEF SeatsDistinct, Readable, files
  <2>4. (DrawingInv /\ StampInv /\ SavingInv)'
    BY <2>1 DEF DrawingInv, StampInv, SavingInv, Drawing, Saving, At
  <2> QED
    BY <2>2, <2>3, <2>4
<1>2. CASE Check
  <2>1. op \in Op /\ op.stage = "check" /\ op # Null
    BY <1>2 DEF Check, At, TypeOK
  <2>2. UNCHANGED <<mission, fencing, writing, stamp, issued, returned, restarted>>
    BY <1>2 DEF Check, files, history
  <2>3. CASE op' = Null
    BY <2>2, <2>3 DEF TypeOK, SeatsDistinct, Readable, DrawingInv, StampInv,
                      SavingInv, Drawing, Saving, At
  <2>4. CASE /\ Granted /\ op.kind # "close"
             /\ op' = [op EXCEPT !.stage = "increment", !.rec = mission]
    <3>1. IF op.kind = "init" THEN mission = Null /\ op.agent # op.peer
                              ELSE Good(mission) /\ ~Closed
      BY <2>1, <2>4, ReadableIsGood
      DEF Granted, InitGranted, HandoverGranted, RecoveryGranted, CloseGranted, Op,
          Kind
    <3>2. op' \in Op
      BY <2>1, <2>4, <3>1 DEF Op, Stage, Good
    <3>3. TypeOK'
      BY <2>2, <3>2 DEF TypeOK
    <3>4. SeatsDistinct'
      BY <2>2 DEF SeatsDistinct, Readable
    <3>5. DrawingInv'
      BY <2>1, <2>2, <2>4, <3>1 DEF DrawingInv, Drawing, Closed, Readable, Op
    <3>6. StampInv' /\ SavingInv'
      BY <2>1, <2>4 DEF StampInv, SavingInv, Saving, At, Op
    <3> QED
      BY <3>3, <3>4, <3>5, <3>6
  <2>5. CASE /\ Granted /\ op.kind = "close"
             /\ op' = [op EXCEPT !.stage = "open",
                         !.rec = CloseRecord]
    <3>1. Good(mission)
      BY <2>5, ReadableIsGood
      DEF Granted, InitGranted, HandoverGranted, RecoveryGranted, CloseGranted
    <3>2. /\ Good(CloseRecord)
          /\ CloseRecord.state = "TERMINATED"
      BY <3>1 DEF Good, Record, CloseRecord
    <3>3. op' \in Op
      BY <2>1, <2>5, <3>2 DEF Op, Stage, Good
    <3>4. TypeOK'
      BY <2>2, <3>3 DEF TypeOK
    <3>5. SeatsDistinct'
      BY <2>2 DEF SeatsDistinct, Readable
    <3>6. SavingInv'
      BY <2>1, <2>5, <3>2 DEF SavingInv, Saving, Op
    <3>7. DrawingInv' /\ StampInv'
      BY <2>1, <2>5 DEF StampInv, DrawingInv, Drawing, At, Op
    <3> QED
      BY <3>4, <3>5, <3>6, <3>7
  <2> QED
    BY <1>2, <2>3, <2>4, <2>5 DEF Check, Return
<1>3. CASE Increment
  <2> DEFINE gen == IF Readable(fencing) THEN fencing.gen ELSE 0
             t   == [gen |-> gen + 1, claimant |-> Claimant, issued_at |-> stamp + 1]
  <2>1. op \in Op /\ op.stage = "increment" /\ op # Null
    BY <1>3 DEF Increment, At, TypeOK
  <2>2. /\ op' = [op EXCEPT !.stage = "stamp", !.token = t]
        /\ stamp' = stamp + 1 /\ fencing' = Torn
        /\ restarted' \in BOOLEAN
        /\ UNCHANGED <<mission, writing, issued, returned>>
    BY <1>3 DEF Increment, TypeOK
  <2>3. t \in Token
    <3>1. gen \in Nat
      BY DEF TypeOK, Readable, Token
    <3>2. Claimant \in Seat
      BY <2>1 DEF Claimant, Op
    <3> QED
      BY <3>1, <3>2 DEF Token, TypeOK
  <2> HIDE DEF t
  <2>4. op' \in Op
    BY <2>1, <2>2, <2>3 DEF Op, Stage
  <2>5. TypeOK'
    BY <2>2, <2>4 DEF TypeOK
  <2>6. SeatsDistinct'
    BY <2>2 DEF SeatsDistinct, Readable
  <2>7. DrawingInv'
    BY <2>1, <2>2 DEF DrawingInv, Drawing, Closed, Readable, Op
  <2>8. StampInv'
    BY <2>1, <2>2, <2>3 DEF StampInv, At, Claimant, Op, t
  <2>9. SavingInv'
    BY <2>1, <2>2 DEF SavingInv, Saving, Op
  <2> QED
    BY <2>5, <2>6, <2>7, <2>8, <2>9
<1>4. CASE IncrementTimesOut \/ Event \/ Crash
  <2>1. /\ op' = Null
        /\ UNCHANGED <<mission, fencing, writing, stamp, issued, restarted>>
    BY <1>4 DEF IncrementTimesOut, Event, Crash, Return, files, history
  <2>2. returned' \in SUBSET Token
    BY <1>4 DEF IncrementTimesOut, Event, Crash, history, TypeOK, Op, At
  <2>3. TypeOK'
    BY <2>1, <2>2 DEF TypeOK
  <2> QED
    BY <2>1, <2>3 DEF SeatsDistinct, Readable, DrawingInv, StampInv, SavingInv,
                      Drawing, Saving, At
<1>5. CASE Stamp
  <2>1. op \in Op /\ op.stage = "stamp" /\ op # Null /\ op.token \in Token
    BY <1>5 DEF Stamp, At, TypeOK, StampInv
  <2>2. PICK r : /\ op' = [op EXCEPT !.stage = "open", !.rec = r]
                 /\ r = NewRecord
    BY <1>5 DEF Stamp
  <2>3. /\ fencing' = op.token /\ issued' = issued \union {op.token}
        /\ UNCHANGED <<mission, writing, stamp, returned, restarted>>
    BY <1>5 DEF Stamp
  <2>4. /\ op.kind # "close" /\ ~Closed
        /\ op.kind = "init" => op.agent # op.peer
        /\ op.kind # "init" => Good(op.rec)
    BY <2>1 DEF DrawingInv, Drawing
  <2>5. Good(r)
    <3>1. CASE op.kind = "init"
      BY <2>1, <2>2, <2>4, <3>1 DEF NewRecord, InitRecord, Good, Record, Op
    <3>2. CASE op.kind = "handover"
      BY <2>1, <2>2, <2>4, <3>2 DEF NewRecord, HandoverRecord, Good, Record, Op
    <3>3. CASE op.kind = "recovery"
      BY <2>1, <2>2, <2>4, <3>3, SeatAssumption
      DEF NewRecord, RecoveryRecord, Good, Record, Op
    <3> QED
      BY <2>1, <2>4, <3>1, <3>2, <3>3 DEF Op, Kind
  <2>6. op' \in Op
    BY <2>1, <2>2, <2>5 DEF Op, Stage, Good
  <2>7. TypeOK'
    BY <2>1, <2>3, <2>6 DEF TypeOK
  <2>8. SeatsDistinct'
    BY <2>3 DEF SeatsDistinct, Readable
  <2>9. SavingInv'
    BY <2>1, <2>2, <2>3, <2>4, <2>5 DEF SavingInv, Saving, Closed, Readable, Op
  <2>10. DrawingInv' /\ StampInv'
    BY <2>1, <2>2 DEF DrawingInv, Drawing, StampInv, At, Op
  <2> QED
    BY <2>7, <2>8, <2>9, <2>10
<1>6. CASE Open
  <2>1. op \in Op /\ op.stage = "open" /\ op # Null
    BY <1>6 DEF Open, At, TypeOK
  <2>2. /\ op' = [op EXCEPT !.stage = "write"] /\ mission' = Torn
        /\ UNCHANGED <<fencing, writing, stamp, issued, returned, restarted>>
    BY <1>6 DEF Open, Move, history
  <2>3. op' \in Op
    BY <2>1, <2>2 DEF Op, Stage
  <2>4. TypeOK'
    BY <2>2, <2>3 DEF TypeOK
  <2>5. SeatsDistinct'
    BY <2>2 DEF SeatsDistinct, Readable
  <2>6. SavingInv'
    BY <2>1, <2>2 DEF SavingInv, Saving, Op
  <2>7. DrawingInv' /\ StampInv'
    BY <2>1, <2>2 DEF DrawingInv, Drawing, StampInv, At, Op
  <2> QED
    BY <2>4, <2>5, <2>6, <2>7
<1>7. CASE Write
  <2>1. op \in Op /\ op.stage = "write" /\ op # Null /\ Good(op.rec)
    BY <1>7 DEF Write, At, TypeOK, SavingInv, Saving
  <2>2. /\ op' = [op EXCEPT !.stage = "event"] /\ mission' = op.rec
        /\ UNCHANGED <<fencing, writing, stamp, issued, returned, restarted>>
    BY <1>7 DEF Write, Move, history
  <2>3. op' \in Op
    BY <2>1, <2>2 DEF Op, Stage
  <2>4. TypeOK'
    BY <2>1, <2>2, <2>3 DEF TypeOK, Good
  <2>5. SeatsDistinct'
    BY <2>1, <2>2 DEF SeatsDistinct, Good
  <2>6. (DrawingInv /\ StampInv /\ SavingInv)'
    BY <2>1, <2>2 DEF DrawingInv, Drawing, StampInv, SavingInv, Saving, At, Op
  <2> QED
    BY <2>4, <2>5, <2>6
<1>8. ASSUME NEW a \in Seat, EndWrite(a) \/ \E t \in issued \union {Null} : Authorize(a, t)
      PROVE  ShapeInv'
  <2>1. UNCHANGED <<mission, fencing, op, stamp, issued, returned, restarted>>
    BY <1>8 DEF EndWrite, Authorize, files, history
  <2>2. writing' \in [Seat -> Nat]
    <3>1. CASE EndWrite(a)
      BY <3>1 DEF EndWrite, TypeOK
    <3>2. ASSUME NEW t \in issued \union {Null}, Authorize(a, t)
          PROVE  writing' \in [Seat -> Nat]
      <4>1. mission.token.gen \in Nat
        BY <3>2, ReadableIsGood DEF Authorize, Allowed, Good, Record, Token
      <4> QED
        BY <3>2, <4>1 DEF Authorize, TypeOK
    <3> QED
      BY <1>8, <3>1, <3>2
  <2>3. TypeOK'
    BY <2>1, <2>2 DEF TypeOK
  <2> QED
    BY <2>1, <2>3 DEF SeatsDistinct, DrawingInv, StampInv, SavingInv, Drawing,
                      Saving, At, Closed, Readable, Claimant
<1>9. CASE UNCHANGED vars
  BY <1>9 DEF vars, files, history, TypeOK, SeatsDistinct, DrawingInv, StampInv,
              SavingInv, Drawing, Saving, At, Closed, Readable, Claimant
<1> QED
  BY <1>1, <1>2, <1>3, <1>4, <1>5, <1>6, <1>7, <1>8, <1>9 DEF Next, Step

\* Both files, the operation in progress and the histories keep their types.
THEOREM SeatsTypeCorrect == Spec => []TypeOK
<1>1. ShapeInv => TypeOK
  BY DEF ShapeInv
<1> QED
  BY <1>1, ShapeInitially, ShapePreserved, PTL DEF Spec

\* After any sequence of handovers and recoveries, whoever crashes when, owner
\* and controller are two seats.
THEOREM SeatsStayApart == Spec => []SeatsDistinct
<1>1. ShapeInv => SeatsDistinct
  BY DEF ShapeInv
<1> QED
  BY <1>1, ShapeInitially, ShapePreserved, PTL DEF Spec

-----------------------------------------------------------------------------
(* Generations.                                                             *)

\* A record names as its owner the seat its token was issued to.
Backed(r) == r.token \in issued /\ r.owner = r.token.claimant

RecordsBacked == /\ Readable(mission) => Backed(mission)
                 /\ Saving => Backed(op.rec)

\* Whoever is writing was issued the generation it writes under.
WritersBacked ==
  \A a \in Seat : writing[a] # 0 =>
    \E t \in issued : t.gen = writing[a] /\ t.claimant = a

\* Until the clock restarts no generation is issued twice: the fencing file
\* carries the highest, and what Increment draws is above it.
Numbered ==
  ~restarted =>
    /\ \A t, u \in issued : t.gen = u.gen => t = u
    /\ fencing = Null => issued = {}
    /\ Readable(fencing) => \A t \in issued : t.gen <= fencing.gen
    /\ At("stamp") => \A t \in issued : t.gen < op.token.gen

\* The inductive invariant behind OneWriterPerGeneration and ChecksNameOneSeat.
FencedInv == ShapeInv /\ RecordsBacked /\ WritersBacked /\ Numbered

LEMMA FencedInitially == Init => FencedInv
<1> SUFFICES ASSUME Init PROVE FencedInv
  OBVIOUS
<1>1. ShapeInv
  BY ShapeInitially
<1>2. RecordsBacked /\ WritersBacked
  BY DEF Init, RecordsBacked, WritersBacked, Readable, Saving
<1>3. Numbered
  BY DEF Init, Numbered, Readable, At
<1> QED
  BY <1>1, <1>2, <1>3 DEF FencedInv

\* Steps after which no operation is drawing or saving.
LEMMA FencedWhenIdle ==
  ASSUME FencedInv, ShapeInv',
         op' = Null \/ (op' # Null /\ op'.stage \in {"check", "increment", "event"}),
         UNCHANGED <<mission, fencing, writing, issued, restarted>>
  PROVE  FencedInv'
<1>1. RecordsBacked' /\ WritersBacked'
  BY DEF FencedInv, RecordsBacked, WritersBacked, Readable, Backed, Saving
<1>2. Numbered'
  BY DEF FencedInv, Numbered, Readable, At
<1> QED
  BY <1>1, <1>2 DEF FencedInv

LEMMA FencedPreserved == FencedInv /\ [Next]_vars => FencedInv'
<1> SUFFICES ASSUME FencedInv, [Next]_vars PROVE FencedInv'
  OBVIOUS
<1> USE DEF FencedInv
<1>0. ShapeInv'
  BY ShapePreserved
<1>1. ASSUME NEW k \in Kind, NEW a \in Seat, NEW b \in Seat, Call(k, a, b)
      PROVE  FencedInv'
  <2>1. /\ op' = [kind |-> k, agent |-> a, peer |-> b, stage |-> "check",
                  rec |-> Null, token |-> Null]
        /\ UNCHANGED <<mission, fencing, writing, issued, restarted>>
    BY <1>1 DEF Call, files, history
  <2> QED
    BY <1>0, <2>1, FencedWhenIdle
<1>2. CASE Check
  <2>1. op \in Op /\ op # Null
    BY <1>2 DEF Check, At, ShapeInv, TypeOK
  <2>2. UNCHANGED <<mission, fencing, writing, issued, restarted>>
    BY <1>2 DEF Check, files, history
  <2>3. CASE op' = Null
    BY <1>0, <2>2, <2>3, FencedWhenIdle
  <2>4. CASE op' = [op EXCEPT !.stage = "increment", !.rec = mission]
    BY <1>0, <2>1, <2>2, <2>4, FencedWhenIdle DEF Op
  <2>5. CASE /\ Granted /\ op.kind = "close"
             /\ op' = [op EXCEPT !.stage = "open",
                         !.rec = CloseRecord]
    <3>1. Good(mission) /\ Backed(mission)
      BY <2>5, ReadableIsGood
         DEF Granted, InitGranted, HandoverGranted, RecoveryGranted, CloseGranted,
             RecordsBacked
    <3>2. /\ CloseRecord.token = mission.token
          /\ CloseRecord.owner = mission.owner
      BY <3>1 DEF Good, Record, CloseRecord
    <3>3. op'.rec = CloseRecord
      BY <2>1, <2>5 DEF Op
    <3>4. CloseRecord.token \in issued' /\ CloseRecord.owner = CloseRecord.token.claimant
      BY <2>2, <3>1, <3>2 DEF Backed
    <3>5. RecordsBacked'
      <4>1. (Readable(mission) => Backed(mission))'
        BY <2>2, <3>1 DEF Backed, Readable
      <4> QED
        BY <3>3, <3>4, <4>1 DEF RecordsBacked, Backed, Readable
    <3>6. WritersBacked'
      BY <2>2 DEF WritersBacked
    <3>7. Numbered'
      BY <2>1, <2>2, <2>5 DEF Numbered, Readable, At, Op
    <3> QED
      BY <1>0, <3>5, <3>6, <3>7
  <2> QED
    BY <1>2, <2>3, <2>4, <2>5 DEF Check, Return
<1>3. CASE Increment
  <2> DEFINE gen == IF Readable(fencing) THEN fencing.gen ELSE 0
             t   == [gen |-> gen + 1, claimant |-> Claimant, issued_at |-> stamp + 1]
  <2>1. op \in Op /\ op.stage = "increment" /\ op # Null
    BY <1>3 DEF Increment, At, ShapeInv, TypeOK
  <2>2. /\ op' = [op EXCEPT !.stage = "stamp", !.token = t]
        /\ fencing' = Torn /\ restarted' = (restarted \/ fencing = Torn)
        /\ UNCHANGED <<mission, writing, issued>>
    BY <1>3 DEF Increment
  <2>3. op'.stage = "stamp" /\ op'.token.gen = gen + 1
    BY <2>1, <2>2 DEF Op
  <2>4. RecordsBacked' /\ WritersBacked'
    BY <2>2, <2>3 DEF RecordsBacked, WritersBacked, Readable, Backed, Saving
  <2>5. ASSUME ~restarted' PROVE \A u \in issued : u.gen < gen + 1
    <3>1. ~restarted /\ fencing # Torn
      BY <2>2, <2>5 DEF ShapeInv, TypeOK
    <3>2. CASE fencing = Null
      BY <3>1, <3>2 DEF Numbered
    <3>3. CASE fencing # Null
      BY <3>1, <3>3 DEF Numbered, ShapeInv, TypeOK, Readable, Token
    <3> QED
      BY <3>2, <3>3
  <2>6. Numbered'
    BY <2>2, <2>3, <2>5, SeatAssumption DEF Numbered, Readable, At, ShapeInv, TypeOK
  <2> QED
    BY <1>0, <2>4, <2>6
<1>4. CASE IncrementTimesOut \/ Event \/ Crash
  <2>1. /\ op' = Null
        /\ UNCHANGED <<mission, fencing, writing, issued, restarted>>
    BY <1>4 DEF IncrementTimesOut, Event, Crash, Return, files, history
  <2> QED
    BY <1>0, <2>1, FencedWhenIdle
<1>5. CASE Stamp
  <2>1. /\ op \in Op /\ op.stage = "stamp" /\ op # Null
        /\ op.token \in Token /\ op.token.claimant = Claimant
    BY <1>5 DEF Stamp, At, ShapeInv, TypeOK, StampInv
  <2>2. PICK r : /\ op' = [op EXCEPT !.stage = "open", !.rec = r]
                 /\ r = NewRecord
    BY <1>5 DEF Stamp
  <2>3. /\ fencing' = op.token /\ issued' = issued \union {op.token}
        /\ UNCHANGED <<mission, writing, restarted>>
    BY <1>5 DEF Stamp
  <2>4. /\ op.kind # "close"
        /\ op.kind # "init" => Good(op.rec)
    BY <2>1 DEF ShapeInv, DrawingInv, Drawing
  <2>5. r.token = op.token /\ r.owner = Claimant
    <3>1. CASE op.kind = "init"
      BY <2>2, <3>1 DEF NewRecord, InitRecord, Claimant
    <3>2. CASE op.kind = "handover"
      BY <2>2, <2>4, <3>2 DEF NewRecord, HandoverRecord, Claimant, Good, Record
    <3>3. CASE op.kind = "recovery"
      BY <2>2, <2>4, <3>3 DEF NewRecord, RecoveryRecord, Claimant, Good, Record
    <3> QED
      BY <2>1, <2>4, <3>1, <3>2, <3>3 DEF Op, Kind
  <2>6. op'.stage = "open" /\ op'.rec = r
    BY <2>1, <2>2 DEF Op
  <2>7. RecordsBacked'
    BY <2>1, <2>3, <2>5, <2>6 DEF RecordsBacked, Backed, Readable, Saving
  <2>8. WritersBacked'
    BY <2>3 DEF WritersBacked
  <2>9. Numbered'
    <3>1. CASE restarted
      BY <2>3, <3>1 DEF Numbered
    <3>2. CASE ~restarted
      <4>1. \A t \in issued : t \in Token /\ t.gen < op.token.gen
        BY <2>1, <3>2 DEF Numbered, At, ShapeInv, TypeOK
      <4>2. \A t, u \in issued' : t.gen = u.gen => t = u
        BY <2>1, <2>3, <3>2, <4>1 DEF Numbered, Token
      <4>3. \A t \in issued' : t.gen <= op.token.gen
        BY <2>1, <2>3, <4>1 DEF Token
      <4>4. fencing' # Null /\ op'.stage # "stamp"
        BY <2>1, <2>3, <2>6, SeatAssumption
      <4> QED
        BY <2>3, <4>2, <4>3, <4>4 DEF Numbered, At
    <3> QED
      BY <3>1, <3>2
  <2> QED
    BY <1>0, <2>7, <2>8, <2>9
<1>6. CASE Open
  <2>1. op \in Op /\ op.stage = "open" /\ op # Null
    BY <1>6 DEF Open, At, ShapeInv, TypeOK
  <2>2. /\ op' = [op EXCEPT !.stage = "write"] /\ mission' = Torn
        /\ UNCHANGED <<fencing, writing, issued, restarted>>
    BY <1>6 DEF Open, Move, history
  <2>3. op'.stage = "write" /\ op'.rec = op.rec
    BY <2>1, <2>2 DEF Op
  <2>4. RecordsBacked' /\ WritersBacked'
    BY <2>1, <2>2, <2>3 DEF RecordsBacked, WritersBacked, Readable, Backed, Saving
  <2>5. Numbered'
    BY <2>2, <2>3 DEF Numbered, Readable, At
  <2> QED
    BY <1>0, <2>4, <2>5
<1>7. CASE Write
  <2>1. op \in Op /\ op.stage = "write" /\ op # Null
    BY <1>7 DEF Write, At, ShapeInv, TypeOK
  <2>2. /\ op' = [op EXCEPT !.stage = "event"] /\ mission' = op.rec
        /\ UNCHANGED <<fencing, writing, issued, restarted>>
    BY <1>7 DEF Write, Move, history
  <2>3. op'.stage = "event"
    BY <2>1, <2>2 DEF Op
  <2>4. RecordsBacked' /\ WritersBacked'
    BY <2>1, <2>2, <2>3 DEF RecordsBacked, WritersBacked, Backed, Saving
  <2>5. Numbered'
    BY <2>2, <2>3 DEF Numbered, Readable, At
  <2> QED
    BY <1>0, <2>4, <2>5
<1>8. ASSUME NEW a \in Seat, EndWrite(a) \/ \E t \in issued \union {Null} : Authorize(a, t)
      PROVE  FencedInv'
  <2>1. UNCHANGED <<mission, fencing, op, issued, restarted>>
    BY <1>8 DEF EndWrite, Authorize, files, history
  <2>2. RecordsBacked' /\ Numbered'
    BY <2>1 DEF RecordsBacked, Numbered, Readable, Backed, Saving, At
  <2>3. WritersBacked'
    <3>1. CASE EndWrite(a)
      BY <2>1, <3>1 DEF EndWrite, WritersBacked, ShapeInv, TypeOK
    <3>2. ASSUME NEW t \in issued \union {Null}, Authorize(a, t)
          PROVE  WritersBacked'
      <4>1. /\ a = mission.owner /\ Backed(mission)
            /\ writing' = [writing EXCEPT ![a] = mission.token.gen]
        BY <3>2 DEF Authorize, Allowed, RecordsBacked
      <4> QED
        BY <2>1, <4>1 DEF WritersBacked, Backed, ShapeInv, TypeOK
    <3> QED
      BY <1>8, <3>1, <3>2
  <2> QED
    BY <1>0, <2>2, <2>3
<1>9. CASE UNCHANGED vars
  BY <1>0, <1>9 DEF vars, files, history, RecordsBacked, WritersBacked, Numbered,
                    Readable, Backed, Saving, At
<1> QED
  BY <1>1, <1>2, <1>3, <1>4, <1>5, <1>6, <1>7, <1>8, <1>9 DEF Next, Step

\* Two seats whose writes were allowed at different times never write under
\* one generation.
THEOREM WritersApart == Spec => []OneWriterPerGeneration
<1>1. FencedInv => OneWriterPerGeneration
  <2> SUFFICES ASSUME FencedInv, ~restarted,
                      NEW a \in Seat, NEW b \in Seat,
                      writing[a] # 0, writing[a] = writing[b]
               PROVE  a = b
    BY DEF OneWriterPerGeneration
  <2>1. PICK t \in issued : t.gen = writing[a] /\ t.claimant = a
    BY DEF FencedInv, WritersBacked
  <2>2. PICK u \in issued : u.gen = writing[b] /\ u.claimant = b
    BY DEF FencedInv, WritersBacked
  <2> QED
    BY <2>1, <2>2 DEF FencedInv, Numbered
<1> QED
  BY <1>1, FencedInitially, FencedPreserved, PTL DEF Spec

\* Whatever a crash left in the two files, a token that passes both checks is
\* the active owner's.
THEOREM ChecksAgreeOnSeat == Spec => []ChecksNameOneSeat
<1>1. FencedInv => ChecksNameOneSeat
  <2> SUFFICES ASSUME FencedInv, ~restarted, NEW a \in Seat, NEW t \in issued,
                      ClockAccepts(t), Allowed(a, TRUE, t)
               PROVE  a = t.claimant
    BY DEF ChecksNameOneSeat
  <2>1. a = mission.owner /\ Backed(mission)
    BY DEF Allowed, FencedInv, RecordsBacked
  <2>2. t.gen = mission.token.gen
    BY SeatAssumption DEF Allowed, FencedInv, ShapeInv, TypeOK
  <2> QED
    BY <2>1, <2>2 DEF Backed, FencedInv, Numbered
<1> QED
  BY <1>1, FencedInitially, FencedPreserved, PTL DEF Spec

-----------------------------------------------------------------------------
(* Closing.                                                                 *)

\* What is true from the first moment a mission is closed, also while
\* close_mission rewrites it and after a crash has left it unreadable.
Sealed ==
  /\ mission # Null
  /\ Readable(mission) => Closed
  /\ ~Drawing
  /\ Saving => op.kind = "close"

LEMMA ClosedIsSealed == ShapeInv /\ Closed => Sealed
  BY SeatAssumption
  DEF ShapeInv, DrawingInv, SavingInv, Drawing, Saving, Sealed, Closed, Readable,
      TypeOK, Op, Stage

LEMMA SealedPreserved == ShapeInv /\ Sealed /\ [Next]_vars => Sealed'
<1> SUFFICES ASSUME ShapeInv, Sealed, [Next]_vars PROVE Sealed'
  OBVIOUS
<1> USE DEF Sealed
<1>1. ASSUME NEW k \in Kind, NEW a \in Seat, NEW b \in Seat, Call(k, a, b)
      PROVE  Sealed'
  <2>1. /\ op' = [kind |-> k, agent |-> a, peer |-> b, stage |-> "check",
                  rec |-> Null, token |-> Null]
        /\ UNCHANGED mission
    BY <1>1 DEF Call, files
  <2> QED
    BY <2>1 DEF Drawing, Saving, Closed, Readable
<1>2. CASE Check
  <2>1. op \in Op /\ op # Null /\ UNCHANGED mission
    BY <1>2 DEF Check, At, ShapeInv, TypeOK, files
  <2>2. ~(Granted /\ op.kind # "close")
    BY <2>1
    DEF Granted, InitGranted, HandoverGranted, RecoveryGranted, CloseGranted, Op,
        Kind
  <2>3. CASE op' = Null
    BY <2>1, <2>3 DEF Drawing, Saving, Closed, Readable
  <2>4. CASE /\ op.kind = "close"
             /\ op' = [op EXCEPT !.stage = "open",
                         !.rec = CloseRecord]
    BY <2>1, <2>4 DEF Drawing, Saving, Closed, Readable, Op, CloseRecord
  <2> QED
    BY <1>2, <2>2, <2>3, <2>4 DEF Check, Return
<1>3. CASE Increment \/ IncrementTimesOut \/ Stamp
  BY <1>3 DEF Increment, IncrementTimesOut, Stamp, At, Drawing
<1>4. CASE Open
  <2>1. op \in Op /\ op.stage = "open" /\ op # Null
    BY <1>4 DEF Open, At, ShapeInv, TypeOK
  <2>2. op' = [op EXCEPT !.stage = "write"] /\ mission' = Torn
    BY <1>4 DEF Open, Move
  <2>3. op'.stage = "write" /\ op'.kind = op.kind
    BY <2>1, <2>2 DEF Op
  <2> QED
    BY <2>1, <2>2, <2>3, SeatAssumption DEF Drawing, Saving, Readable
<1>5. CASE Write
  <2>1. /\ op \in Op /\ op.stage = "write" /\ op # Null
        /\ op.rec \in Record /\ op.rec.state = "TERMINATED"
    BY <1>5 DEF Write, At, ShapeInv, TypeOK, SavingInv, Saving, Good
  <2>2. op' = [op EXCEPT !.stage = "event"] /\ mission' = op.rec
    BY <1>5 DEF Write, Move
  <2>3. op'.stage = "event"
    BY <2>1, <2>2 DEF Op
  <2> QED
    BY <2>1, <2>2, <2>3, SeatAssumption DEF Drawing, Saving, Readable, Closed
<1>6. CASE Event \/ Crash
  <2>1. op' = Null /\ UNCHANGED mission
    BY <1>6 DEF Event, Crash, Return, files
  <2> QED
    BY <2>1 DEF Drawing, Saving, Closed, Readable
<1>7. ASSUME NEW a \in Seat, EndWrite(a) \/ \E t \in issued \union {Null} : Authorize(a, t)
      PROVE  Sealed'
  <2>1. UNCHANGED <<mission, op>>
    BY <1>7 DEF EndWrite, Authorize, files
  <2> QED
    BY <2>1 DEF Drawing, Saving, Closed, Readable
<1>8. CASE UNCHANGED vars
  BY <1>8 DEF vars, files, Drawing, Saving, Closed, Readable
<1> QED
  BY <1>1, <1>2, <1>3, <1>4, <1>5, <1>6, <1>7, <1>8 DEF Next, Step

\* A closed mission is never active again: a later handover, recovery or init
\* is refused, and a repeated close leaves it closed or unreadable.
THEOREM ClosedStaysClosed == Spec => ClosedForGood
<1>1. Spec => []ShapeInv
  BY ShapeInitially, ShapePreserved, PTL DEF Spec
<1>2. Sealed => (Readable(mission) => Closed)
  BY DEF Sealed
<1> QED
  BY <1>1, <1>2, ClosedIsSealed, SealedPreserved, PTL DEF Spec, ClosedForGood

-----------------------------------------------------------------------------
(* What cannot be undone.                                                   *)

\* An operation goes on from the record it has read, and a record that is about
\* to replace a readable one keeps an empty controller's seat empty.
HeldInv ==
  /\ Drawing => mission = IF op.kind = "init" THEN Null ELSE op.rec
  /\ At("open") => (ControllerGone => op.rec.controller = Unassigned)

LEMMA HeldPreserved ==
  ASSUME ShapeInv, HeldInv, [Next]_vars PROVE HeldInv'
<1>0. op \in Op \union {Null} /\ mission \in Record \union {Null, Torn}
  BY DEF ShapeInv, TypeOK
<1>1. ASSUME NEW k \in Kind, NEW a \in Seat, NEW b \in Seat, Call(k, a, b)
      PROVE  HeldInv'
  BY <1>1 DEF Call, HeldInv, Drawing, At
<1>2. CASE Check
  <2>1. op \in Op /\ op # Null /\ UNCHANGED mission
    BY <1>0, <1>2 DEF Check, At, files
  <2>2. CASE op' = Null
    BY <2>2 DEF HeldInv, Drawing, At
  <2>3. CASE Granted /\ op' = [op EXCEPT !.stage = "increment", !.rec = mission]
    BY <2>1, <2>3 DEF HeldInv, Drawing, At, Op, Granted, InitGranted
  <2>4. CASE op' = [op EXCEPT !.stage = "open", !.rec = CloseRecord]
    <3>1. op'.stage = "open" /\ op'.rec = CloseRecord
      BY <2>1, <2>4 DEF Op
    <3>2. ControllerGone => CloseRecord.controller = Unassigned
      BY <1>0 DEF ControllerGone, CloseRecord, Readable, Record
    <3> QED
      BY <2>1, <3>1, <3>2 DEF HeldInv, Drawing, At, ControllerGone, Readable
  <2> QED
    BY <1>2, <2>2, <2>3, <2>4 DEF Check, Return
<1>3. CASE Increment
  <2>1. op \in Op /\ op # Null /\ op.stage = "increment" /\ UNCHANGED mission
    BY <1>0, <1>3 DEF Increment, At
  <2>2. op'.stage = "stamp" /\ op'.kind = op.kind /\ op'.rec = op.rec
    BY <1>3, <2>1 DEF Increment, Op
  <2> QED
    BY <2>1, <2>2 DEF HeldInv, Drawing, At
<1>4. CASE Stamp
  <2>1. op \in Op /\ op # Null /\ op.stage = "stamp" /\ UNCHANGED mission
    BY <1>0, <1>4 DEF Stamp, At
  <2>2. op'.stage = "open" /\ op'.rec = NewRecord
    BY <1>4, <2>1 DEF Stamp, Op
  <2>3. ASSUME ControllerGone PROVE NewRecord.controller = Unassigned
    <3>1. /\ op.kind \in {"init", "handover", "recovery"} /\ op.peer \in Seat
          /\ IF op.kind = "init" THEN mission = Null ELSE op.rec = mission
      BY <2>1 DEF HeldInv, ShapeInv, DrawingInv, Drawing, Op, Kind
    <3>2. mission # Null /\ mission.controller = Unassigned /\ mission \in Record
      BY <1>0, <2>3 DEF ControllerGone, Readable
    <3> QED
      BY <3>1, <3>2, SeatAssumption DEF NewRecord, HandoverRecord, RecoveryRecord, Record
  <2> QED
    BY <2>1, <2>2, <2>3 DEF HeldInv, Drawing, At, ControllerGone, Readable
<1>5. CASE Open
  <2>1. op \in Op /\ op # Null
    BY <1>0, <1>5 DEF Open, At
  <2>2. op'.stage = "write"
    BY <1>5, <2>1 DEF Open, Move, Op
  <2> QED
    BY <2>2 DEF HeldInv, Drawing, At
<1>6. CASE Write
  <2>1. op \in Op /\ op # Null
    BY <1>0, <1>6 DEF Write, At
  <2>2. op'.stage = "event"
    BY <1>6, <2>1 DEF Write, Move, Op
  <2> QED
    BY <2>2 DEF HeldInv, Drawing, At
<1>7. CASE IncrementTimesOut \/ Event \/ Crash
  <2>1. op' = Null
    BY <1>7 DEF IncrementTimesOut, Event, Crash, Return
  <2> QED
    BY <2>1 DEF HeldInv, Drawing, At
<1>8. ASSUME NEW a \in Seat, EndWrite(a) \/ \E t \in issued \union {Null} : Authorize(a, t)
      PROVE  HeldInv'
  <2>1. UNCHANGED <<mission, op>>
    BY <1>8 DEF EndWrite, Authorize, files
  <2> QED
    BY <2>1 DEF HeldInv, Drawing, At, ControllerGone, Readable
<1>9. CASE UNCHANGED vars
  BY <1>9 DEF vars, files, HeldInv, Drawing, At, ControllerGone, Readable
<1> QED
  BY <1>1, <1>2, <1>3, <1>4, <1>5, <1>6, <1>7, <1>8, <1>9 DEF Next, Step

\* What is true from the moment a recovery is recorded.
Spent ==
  /\ mission # Null
  /\ Readable(mission) => mission.controller = Unassigned
  /\ Drawing => op.kind # "init" /\ op.rec.controller = Unassigned
  /\ Saving => op.rec.controller = Unassigned

LEMMA GoneIsSpent == ShapeInv /\ HeldInv /\ ControllerGone => Spent
<1> SUFFICES ASSUME ShapeInv, HeldInv, ControllerGone PROVE Spent
  OBVIOUS
<1>1. mission # Null /\ mission # Torn /\ mission.controller = Unassigned
  BY DEF ControllerGone, Readable
<1>2. ASSUME Drawing PROVE op.kind # "init" /\ op.rec.controller = Unassigned
  BY <1>1, <1>2 DEF HeldInv
<1>3. ASSUME Saving PROVE op.rec.controller = Unassigned
  BY <1>1, <1>3 DEF HeldInv, ShapeInv, SavingInv, Saving, At, ControllerGone, Readable
<1> QED
  BY <1>1, <1>2, <1>3 DEF Spent

LEMMA SpentPreserved ==
  ASSUME ShapeInv, Spent, [Next]_vars PROVE Spent'
<1>0. op \in Op \union {Null} /\ mission \in Record \union {Null, Torn}
  BY DEF ShapeInv, TypeOK
<1>1. ASSUME NEW k \in Kind, NEW a \in Seat, NEW b \in Seat, Call(k, a, b)
      PROVE  Spent'
  BY <1>1 DEF Call, files, Spent, Drawing, Saving, Readable
<1>2. CASE Check
  <2>1. op \in Op /\ op # Null /\ UNCHANGED mission
    BY <1>0, <1>2 DEF Check, At, files
  <2>2. CASE op' = Null
    BY <2>1, <2>2 DEF Spent, Drawing, Saving, Readable
  <2>3. ASSUME Granted PROVE /\ op.kind # "init" /\ Readable(mission)
                             /\ mission.controller = Unassigned
    BY <2>1, <2>3 DEF Spent, Granted, InitGranted, HandoverGranted, RecoveryGranted, CloseGranted
  <2>4. CASE Granted /\ op' = [op EXCEPT !.stage = "increment", !.rec = mission]
    <3>1. op'.stage = "increment" /\ op'.kind = op.kind /\ op'.rec = mission
      BY <2>1, <2>4 DEF Op
    <3> QED
      BY <2>1, <2>3, <2>4, <3>1 DEF Spent, Drawing, Saving, Readable
  <2>5. CASE Granted /\ op' = [op EXCEPT !.stage = "open", !.rec = CloseRecord]
    <3>1. op'.stage = "open" /\ op'.rec = CloseRecord
      BY <2>1, <2>5 DEF Op
    <3>2. CloseRecord.controller = Unassigned
      BY <1>0, <2>3, <2>5 DEF CloseRecord, Readable, Record
    <3> QED
      BY <2>1, <3>1, <3>2 DEF Spent, Drawing, Saving, Readable
  <2> QED
    BY <1>2, <2>2, <2>4, <2>5 DEF Check, Return
<1>3. CASE Increment
  <2>1. op \in Op /\ op # Null /\ op.stage = "increment" /\ UNCHANGED mission
    BY <1>0, <1>3 DEF Increment, At
  <2>2. op'.stage = "stamp" /\ op'.kind = op.kind /\ op'.rec = op.rec
    BY <1>3, <2>1 DEF Increment, Op
  <2> QED
    BY <2>1, <2>2 DEF Spent, Drawing, Saving, Readable
<1>4. CASE Stamp
  <2>1. op \in Op /\ op # Null /\ op.stage = "stamp" /\ UNCHANGED mission
    BY <1>0, <1>4 DEF Stamp, At
  <2>2. op'.stage = "open" /\ op'.rec = NewRecord
    BY <1>4, <2>1 DEF Stamp, Op
  <2>3. /\ op.kind \in {"handover", "recovery"} /\ op.peer \in Seat /\ op.rec \in Record
        /\ op.rec.controller = Unassigned
    BY <2>1 DEF Spent, ShapeInv, DrawingInv, Drawing, Good, Op, Kind
  <2>4. NewRecord.controller = Unassigned
    BY <2>3, SeatAssumption DEF NewRecord, HandoverRecord, RecoveryRecord, Record
  <2> QED
    BY <2>1, <2>2, <2>4 DEF Spent, Drawing, Saving, Readable
<1>5. CASE Open
  <2>1. op \in Op /\ op # Null /\ op.stage = "open"
    BY <1>0, <1>5 DEF Open, At
  <2>2. op'.stage = "write" /\ op'.rec = op.rec /\ mission' = Torn
    BY <1>5, <2>1 DEF Open, Move, Op
  <2> QED
    BY <2>1, <2>2, SeatAssumption DEF Spent, Drawing, Saving, Readable
<1>6. CASE Write
  <2>1. op \in Op /\ op # Null /\ op.stage = "write"
    BY <1>0, <1>6 DEF Write, At
  <2>2. op'.stage = "event" /\ mission' = op.rec /\ op.rec \in Record
    BY <1>6, <2>1 DEF Write, Move, Op, ShapeInv, SavingInv, Saving, Good
  <2> QED
    BY <2>1, <2>2, SeatAssumption DEF Spent, Drawing, Saving
<1>7. CASE IncrementTimesOut \/ Event \/ Crash
  <2>1. op' = Null /\ UNCHANGED mission
    BY <1>7 DEF IncrementTimesOut, Event, Crash, Return, files
  <2> QED
    BY <2>1 DEF Spent, Drawing, Saving, Readable
<1>8. ASSUME NEW a \in Seat, EndWrite(a) \/ \E t \in issued \union {Null} : Authorize(a, t)
      PROVE  Spent'
  <2>1. UNCHANGED <<mission, op>>
    BY <1>8 DEF EndWrite, Authorize, files
  <2> QED
    BY <2>1 DEF Spent, Drawing, Saving, Readable
<1>9. CASE UNCHANGED vars
  BY <1>9 DEF vars, files, Spent, Drawing, Saving, Readable
<1> QED
  BY <1>1, <1>2, <1>3, <1>4, <1>5, <1>6, <1>7, <1>8, <1>9 DEF Next, Step

\* A mission can be recovered once: afterwards its controller's seat stays empty
\* through every handover, recovery and close.
THEOREM RecoveryHappensOnce == Spec => RecoveryIsLast
<1>1. Init => ShapeInv /\ HeldInv
  BY ShapeInitially DEF Init, HeldInv, Drawing, At
<1>2. ShapeInv /\ HeldInv /\ [Next]_vars => ShapeInv' /\ HeldInv'
  BY ShapePreserved, HeldPreserved
<1>3. ShapeInv /\ Spent /\ [Next]_vars => Spent'
  BY SpentPreserved
<1>4. Spent => (Readable(mission) => ControllerGone)
  BY DEF Spent, ControllerGone
<1> QED
  BY <1>1, <1>2, <1>3, <1>4, GoneIsSpent, PTL DEF Spec, RecoveryIsLast

\* What is true from the moment a write of the record was cut short.
Lost == mission = Torn /\ ~Drawing /\ ~Saving

LEMMA LostPreserved ==
  ASSUME ShapeInv, Lost, [Next]_vars PROVE Lost'
<1>1. ASSUME NEW k \in Kind, NEW a \in Seat, NEW b \in Seat, Call(k, a, b)
      PROVE  Lost'
  BY <1>1 DEF Call, files, Lost, Drawing, Saving
<1>2. CASE Check
  <2>1. ~Granted
    BY SeatAssumption DEF Lost, Granted, InitGranted, HandoverGranted, RecoveryGranted,
                          CloseGranted, Readable
  <2> QED
    BY <1>2, <2>1 DEF Check, Return, files, Lost, Drawing, Saving
<1>3. CASE Increment \/ IncrementTimesOut \/ Stamp \/ Open \/ Write
  BY <1>3 DEF Increment, IncrementTimesOut, Stamp, Open, Write, At, Lost, Drawing, Saving
<1>4. CASE Event \/ Crash
  BY <1>4 DEF Event, Crash, Return, files, Lost, Drawing, Saving
<1>5. ASSUME NEW a \in Seat, EndWrite(a) \/ \E t \in issued \union {Null} : Authorize(a, t)
      PROVE  Lost'
  BY <1>5 DEF EndWrite, Authorize, files, Lost, Drawing, Saving
<1>6. CASE UNCHANGED vars
  BY <1>6 DEF vars, files, Lost, Drawing, Saving
<1> QED
  BY <1>1, <1>2, <1>3, <1>4, <1>5, <1>6 DEF Next, Step

\* A mission record cut short in the middle is never readable or replaced again.
THEOREM CutShortStaysLost == Spec => CutShortIsLost
<1>1. Spec => []ShapeInv
  BY ShapeInitially, ShapePreserved, PTL DEF Spec
<1>2. mission = Torn /\ op = Null => Lost
  BY DEF Lost, Drawing, Saving
<1>3. ShapeInv /\ Lost /\ [Next]_vars => Lost'
  BY LostPreserved
<1>4. Lost => mission = Torn
  BY DEF Lost
<1> QED
  BY <1>1, <1>2, <1>3, <1>4, PTL DEF Spec, CutShortIsLost

-----------------------------------------------------------------------------
(* Results that were returned.                                              *)

\* The token an operation will return is the one in the record it writes.
TokenInv ==
  /\ At("check") => op.token = Null
  /\ Saving /\ op.token # Null => op.rec.token = op.token
  /\ At("event") => /\ mission = op.rec /\ mission \in Record
                    /\ op.token # Null => op.rec.token = op.token

\* Nothing that was returned is ahead of the file, or of the record about to
\* replace it.
ResultsCovered ==
  ~restarted =>
    /\ \A t \in returned : /\ mission # Null
                           /\ Readable(mission) => mission.token.gen >= t.gen
    /\ Saving => \A t \in returned : op.rec.token.gen >= t.gen

\* The inductive invariant behind ReturnedIsKept.
ResultInv == FencedInv /\ TokenInv /\ returned \subseteq issued /\ ResultsCovered

LEMMA ResultInitially == Init => ResultInv
<1> SUFFICES ASSUME Init PROVE ResultInv
  OBVIOUS
<1>1. FencedInv
  BY FencedInitially
<1>2. TokenInv /\ returned \subseteq issued /\ ResultsCovered
  BY DEF Init, TokenInv, ResultsCovered, At, Saving
<1> QED
  BY <1>1, <1>2 DEF ResultInv

LEMMA ResultPreserved == ResultInv /\ [Next]_vars => ResultInv'
<1> SUFFICES ASSUME ResultInv, [Next]_vars PROVE ResultInv'
  OBVIOUS
<1> USE DEF ResultInv
<1>0. FencedInv' /\ TypeOK /\ TypeOK'
  BY FencedPreserved DEF FencedInv, ShapeInv
<1>1. ASSUME NEW k \in Kind, NEW a \in Seat, NEW b \in Seat, Call(k, a, b)
      PROVE  ResultInv'
  <2>1. /\ op' = [kind |-> k, agent |-> a, peer |-> b, stage |-> "check",
                  rec |-> Null, token |-> Null]
        /\ UNCHANGED <<mission, issued, returned, restarted>>
    BY <1>1 DEF Call, files, history
  <2>2. TokenInv'
    BY <2>1 DEF TokenInv, At, Saving
  <2>3. ResultsCovered'
    BY <2>1 DEF ResultsCovered, Readable, Saving
  <2> QED
    BY <1>0, <2>1, <2>2, <2>3
<1>2. CASE Check
  <2>1. /\ op \in Op /\ op # Null /\ op.token = Null
        /\ UNCHANGED <<mission, issued, returned, restarted>>
    BY <1>0, <1>2 DEF Check, At, TypeOK, TokenInv, files, history
  <2>2. CASE op' = Null
    BY <1>0, <2>1, <2>2 DEF TokenInv, ResultsCovered, Readable, At, Saving
  <2>3. CASE op' = [op EXCEPT !.stage = "increment", !.rec = mission]
    <3>1. op'.stage = "increment"
      BY <2>1, <2>3 DEF Op
    <3> QED
      BY <1>0, <2>1, <3>1 DEF TokenInv, ResultsCovered, Readable, At, Saving
  <2>4. CASE /\ Granted /\ op.kind = "close"
             /\ op' = [op EXCEPT !.stage = "open",
                         !.rec = CloseRecord]
    <3>1. Good(mission) /\ Readable(mission)
      BY <2>4, ReadableIsGood
      DEF Granted, InitGranted, HandoverGranted, RecoveryGranted, CloseGranted,
          FencedInv
    <3>2. CloseRecord.token = mission.token
      BY <3>1 DEF Good, Record, CloseRecord
    <3>3. op'.stage = "open" /\ op'.token = Null /\ op'.rec.token = mission.token
      BY <2>1, <2>4, <3>2 DEF Op
    <3>4. TokenInv'
      BY <3>3 DEF TokenInv, At, Saving
    <3>5. ResultsCovered'
      BY <2>1, <3>1, <3>3 DEF ResultsCovered, Readable, Saving
    <3> QED
      BY <1>0, <2>1, <3>4, <3>5
  <2> QED
    BY <1>2, <2>2, <2>3, <2>4 DEF Check, Return
<1>3. CASE Increment
  <2>1. /\ op \in Op /\ op # Null /\ op'.stage = "stamp"
        /\ restarted => restarted'
        /\ UNCHANGED <<mission, issued, returned>>
    BY <1>0, <1>3 DEF Increment, At, TypeOK, Op
  <2> QED
    BY <1>0, <2>1 DEF TokenInv, ResultsCovered, Readable, At, Saving
<1>4. CASE IncrementTimesOut \/ Crash
  <2>1. op' = Null /\ UNCHANGED <<mission, issued, returned, restarted>>
    BY <1>4 DEF IncrementTimesOut, Crash, Return, files, history
  <2> QED
    BY <1>0, <2>1 DEF TokenInv, ResultsCovered, Readable, At, Saving
<1>5. CASE Stamp
  <2>1. /\ op \in Op /\ op.stage = "stamp" /\ op # Null /\ op.token \in Token
    BY <1>0, <1>5 DEF Stamp, At, TypeOK, FencedInv, ShapeInv, StampInv
  <2>2. PICK r : /\ op' = [op EXCEPT !.stage = "open", !.rec = r]
                 /\ r = NewRecord
    BY <1>5 DEF Stamp
  <2>3. /\ issued' = issued \union {op.token}
        /\ UNCHANGED <<mission, returned, restarted>>
    BY <1>5 DEF Stamp
  <2>4. /\ op.kind # "close"
        /\ op.kind # "init" => Good(op.rec)
    BY <2>1 DEF FencedInv, ShapeInv, DrawingInv, Drawing
  <2>5. r.token = op.token
    <3>1. CASE op.kind = "init"
      BY <2>2, <3>1 DEF NewRecord, InitRecord
    <3>2. CASE op.kind = "handover"
      BY <2>2, <2>4, <3>2 DEF NewRecord, HandoverRecord, Good, Record
    <3>3. CASE op.kind = "recovery"
      BY <2>2, <2>4, <3>3 DEF NewRecord, RecoveryRecord, Good, Record
    <3> QED
      BY <2>1, <2>4, <3>1, <3>2, <3>3 DEF Op, Kind
  <2>6. op'.stage = "open" /\ op'.rec.token = op.token /\ op'.token = op.token
    BY <2>1, <2>2, <2>5 DEF Op
  <2>7. TokenInv'
    BY <2>6 DEF TokenInv, At, Saving
  <2>8. ASSUME ~restarted, NEW t \in returned PROVE op.token.gen >= t.gen
    <3>1. t.gen < op.token.gen
      BY <2>1, <2>8 DEF FencedInv, Numbered, At
    <3> QED
      BY <1>0, <2>1, <3>1 DEF TypeOK, Token
  <2>9. ResultsCovered'
    BY <2>3, <2>6, <2>8 DEF ResultsCovered, Readable, Saving
  <2> QED
    BY <1>0, <2>3, <2>7, <2>9
<1>6. CASE Open
  <2>1. op \in Op /\ op.stage = "open" /\ op # Null
    BY <1>0, <1>6 DEF Open, At, TypeOK
  <2>2. /\ op' = [op EXCEPT !.stage = "write"] /\ mission' = Torn
        /\ UNCHANGED <<issued, returned, restarted>>
    BY <1>6 DEF Open, Move, history
  <2>3. op'.stage = "write" /\ op'.rec = op.rec /\ op'.token = op.token
    BY <2>1, <2>2 DEF Op
  <2> QED
    BY <1>0, <2>1, <2>2, <2>3, SeatAssumption
    DEF TokenInv, ResultsCovered, Readable, At, Saving
<1>7. CASE Write
  <2>1. /\ op \in Op /\ op.stage = "write" /\ op # Null /\ op.rec \in Record
    BY <1>0, <1>7 DEF Write, At, TypeOK, FencedInv, ShapeInv, SavingInv, Saving, Good
  <2>2. /\ op' = [op EXCEPT !.stage = "event"] /\ mission' = op.rec
        /\ UNCHANGED <<issued, returned, restarted>>
    BY <1>7 DEF Write, Move, history
  <2>3. op'.stage = "event" /\ op'.rec = op.rec /\ op'.token = op.token
    BY <2>1, <2>2 DEF Op
  <2> QED
    BY <1>0, <2>1, <2>2, <2>3, SeatAssumption
    DEF TokenInv, ResultsCovered, Readable, At, Saving
<1>8. CASE Event
  <2>1. /\ op # Null /\ op.stage = "event" /\ op' = Null
        /\ returned' \subseteq returned \union ({op.token} \ {Null})
        /\ UNCHANGED <<mission, issued, restarted>>
    BY <1>8 DEF Event, At, Return, files
  <2>2. /\ mission \in Record /\ mission # Null /\ Readable(mission)
        /\ op.token # Null => mission.token = op.token
    BY <2>1, SeatAssumption DEF TokenInv, At, Readable
  <2>3. mission.token \in issued /\ mission.token.gen \in Nat
    BY <2>2 DEF FencedInv, RecordsBacked, Backed, Record, Token
  <2>4. returned' \subseteq issued'
    BY <2>1, <2>2, <2>3
  <2>5. ResultsCovered'
    BY <2>1, <2>2, <2>3 DEF ResultsCovered, Readable, Saving
  <2> QED
    BY <1>0, <2>1, <2>4, <2>5 DEF TokenInv, At, Saving
<1>9. ASSUME NEW a \in Seat, EndWrite(a) \/ \E t \in issued \union {Null} : Authorize(a, t)
      PROVE  ResultInv'
  <2>1. UNCHANGED <<mission, op, issued, returned, restarted>>
    BY <1>9 DEF EndWrite, Authorize, files, history
  <2> QED
    BY <1>0, <2>1 DEF TokenInv, ResultsCovered, Readable, At, Saving
<1>10. CASE UNCHANGED vars
  <2>1. UNCHANGED <<mission, op, issued, returned, restarted>>
    BY <1>10 DEF vars, files, history
  <2> QED
    BY <1>0, <2>1 DEF TokenInv, ResultsCovered, Readable, At, Saving
<1> QED
  BY <1>1, <1>2, <1>3, <1>4, <1>5, <1>6, <1>7, <1>8, <1>9, <1>10 DEF Next, Step

\* What a transfer has returned is in the mission's record or behind it.
THEOREM ReturnedStays == Spec => []ReturnedIsKept
<1>1. ResultInv => ReturnedIsKept
  <2> SUFFICES ASSUME ResultInv, ~restarted, NEW t \in returned
               PROVE  /\ mission # Null
                      /\ Readable(mission) => mission.token.gen >= t.gen
    BY DEF ReturnedIsKept
  <2> QED
    BY DEF ResultInv, ResultsCovered
<1> QED
  BY <1>1, ResultInitially, ResultPreserved, PTL DEF Spec
=============================================================================
