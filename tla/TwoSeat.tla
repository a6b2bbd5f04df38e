------------------------------- MODULE TwoSeat ------------------------------
(***************************************************************************)
(* TwoSeatProtocol of two_seat.py for one mission, with the FencingClock   *)
(* of fencing.py that numbers its owners.  The four operations run one at a*)
(* time under the lock mission_<id>; validate_action and                   *)
(* validate_generation read the two files without it.  open(.., "w")       *)
(* truncates and json.dump then writes: in between, and for ever after a   *)
(* crash in between, the file does not parse.                              *)
(***************************************************************************)
EXTENDS Naturals

CONSTANTS
  Seat,        \* seat ids
  Unassigned,  \* 'unassigned_controller_<uuid>', nobody's seat id
  MaxStamp,    \* bound: tokens that are issued, torn ones included
  Null, Torn   \* no file / a file that does not parse

VARIABLES
  mission,   \* two-seat/<id>.json
  fencing,   \* fencing/mission_<id>.json, holding the newest token
  op,        \* the operation that holds the lock mission_<id>, or Null
  writing,   \* the generation validate_action let each seat write under, or 0
  stamp,     \* issued_at of the newest token
  issued,    \* history: the tokens that were written to the fencing file
  returned,  \* history: the tokens that operations have returned
  restarted  \* history: some generation was drawn from an unreadable file

files   == <<mission, fencing>>
history == <<issued, returned, restarted>>
vars    == <<files, op, writing, stamp, history>>

\* The token string is a hash of the other fields.
Token  == [gen : Nat \ {0}, claimant : Seat, issued_at : Nat]
Record == [owner : Seat, controller : Seat \union {Unassigned},
           state : {"ACTIVE", "TERMINATED"}, token : Token]

ASSUME SeatAssumption ==
  /\ Unassigned \notin Seat
  /\ Null # Torn /\ {Null, Torn} \cap Seat = {}
  /\ \A x \in {Null, Torn} : x \notin Token /\ x \notin Record
  /\ MaxStamp \in Nat

Kind  == {"init", "handover", "recovery", "close"}
Stage == {"check", "increment", "stamp", "open", "write", "event"}

\* peer: the controller named in init_mission, the successor in a handover, and
\* the caller itself where there is nobody else.
Op == [kind : Kind, agent : Seat, peer : Seat, stage : Stage,
       rec : Record \union {Null}, token : Token \union {Null}]

-----------------------------------------------------------------------------
\* get_mission returns None for a missing and for an unparsable file.
Readable(file) == file \notin {Null, Torn}

Closed == Readable(mission) /\ mission.state = "TERMINATED"

At(stg)    == op # Null /\ op.stage = stg
Move(stg)  == op' = [op EXCEPT !.stage = stg]
Return     == op' = Null

Call(k, a, b) ==
  /\ op = Null
  /\ k \notin {"init", "handover"} => b = a
  /\ op' = [kind |-> k, agent |-> a, peer |-> b, stage |-> "check",
            rec |-> Null, token |-> Null]
  /\ UNCHANGED <<files, writing, stamp, history>>

\* mutated form: a mission that cannot be read may be initialised again
InitGrantedUnlessReadable == ~Readable(mission) /\ op.agent # op.peer

\* os.path.exists: the file need not be readable.
InitGranted == mission = Null /\ op.agent # op.peer

\* mutated form: a handover does not look at the mission's state
HandoverGrantedWhenClosed == Readable(mission) /\ mission.owner = op.agent

HandoverGranted == Readable(mission) /\ ~Closed /\ mission.owner = op.agent

RecoveryGranted == Readable(mission) /\ ~Closed /\ mission.controller = op.agent

\* close_mission accepts a mission that is closed already.
CloseGranted == Readable(mission) /\ mission.owner = op.agent

\* The tests each operation makes before it changes anything.
Granted ==
  \/ op.kind = "init" /\ InitGranted
  \/ op.kind = "handover" /\ HandoverGranted
  \/ op.kind = "recovery" /\ RecoveryGranted
  \/ op.kind = "close" /\ CloseGranted

CloseRecord == [mission EXCEPT !.state = "TERMINATED"]

\* The lock is held and the record read; or the operation raises.
Check ==
  /\ At("check")
  /\ \/ /\ Granted /\ op.kind # "close"
        /\ op' = [op EXCEPT !.stage = "increment", !.rec = mission]
     \/ /\ Granted /\ op.kind = "close"
        /\ op' = [op EXCEPT !.stage = "open", !.rec = CloseRecord]
     \/ ~Granted /\ Return
  /\ UNCHANGED <<files, writing, stamp, history>>

\* mutated form: the token is issued to the caller, the outgoing owner
ClaimantIsCaller == op.agent

\* The owner that increment_generation is called for.
Claimant == IF op.kind = "handover" THEN op.peer ELSE op.agent

\* increment_generation under its own lock: a missing or unreadable file counts
\* as generation 0; the file is opened and with that truncated.
Increment ==
  /\ At("increment")
  /\ stamp < MaxStamp
  /\ LET gen == IF Readable(fencing) THEN fencing.gen ELSE 0 IN
     op' = [op EXCEPT !.stage = "stamp",
              !.token = [gen |-> gen + 1, claimant |-> Claimant,
                         issued_at |-> stamp + 1]]
  /\ stamp' = stamp + 1
  /\ restarted' = (restarted \/ fencing = Torn)
  /\ fencing' = Torn
  /\ UNCHANGED <<mission, writing, issued, returned>>

\* The wait for the fencing lock times out and the operation raises.
IncrementTimesOut ==
  /\ At("increment")
  /\ Return
  /\ UNCHANGED <<files, writing, stamp, history>>

InitRecord == [owner |-> op.agent, controller |-> op.peer,
               state |-> "ACTIVE", token |-> op.token]

\* mutated form: the old controller stays when it becomes the owner
HandoverKeepsController ==
  [op.rec EXCEPT !.owner = op.peer, !.state = "ACTIVE", !.token = op.token]

\* mutated form: the outgoing owner always becomes the controller
HandoverReseats ==
  [op.rec EXCEPT !.owner = op.peer, !.controller = op.rec.owner,
                 !.state = "ACTIVE", !.token = op.token]

\* A successor that was the controller swaps seats with the owner.
HandoverRecord ==
  [op.rec EXCEPT
     !.owner = op.peer,
     !.controller = IF @ = op.peer THEN op.rec.owner ELSE @,
     !.state = "ACTIVE",
     !.token = op.token]

\* mutated form: the controller takes over under the old owner's token
RecoveryKeepsToken ==
  [op.rec EXCEPT !.owner = op.agent, !.controller = Unassigned,
                 !.state = "ACTIVE"]

\* mutated form: the controller's seat is left without a name
RecoveryLeavesNobody ==
  [op.rec EXCEPT !.owner = op.agent, !.controller = Null,
                 !.state = "ACTIVE", !.token = op.token]

\* Whatever the owner's health: health_state is written and never read.
RecoveryRecord ==
  [op.rec EXCEPT !.owner = op.agent, !.controller = Unassigned,
                 !.state = "ACTIVE", !.token = op.token]

NewRecord ==
  CASE op.kind = "init"     -> InitRecord
    [] op.kind = "handover" -> HandoverRecord
    [] op.kind = "recovery" -> RecoveryRecord

\* mutated form: the caller is told before the record is written
StampReporting ==
  /\ At("stamp")
  /\ fencing' = op.token
  /\ issued' = issued \union {op.token}
  /\ returned' = returned \union {op.token}
  /\ op' = [op EXCEPT !.stage = "open", !.rec = NewRecord]
  /\ UNCHANGED <<mission, writing, stamp, restarted>>

\* The token is in the fencing file, and the record is made out.
Stamp ==
  /\ At("stamp")
  /\ fencing' = op.token
  /\ issued' = issued \union {op.token}
  /\ op' = [op EXCEPT !.stage = "open", !.rec = NewRecord]
  /\ UNCHANGED <<mission, writing, stamp, returned, restarted>>

\* open and json.dump of the mission record.
Open ==
  /\ At("open")
  /\ mission' = Torn
  /\ Move("write")
  /\ UNCHANGED <<fencing, writing, stamp, history>>

Write ==
  /\ At("write")
  /\ mission' = op.rec
  /\ Move("event")
  /\ UNCHANGED <<fencing, writing, stamp, history>>

\* The operation returns its token; or record_event raises, and with it the
\* operation whose record is written.
Event ==
  /\ At("event")
  /\ \/ returned' = returned \union ({op.token} \ {Null})
     \/ UNCHANGED returned
  /\ Return
  /\ UNCHANGED <<files, writing, stamp, issued, restarted>>

-----------------------------------------------------------------------------
\* validate_action, with a token or without one (Null): an active seat, the
\* mission's generation, and no writes by the controller.
Allowed(a, write, t) ==
  /\ Readable(mission) /\ mission.state # "TERMINATED"
  /\ a \in {mission.owner, mission.controller}
  /\ t # Null => t.gen = mission.token.gen
  /\ ~(write /\ a = mission.controller)

\* validate_generation compares the generation and the token string.
ClockAccepts(t) == Readable(fencing) /\ fencing = t

\* A seat has a write allowed, takes its time over it, and is done.  Between
\* the verdict and the end of the write nothing holds the lock.
Authorize(a, t) ==
  /\ writing[a] = 0
  /\ Allowed(a, TRUE, t)
  /\ writing' = [writing EXCEPT ![a] = mission.token.gen]
  /\ UNCHANGED <<files, op, stamp, history>>

EndWrite(a) ==
  /\ writing[a] # 0
  /\ writing' = [writing EXCEPT ![a] = 0]
  /\ UNCHANGED <<files, op, stamp, history>>

\* The process that runs the operation is killed; the lock it leaves behind is
\* evicted later.
Crash ==
  /\ op # Null
  /\ Return
  /\ UNCHANGED <<files, writing, stamp, history>>

Init ==
  /\ mission = Null /\ fencing = Null
  /\ op = Null
  /\ writing = [a \in Seat |-> 0]
  /\ stamp = 0
  /\ issued = {} /\ returned = {} /\ restarted = FALSE

Step == Check \/ Increment \/ IncrementTimesOut \/ Stamp \/ Open \/ Write \/ Event

Next ==
  \/ \E k \in Kind, a \in Seat, b \in Seat : Call(k, a, b)
  \/ Step
  \/ \E a \in Seat : EndWrite(a) \/ \E t \in issued \union {Null} : Authorize(a, t)
  \/ Crash

Spec == Init /\ [][Next]_vars

-----------------------------------------------------------------------------
(* Properties.                                                              *)

\* Both files, the operation in progress and the histories have their types.
TypeOK ==
  /\ mission \in Record \union {Null, Torn}
  /\ fencing \in Token \union {Null, Torn}
  /\ op \in Op \union {Null}
  /\ writing \in [Seat -> Nat]
  /\ stamp \in Nat
  /\ issued \in SUBSET Token /\ returned \in SUBSET Token
  /\ restarted \in BOOLEAN

\* init_mission's "mission_owner and studio_controller cannot be the same seat",
\* after any sequence of handovers and recoveries.  A seat in both roles could
\* no longer write.
SeatsDistinct == Readable(mission) => mission.owner # mission.controller

\* README: "write scopes are guarded by monotonic fencing generations".
\* Verdicts outlive transfers, so two seats may be writing at once; but never
\* under one generation, which is what lets the storage tell them apart.
OneWriterPerGeneration ==
  ~restarted => \A a, b \in Seat :
                  writing[a] # 0 /\ writing[a] = writing[b] => a = b

\* The clock and the mission are two files and a crash may part them.  A token
\* that both accept is always the active owner's own.
ChecksNameOneSeat ==
  ~restarted => \A a \in Seat, t \in issued :
                  ClockAccepts(t) /\ Allowed(a, TRUE, t) => a = t.claimant

\* A transfer that was reported is not undone: the record never falls behind a
\* generation that some operation has returned.
ReturnedIsKept ==
  ~restarted => \A t \in returned :
                  /\ mission # Null
                  /\ Readable(mission) => mission.token.gen >= t.gen

\* A mission that was closed is never active again, whoever calls what.
ClosedForGood == [](Closed => [](Readable(mission) => Closed))

ControllerGone == Readable(mission) /\ mission.controller = Unassigned

\* Recovery works once: it leaves the controller's seat to nobody, no later
\* operation fills it again, and so no other owner can ever be recovered from.
RecoveryIsLast == [](ControllerGone => [](Readable(mission) => ControllerGone))

\* A kill in the middle of writing the record loses the mission: the id is taken
\* for init_mission and not found for everything else.
CutShortIsLost == [](mission = Torn /\ op = Null => [](mission = Torn))
=============================================================================
