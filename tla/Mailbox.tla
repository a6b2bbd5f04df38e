------------------------------- MODULE Mailbox ------------------------------
(***************************************************************************)
(* FileMailboxManager of bus.py: send_message, receive_messages and        *)
(* acknowledge_message over mailbox directories and the receipt ledger.    *)
(* A send of one message id runs under that id's lock, so there is one at  *)
(* a time for each message; a receive takes no lock.  Each action is one   *)
(* file operation or one locked ledger call.  Processes are killed between *)
(* any two of them and file operations and lock waits fail.                *)
(***************************************************************************)
EXTENDS Naturals, FiniteSets

CONSTANTS
  Msg,           \* message ids, each bound to one envelope
  Agent,         \* agents, each with a mailbox and one receiving process
  Sender,        \* [Msg -> Agent]: header.sender
  Recipient,     \* [Msg -> Agent or Everyone]: header.recipient
  Everyone,      \* 'broadcast' / 'all'
  AutoAck,       \* receive_messages is called with auto_acknowledge
  Legacy,        \* <<m, a>>: m has been in a's inbox since before there were
                 \* receipts, and is not sent again
  OperatorMoves, \* states that somebody outside the mailbox may record
  MaxFaults,     \* bound: kills, failed operations and deferrals in a behaviour
  None           \* no receipt, nothing

ASSUME MailboxAssumption ==
  /\ Everyone \notin Agent
  /\ Sender \in [Msg -> Agent]
  /\ Recipient \in [Msg -> Agent \union {Everyone}]
  /\ Legacy \subseteq Msg \X Agent
  /\ AutoAck \in BOOLEAN /\ MaxFaults \in Nat

Key == Msg \X Agent

VARIABLES
  receipt,    \* deliveries/: current_state of each receipt, or None
  actor,      \* who made the last transition of each receipt
  outbox,     \* messages in their sender's outbox
  inbox,      \* messages in each agent's inbox
  archive,    \* messages in each agent's archive
  registered, \* agents that have a mailbox directory
  send,       \* the send_message in progress for each message
  recv,       \* the receive_messages in progress for each agent
  handed,     \* history: messages receive_messages has returned to each agent
  confirmed,  \* history: messages for which some send_message has returned
  intended,   \* history: recipients of the send that left the first receipt
  faults      \* kills, failed operations and deferrals so far

Ledger == INSTANCE DeliveryLedger
            WITH Key <- Key, None <- None, receipt <- receipt

State    == Ledger!State
Proven   == Ledger!Proven
Terminal == Ledger!Terminal

ASSUME MarkAssumption == None \notin State

ledger == <<receipt, actor>>
files  == <<outbox, inbox, archive, registered>>
past   == <<handed, confirmed, intended>>
vars   == <<ledger, files, send, recv, past, faults>>

-----------------------------------------------------------------------------
(* Ledger calls.                                                            *)

\* A retry to the current state by the same actor, with the evidence that goes
\* with it, is accepted and changes nothing; anything else must be on the graph.
Grants(k, to, who) ==
  IF receipt[k] = to THEN actor[k] = who
  ELSE receipt[k] # None /\ Ledger!CanTransition(receipt[k], to)

Fault == faults < MaxFaults /\ faults' = faults + 1

SetState(k, to, who) ==
  /\ Grants(k, to, who)
  /\ receipt' = [receipt EXCEPT ![k] = to]
  /\ actor' = [actor EXCEPT ![k] = who]

Record(k, to, who) == SetState(k, to, who) /\ UNCHANGED faults

\* The call raises: it is refused, its lock or its file write fails, or the wall
\* clock is behind the receipt's updated_at.
Throws(k, to, who) ==
  /\ UNCHANGED ledger
  /\ (~Grants(k, to, who) /\ UNCHANGED faults) \/ Fault

-----------------------------------------------------------------------------
(* send_message                                                              *)

SendStage == {"idle", "create", "outbox", "accept", "accepting", "publish", "route",
              "select", "persist", "compare", "confirm", "verify", "inInbox",
              "inArchive", "recheck", "reread", "routed", "failing", "mark",
              "unwind", "markall"}

\* A send in progress: its recipients, those the loop at hand has still to see,
\* the one it is at with the receipt last read, and those that have failed.
SendState == [at : SendStage, rcpts : SUBSET Agent, todo : SUBSET Agent,
              cur : Agent \union {None}, view : State \union {None},
              failed : SUBSET Agent]

NoSend == [at |-> "idle", rcpts |-> {}, todo |-> {}, cur |-> None,
           view |-> None, failed |-> {}]

SendAt(m, l) == send[m].at = l
Here(m)      == <<m, send[m].cur>>
IsBroadcast(m) == Recipient[m] = Everyone

Goto(m, l)      == send' = [send EXCEPT ![m].at = l]
Loop(m, l, set) == send' = [send EXCEPT ![m].at = l, ![m].todo = set]
SendReturns(m)  == send' = [send EXCEPT ![m] = NoSend]

\* mutated form: a replay resolves the recipients afresh
ResolveAfresh(m) ==
  IF IsBroadcast(m) THEN registered \ {Sender[m]} ELSE {Recipient[m]}

\* mutated form: the broadcast address is taken for an agent's name
ResolveLiteral(m) == {Recipient[m]}

\* _resolve_recipients: a message that has receipts keeps the recipients it has.
Resolve(m) ==
  LET existing == {r \in Agent : receipt[<<m, r>>] # None} IN
  IF ~IsBroadcast(m) THEN {Recipient[m]}
  ELSE IF existing # {} THEN existing ELSE registered \ {Sender[m]}

BeginSend(m) ==
  /\ SendAt(m, "idle")
  /\ \A a \in Agent : <<m, a>> \notin Legacy
  /\ Resolve(m) # {}
  /\ send' = [send EXCEPT ![m].at = "create", ![m].rcpts = Resolve(m),
                          ![m].todo = Resolve(m)]
  /\ intended' = [intended EXCEPT ![m] =
                    IF \A r \in Agent : receipt[<<m, r>>] = None THEN Resolve(m)
                    ELSE @]
  /\ UNCHANGED <<ledger, files, recv, handed, confirmed, faults>>

\* One receipt per recipient; creating it again with the same contract is a
\* no-op.  A failure here leaves the function at once.
CreateReceipts(m) ==
  /\ SendAt(m, "create")
  /\ \/ \E r \in send[m].todo :
          \/ /\ receipt' = [receipt EXCEPT ![<<m, r>>] =
                              IF @ = None THEN "created" ELSE @]
             /\ actor' = [actor EXCEPT ![<<m, r>>] =
                            IF receipt[<<m, r>>] = None THEN "sender" ELSE @]
             /\ Loop(m, "create", send[m].todo \ {r})
             /\ UNCHANGED faults
          \/ /\ Fault /\ SendReturns(m)
             /\ UNCHANGED ledger
     \/ /\ send[m].todo = {}
        /\ Goto(m, "outbox")
        /\ UNCHANGED <<ledger, faults>>
  /\ UNCHANGED <<files, recv, past>>

\* _write_envelope_file into the sender's outbox, which makes its mailbox exist.
WriteOutbox(m) ==
  /\ SendAt(m, "outbox")
  /\ \/ /\ outbox' = outbox \union {m}
        /\ registered' = registered \union {Sender[m]}
        /\ Loop(m, "accept", send[m].rcpts)
        /\ UNCHANGED faults
     \/ /\ Fault
        /\ Loop(m, "unwind", send[m].rcpts)
        /\ UNCHANGED <<outbox, registered>>
  /\ UNCHANGED <<ledger, inbox, archive, recv, past>>

\* created receipts are to become accepted, if they can be read ...
AcceptNext(m) ==
  /\ SendAt(m, "accept")
  /\ \/ /\ \E r \in send[m].todo :
             IF receipt[<<m, r>>] = "created"
               THEN send' = [send EXCEPT ![m].at = "accepting", ![m].cur = r]
               ELSE Loop(m, "accept", send[m].todo \ {r})
        /\ UNCHANGED faults
     \/ /\ send[m].todo # {} /\ Fault
        /\ Loop(m, "unwind", send[m].rcpts)
     \/ /\ send[m].todo = {}
        /\ Loop(m, IF IsBroadcast(m) THEN "publish" ELSE "route", send[m].rcpts)
        /\ UNCHANGED faults
  /\ UNCHANGED <<ledger, files, recv, past>>

\* ... and a transition that throws marks every recipient's delivery failed.
Accept(m) ==
  /\ SendAt(m, "accepting")
  /\ \/ /\ Record(Here(m), "accepted", "sender")
        /\ Loop(m, "accept", send[m].todo \ {send[m].cur})
     \/ /\ Throws(Here(m), "accepted", "sender")
        /\ Loop(m, "unwind", send[m].rcpts)
  /\ UNCHANGED <<files, recv, past>>

\* The copy in broadcasts/ ; only its failure matters to the receipts.
Publish(m) ==
  /\ SendAt(m, "publish")
  /\ \/ Goto(m, "route") /\ UNCHANGED faults
     \/ Fault /\ Loop(m, "unwind", send[m].rcpts)
  /\ UNCHANGED <<ledger, files, recv, past>>

\* mutated form: an ambiguous delivery is not retried
SelectableNotUnknown == {"accepted", "deferred"}

\* States from which the recipient's mailbox is (again) selected.
Selectable == {"accepted", "deferred", "delivery_unknown"}

\* mutated form: a terminal receipt is noticed only after the copy is written
RouteAnyway(m) ==
  /\ SendAt(m, "route")
  /\ \E r \in send[m].todo :
       LET s == receipt[<<m, r>>]
           l == IF s \in Selectable THEN "select"
                ELSE IF s \in Proven THEN "verify" ELSE "persist"
       IN /\ send' = [send EXCEPT ![m].cur = r, ![m].view = s, ![m].at = l]
          /\ registered' = IF l = "select" THEN registered ELSE registered \union {r}
  /\ UNCHANGED <<ledger, outbox, inbox, archive, recv, past, faults>>

\* The loop over the recipients: what to do with the next one's receipt.  Unless
\* it is to be routed first, the recipient's mailbox directory is made here.
RouteNext(m) ==
  /\ SendAt(m, "route")
  /\ \E r \in send[m].todo :
       LET s == receipt[<<m, r>>]
           l == CASE s \in Selectable -> "select"
                  [] s = "routed"    -> "persist"
                  [] s \in Proven    -> "verify"
                  [] OTHER           -> "failing"
       IN \/ /\ send' = [send EXCEPT ![m].cur = r, ![m].view = s, ![m].at = l]
             /\ registered' = IF l = "select" THEN registered
                              ELSE registered \union {r}
             /\ UNCHANGED faults
          \/ /\ Fault /\ send' = [send EXCEPT ![m].cur = r, ![m].at = "failing"]
             /\ UNCHANGED registered
  /\ UNCHANGED <<ledger, outbox, inbox, archive, recv, past>>

Select(m) ==
  /\ SendAt(m, "select")
  /\ \/ /\ Record(Here(m), "routed", "sender")
        /\ registered' = registered \union {send[m].cur}
        /\ Goto(m, "persist")
     \/ /\ Throws(Here(m), "routed", "sender")
        /\ Goto(m, "failing")
        /\ UNCHANGED registered
  /\ UNCHANGED <<outbox, inbox, archive, recv, past>>

\* mutated form: the recipient's copy is left to the verification step
PersistNothing(m) ==
  /\ SendAt(m, "persist")
  /\ Goto(m, "confirm")
  /\ UNCHANGED <<ledger, files, recv, past, faults>>

\* _write_envelope_file into the inbox writes a file that is not there; the
\* archive is not looked at ...
Persist(m) ==
  /\ SendAt(m, "persist")
  /\ \/ /\ m \in inbox[send[m].cur]
        /\ Goto(m, "compare")
        /\ UNCHANGED <<inbox, faults>>
     \/ /\ m \notin inbox[send[m].cur]
        /\ inbox' = [inbox EXCEPT ![send[m].cur] = @ \union {m}]
        /\ Goto(m, "confirm")
        /\ UNCHANGED faults
     \/ /\ Fault /\ Goto(m, "failing")
        /\ UNCHANGED inbox
  /\ UNCHANGED <<ledger, outbox, archive, registered, recv, past>>

\* ... and opens one that is there, unless it has gone to the archive meanwhile.
Compare(m) ==
  /\ SendAt(m, "compare")
  /\ \/ m \in inbox[send[m].cur] /\ Goto(m, "confirm") /\ UNCHANGED faults
     \/ m \notin inbox[send[m].cur] /\ Goto(m, "failing") /\ UNCHANGED faults
     \/ Fault /\ Goto(m, "failing")
  /\ UNCHANGED <<ledger, files, recv, past>>

Confirm(m) ==
  /\ SendAt(m, "confirm")
  /\ \/ Record(Here(m), "delivered", "sender") /\ Goto(m, "verify")
     \/ Throws(Here(m), "delivered", "sender") /\ Goto(m, "failing")
  /\ UNCHANGED <<files, recv, past>>

\* A receipt that claims persistence must have its copy: the path is that of the
\* archive if the inbox does not have it ...
Verify(m) ==
  /\ SendAt(m, "verify")
  /\ Goto(m, IF m \in inbox[send[m].cur] THEN "inInbox" ELSE "inArchive")
  /\ UNCHANGED <<ledger, files, recv, past, faults>>

\* ... and the file must still be there when that path is looked at again.
Present(m) ==
  LET r == send[m].cur IN
  /\ \/ /\ SendAt(m, "inInbox")
        /\ Goto(m, IF m \in inbox[r] THEN "recheck" ELSE "failing")
        /\ UNCHANGED faults
     \/ /\ SendAt(m, "inArchive") /\ m \in archive[r]
        /\ \/ Loop(m, "routed", send[m].todo \ {r}) /\ UNCHANGED faults
           \/ Fault /\ Goto(m, "failing")
     \/ /\ SendAt(m, "inArchive") /\ m \notin archive[r]
        /\ Goto(m, "failing")
        /\ UNCHANGED faults
  /\ UNCHANGED <<ledger, files, recv, past>>

\* _write_envelope_file of the inbox copy writes it again if it has gone now ...
Recheck(m) ==
  /\ SendAt(m, "recheck")
  /\ \/ /\ m \in inbox[send[m].cur]
        /\ Goto(m, "reread")
        /\ UNCHANGED <<inbox, faults>>
     \/ /\ m \notin inbox[send[m].cur]
        /\ inbox' = [inbox EXCEPT ![send[m].cur] = @ \union {m}]
        /\ Loop(m, "routed", send[m].todo \ {send[m].cur})
        /\ UNCHANGED faults
     \/ /\ Fault /\ Goto(m, "failing")
        /\ UNCHANGED inbox
  /\ UNCHANGED <<ledger, outbox, archive, registered, recv, past>>

\* ... and otherwise opens it.
Reread(m) ==
  LET r == send[m].cur IN
  /\ SendAt(m, "reread")
  /\ \/ m \in inbox[r] /\ Loop(m, "routed", send[m].todo \ {r}) /\ UNCHANGED faults
     \/ m \notin inbox[r] /\ Goto(m, "failing") /\ UNCHANGED faults
     \/ Fault /\ Goto(m, "failing")
  /\ UNCHANGED <<ledger, files, recv, past>>

\* mutated form: the failed recipients are forgotten
AfterRecipientAnyway(m) ==
  /\ SendAt(m, "routed")
  /\ \/ send[m].todo # {} /\ Goto(m, "route") /\ UNCHANGED confirmed
     \/ /\ send[m].todo = {}
        /\ confirmed' = confirmed \union {m}
        /\ SendReturns(m)
  /\ UNCHANGED <<ledger, files, recv, handed, intended, faults>>

\* After a recipient: the next one, or the end.  send_message returns only if no
\* recipient failed.
AfterRecipient(m) ==
  /\ SendAt(m, "routed")
  /\ \/ /\ send[m].todo # {}
        /\ Goto(m, "route")
        /\ UNCHANGED confirmed
     \/ /\ send[m].todo = {}
        /\ confirmed' = IF send[m].failed = {} THEN confirmed \union {m}
                        ELSE confirmed
        /\ SendReturns(m)
  /\ UNCHANGED <<ledger, files, recv, handed, intended, faults>>

\* _mark_delivery_failure, for the recipient that failed ("failing") or for all of
\* them before send_message throws ("unwind"): first the receipt is read ...
FailureTarget(s) == IF s = "created" THEN "rejected" ELSE "delivery_unknown"

MarkNext(m) ==
  /\ \/ SendAt(m, "failing") /\ send[m].cur \in send[m].todo
     \/ SendAt(m, "unwind")
  /\ \E r \in send[m].todo :
       /\ SendAt(m, "failing") => r = send[m].cur
       /\ LET s == receipt[<<m, r>>]
              unsure == s \in {"created", "accepted", "routed", "deferred"}
              next == IF SendAt(m, "failing") THEN "routed" ELSE "unwind"
          IN \/ /\ send' = [send EXCEPT
                            ![m].cur = r, ![m].view = s,
                            ![m].failed = @ \union {r},
                            ![m].at = IF ~unsure THEN next
                                      ELSE IF next = "routed" THEN "mark" ELSE "markall",
                            ![m].todo = IF unsure THEN @ ELSE @ \ {r}]
                /\ UNCHANGED faults
             \/ Fault /\ SendReturns(m)
  /\ UNCHANGED <<ledger, files, recv, past>>

\* ... then moved.  If either throws, so does send_message, at once.
Mark(m) ==
  /\ SendAt(m, "mark") \/ SendAt(m, "markall")
  /\ LET to == FailureTarget(send[m].view)
         next == IF SendAt(m, "mark") THEN "routed" ELSE "unwind"
     IN \/ /\ Record(Here(m), to, "sender")
           /\ Loop(m, next, send[m].todo \ {send[m].cur})
        \/ Throws(Here(m), to, "sender") /\ SendReturns(m)
  /\ UNCHANGED <<files, recv, past>>

Unwound(m) ==
  /\ SendAt(m, "unwind") /\ send[m].todo = {}
  /\ SendReturns(m)
  /\ UNCHANGED <<ledger, files, recv, past, faults>>

SendStep(m) ==
  \/ CreateReceipts(m) \/ WriteOutbox(m) \/ AcceptNext(m) \/ Accept(m)
  \/ Publish(m) \/ RouteNext(m) \/ Select(m) \/ Persist(m) \/ Compare(m)
  \/ Confirm(m) \/ Verify(m) \/ Present(m) \/ Recheck(m) \/ Reread(m)
  \/ AfterRecipient(m) \/ MarkNext(m) \/ Mark(m) \/ Unwound(m)

-----------------------------------------------------------------------------
(* receive_messages and acknowledge_message                                   *)

\* A receive in progress: the files it has still to open, the message it is at
\* with the receipt last seen, and the messages it is going to return.
RecvState == [at : {"idle", "open", "observe", "take"},
              todo : SUBSET Msg, cur : Msg \union {None},
              view : State \union {None}, batch : SUBSET Msg]

NoRecv == [at |-> "idle", todo |-> {}, cur |-> None, view |-> None, batch |-> {}]

RecvAt(a, l)   == recv[a].at = l
RecvReturns(a) == recv' = [recv EXCEPT ![a] = NoRecv]

\* The inbox is listed once.
BeginReceive(a) ==
  /\ RecvAt(a, "idle")
  /\ inbox[a] # {}
  /\ recv' = [recv EXCEPT ![a] = [NoRecv EXCEPT !.at = "open", !.todo = inbox[a]]]
  /\ UNCHANGED <<ledger, files, send, past, faults>>

\* The next file: skipped when it is gone or cannot be read; otherwise its
\* receipt is read, and a failure of that ends the call.  A message without a
\* receipt is taken as it is.
Open(a) ==
  /\ RecvAt(a, "open")
  /\ \/ \E m \in recv[a].todo :
          LET s == receipt[<<m, a>>] IN
          /\ recv' = [recv EXCEPT
                        ![a].todo = @ \ {m}, ![a].cur = m, ![a].view = s,
                        ![a].at = IF m \notin inbox[a] THEN "open"
                                  ELSE IF s = None THEN "take" ELSE "observe"]
          /\ UNCHANGED <<handed, faults>>
     \/ \E m \in recv[a].todo :
          /\ Fault
          /\ \/ recv' = [recv EXCEPT ![a].todo = @ \ {m}]
             \/ m \in inbox[a] /\ RecvReturns(a)
          /\ UNCHANGED handed
     \/ /\ recv[a].todo = {}
        /\ handed' = [handed EXCEPT ![a] = @ \union recv[a].batch]
        /\ RecvReturns(a)
        /\ UNCHANGED faults
  /\ UNCHANGED <<ledger, files, send, confirmed, intended>>

\* _mark_observed: the transition that is due from the state last seen.
ObserveTarget(s) ==
  CASE s = "created"                           -> "accepted"
    [] s \in {"accepted", "deferred"}          -> "routed"
    [] s = "routed"                            -> "delivered"
    [] s \in {"delivered", "delivery_unknown"} -> "observed"

\* mutated form: a transition that throws is ignored
ObserveAnyway(a) ==
  LET s == recv[a].view
      k == <<recv[a].cur, a>>
  IN
  /\ RecvAt(a, "observe")
  /\ \/ /\ s \in Terminal \union {"observed", "acted"}
        /\ recv' = [recv EXCEPT ![a].at = "take"]
        /\ UNCHANGED <<ledger, faults>>
     \/ /\ s \notin Terminal \union {"observed", "acted"}
        /\ \/ /\ Record(k, ObserveTarget(s), "receiver")
              /\ recv' = [recv EXCEPT ![a].view = ObserveTarget(s)]
           \/ /\ Throws(k, ObserveTarget(s), "receiver")
              /\ recv' = [recv EXCEPT ![a].at = "take"]
  /\ UNCHANGED <<files, send, past>>

\* One step of _mark_observed.  A terminal receipt, or a transition that throws,
\* throws out of receive_messages with everything gathered so far.
Observe(a) ==
  LET s == recv[a].view
      k == <<recv[a].cur, a>>
  IN
  /\ RecvAt(a, "observe")
  /\ \/ /\ s \in {"observed", "acted", "verified"}
        /\ recv' = [recv EXCEPT ![a].at = "take"]
        /\ UNCHANGED <<ledger, faults>>
     \/ /\ s \in Terminal \ {"verified"}
        /\ RecvReturns(a)
        /\ UNCHANGED <<ledger, faults>>
     \/ /\ s \notin Terminal \union {"observed", "acted"}
        /\ \/ /\ Record(k, ObserveTarget(s), "receiver")
              /\ recv' = [recv EXCEPT ![a].view = ObserveTarget(s)]
           \/ /\ Throws(k, ObserveTarget(s), "receiver")
              /\ RecvReturns(a)
  /\ UNCHANGED <<files, send, past>>

\* rename from inbox to archive, if the file is there.
ToArchive(a, m) ==
  IF m \in inbox[a]
    THEN /\ inbox' = [inbox EXCEPT ![a] = @ \ {m}]
         /\ archive' = [archive EXCEPT ![a] = @ \union {m}]
    ELSE UNCHANGED <<inbox, archive>>

\* mutated form: what is taken always leaves the inbox
TakeAndArchive(a) ==
  /\ RecvAt(a, "take")
  /\ recv' = [recv EXCEPT ![a].at = "open", ![a].batch = @ \union {recv[a].cur}]
  /\ ToArchive(a, recv[a].cur)
  /\ UNCHANGED <<ledger, outbox, registered, send, past, faults>>

\* The message joins the batch and, with auto_acknowledge, leaves the inbox; if
\* that rename fails, the batch is lost with it.
Take(a) ==
  /\ RecvAt(a, "take")
  /\ \/ /\ recv' = [recv EXCEPT ![a].at = "open", ![a].batch = @ \union {recv[a].cur}]
        /\ IF AutoAck THEN ToArchive(a, recv[a].cur) ELSE UNCHANGED <<inbox, archive>>
        /\ UNCHANGED faults
     \/ /\ AutoAck /\ Fault /\ RecvReturns(a)
        /\ UNCHANGED <<inbox, archive>>
  /\ UNCHANGED <<ledger, outbox, registered, send, past>>

RecvStep(a) == Open(a) \/ Observe(a) \/ Take(a)

\* acknowledge_message, called for a message that was received.
Acknowledge(a, m) ==
  /\ m \in handed[a] /\ m \in inbox[a]
  /\ ToArchive(a, m)
  /\ UNCHANGED <<ledger, outbox, registered, send, recv, past, faults>>

-----------------------------------------------------------------------------
(* The environment.                                                         *)

Register(a) ==
  /\ a \notin registered
  /\ registered' = registered \union {a}
  /\ UNCHANGED <<ledger, outbox, inbox, archive, send, recv, past, faults>>

\* The ledger is a public API: action, verification, deferral, expiry and
\* withdrawal are recorded by others than the mailbox.  A deferral counts among
\* the faults, so that nobody defers for ever.
Operator(k, to) ==
  /\ to \in OperatorMoves
  /\ receipt[k] # to /\ SetState(k, to, "operator")
  /\ IF to = "deferred" THEN Fault ELSE UNCHANGED faults
  /\ UNCHANGED <<files, send, recv, past>>

CrashSend(m) ==
  /\ ~SendAt(m, "idle") /\ Fault
  /\ SendReturns(m)
  /\ UNCHANGED <<ledger, files, recv, past>>

CrashRecv(a) ==
  /\ ~RecvAt(a, "idle") /\ Fault
  /\ RecvReturns(a)
  /\ UNCHANGED <<ledger, files, send, past>>

Init ==
  /\ receipt = [k \in Key |-> None]
  /\ actor = [k \in Key |-> None]
  /\ outbox = {}
  /\ inbox = [a \in Agent |-> {m \in Msg : <<m, a>> \in Legacy}]
  /\ archive = [a \in Agent |-> {}]
  /\ registered = {a \in Agent : \E m \in Msg : <<m, a>> \in Legacy}
  /\ send = [m \in Msg |-> NoSend]
  /\ recv = [a \in Agent |-> NoRecv]
  /\ handed = [a \in Agent |-> {}]
  /\ confirmed = {}
  /\ intended = [m \in Msg |-> {}]
  /\ faults = 0

\* The callers are programs that use the package and the command line, whose
\* send, broadcast and receive commands are one call each.
Next ==
  \/ \E m \in Msg : BeginSend(m) \/ SendStep(m) \/ CrashSend(m)
  \/ \E a \in Agent :
       \/ BeginReceive(a) \/ RecvStep(a) \/ CrashRecv(a) \/ Register(a)
       \/ \E m \in Msg : Acknowledge(a, m)
  \/ \E k \in Key, to \in State : Operator(k, to)

Spec == Init /\ [][Next]_vars

\* Calls in progress proceed; senders repeat a send until it has returned, and
\* recipients keep polling their inboxes.  Nobody has to acknowledge anything.
Unconfirmed(m) == m \notin confirmed /\ BeginSend(m)

FairSpec ==
  /\ Spec
  /\ \A m \in Msg : WF_vars(SendStep(m)) /\ WF_vars(Unconfirmed(m))
  /\ \A a \in Agent : WF_vars(RecvStep(a)) /\ WF_vars(BeginReceive(a))

-----------------------------------------------------------------------------
(* Properties.                                                              *)

\* Every variable has its type, and at most MaxFaults operations have failed.
TypeOK ==
  /\ receipt \in [Key -> State \union {None}]
  /\ actor \in [Key -> {None, "sender", "receiver", "operator"}]
  /\ outbox \in SUBSET Msg
  /\ inbox \in [Agent -> SUBSET Msg] /\ archive \in [Agent -> SUBSET Msg]
  /\ registered \in SUBSET Agent
  /\ send \in [Msg -> SendState]
  /\ recv \in [Agent -> RecvState]
  /\ handed \in [Agent -> SUBSET Msg]
  /\ confirmed \in SUBSET Msg
  /\ intended \in [Msg -> SUBSET Agent]
  /\ faults \in 0 .. MaxFaults

HasCopy(m, r) == m \in inbox[r] \union archive[r]

\* A receipt that says delivered or more is backed by the envelope in the
\* recipient's inbox or archive, and by the sender's outbox.
ProvenHasCopy ==
  \A m \in Msg, r \in Agent :
    receipt[<<m, r>>] \in Proven => HasCopy(m, r) /\ m \in outbox

\* What only an observed receipt can become.
SeenBy(m, a) == receipt[<<m, a>>] \in {"observed", "acted", "verified", "revoked"}

\* receive_messages never hands over a message whose observation is not on record:
\* whatever the sender makes of the receipt meanwhile, and whatever fails, every
\* message a recipient has been given is observed or has moved on from there,
\* unless it is older than the receipts.
HandedIsObserved ==
  \A a \in Agent : \A m \in handed[a] : <<m, a>> \in Legacy \/ SeenBy(m, a)

\* rejected says that the message never reached its recipient, and that stays
\* true: no replay of the send puts a copy behind a rejected receipt, and no
\* failure of a send rejects a receipt whose copy is already there.
RejectedNeverReached ==
  \A m \in Msg, a \in Agent : receipt[<<m, a>>] = "rejected" => ~HasCopy(m, a)

\* docs/NYMREL_MESH_DELIVERY_TRUTH.md: "A successful return proves that the local
\* recipient mailbox completed an exact-byte write": for every recipient that
\* holds a receipt, also of a broadcast resumed after a crash.
ConfirmedIsDelivered ==
  \A m \in confirmed : \A r \in Agent :
    receipt[<<m, r>>] # None => HasCopy(m, r)

\* The same document: "a broadcast freezes its original recipient set on first
\* send, so agents registered later do not silently become recipients during
\* replay".  Nobody but the recipients of the first send ever gets a receipt.
RecipientsFrozen ==
  \A m \in Msg, r \in Agent : receipt[<<m, r>>] # None => r \in intended[m]

\* ... and a broadcast that is confirmed has reached all of them.
BroadcastReachesAll ==
  \A m \in confirmed : \A r \in intended[m] : HasCopy(m, r)

\* "replaying the exact same direct message is idempotent": once send_message has
\* returned and the recipient has archived the message, no later step puts it in
\* the inbox again.
ReplayIsIdempotent ==
  [][\A m \in confirmed, a \in Agent :
       m \in archive[a] \ inbox[a] => m \notin inbox'[a]]_vars

\* Nobody else's mailbox is touched by a message.
Addressed(m) == IF IsBroadcast(m) THEN Agent \ {Sender[m]} ELSE {Recipient[m]}

\* An interrupted or ambiguous delivery is settled once the faults are over: a
\* sender that repeats its send and a recipient that polls get every receipt to
\* a proven delivery or to a terminal state.
EverythingSettles ==
  \A m \in Msg : \A a \in Addressed(m) :
    receipt[<<m, a>>] # None ~> receipt[<<m, a>>] \in Proven \union Terminal

\* A message that has reached an inbox is handed to a recipient that keeps polling
\* without auto_acknowledge, although one message that raises ends the receive for
\* all of them: the only thing that can keep it back for ever is a terminal
\* receipt, its own or a neighbour's, whose copy is still in the inbox.
Blocked(a) == \E n \in inbox[a] : receipt[<<n, a>>] \in Terminal \ {"verified"}

PolledIsHanded ==
  \A m \in Msg : \A a \in Addressed(m) :
    m \in inbox[a] ~> m \in handed[a] \/ Blocked(a)
=============================================================================
