---------------------------- MODULE MailboxProofs ----------------------------
(***************************************************************************)
(* The mailbox for any number of messages, agents and failures: what the   *)
(* receipts, a returned send_message and a batch handed over say of the    *)
(* copies in the mailboxes and of each other is true.                      *)
(***************************************************************************)
EXTENDS Mailbox, TLAPS

\* Deliveries and observations are recorded by the mailbox alone.
OnlyMailboxDelivers ==
  OperatorMoves \subseteq State \ {"created", "delivered", "observed"}

\* The stages in which send_message works on one recipient.
OnOne == {"accepting", "select", "persist", "compare", "confirm", "verify", "inInbox",
          "inArchive", "recheck", "reread", "failing", "mark", "markall"}

Shape ==
  /\ \A m \in Msg : send[m].at \in OnOne => send[m].cur \in send[m].todo
  /\ \A m \in Msg : send[m].at \in {"mark", "markall"} => send[m].view \in State
  /\ \A a \in Agent :
       /\ recv[a].at \in {"observe", "take"} => recv[a].cur \in Msg
       /\ recv[a].at = "observe" => recv[a].view \in State

-----------------------------------------------------------------------------
(* Types.                                                                   *)

LEMMA States ==
  /\ State = {"created", "accepted", "routed", "deferred", "delivered", "observed",
              "acted", "delivery_unknown", "verified", "expired", "dead_lettered",
              "revoked", "rejected"}
  /\ None \notin State
  /\ Proven \subseteq State
  /\ Terminal = {"verified", "expired", "dead_lettered", "revoked", "rejected"}
  /\ Proven = {"delivered", "observed", "acted", "verified"}
<1>1. State = {"created", "accepted", "routed", "deferred", "delivered", "observed",
              "acted", "delivery_unknown", "verified", "expired", "dead_lettered",
              "revoked", "rejected"}
  BY DEF State, Ledger!State, Ledger!Allowed
<1>2. None \notin State
  BY MarkAssumption
<1> QED
  BY <1>1, <1>2 DEF Proven, Ledger!Proven, Terminal, Ledger!Terminal

\* A transition keeps the types and creates nothing.
LEMMA SetStateType ==
  ASSUME TypeOK, NEW k \in Key, NEW to \in State,
         NEW who \in {"sender", "receiver", "operator"}, SetState(k, to, who)
  PROVE  /\ receipt' \in [Key -> State \union {None}]
         /\ actor' \in [Key -> {None, "sender", "receiver", "operator"}]
         /\ receipt[k] # None
         /\ receipt'[k] = to
         /\ \A j \in Key : j # k => receipt'[j] = receipt[j]
<1>1. /\ receipt' = [receipt EXCEPT ![k] = to] /\ actor' = [actor EXCEPT ![k] = who]
      /\ receipt[k] = to \/ receipt[k] # None
  BY DEF SetState, Grants
<1> QED
  BY <1>1, States DEF TypeOK

\* What send_message is about to record is a state of the ledger.
LEMMA Targets ==
  /\ {"created", "accepted", "routed", "delivered"} \subseteq State
  /\ \A s \in State : FailureTarget(s) \in {"rejected", "delivery_unknown"}
  /\ {"rejected", "delivery_unknown"} \subseteq State
  /\ \A s \in State \ (Terminal \union {"observed", "acted"}) :
       ObserveTarget(s) \in State \ {"rejected"}
  BY States DEF FailureTarget, ObserveTarget

\* What a step of send_message leaves of its own record.
LEMMA SendTyped ==
  ASSUME TypeOK, Shape, NEW m \in Msg, BeginSend(m) \/ SendStep(m) \/ CrashSend(m)
  PROVE  /\ send' \in [Msg -> SendState]
         /\ \A n \in Msg : n # m => send'[n] = send[n]
         /\ send'[m].at \in OnOne => send'[m].cur \in send'[m].todo
         /\ send'[m].at \in {"mark", "markall"} => send'[m].view \in State
         /\ UNCHANGED recv
<1> DEFINE s == send[m]
           Typed == /\ send' \in [Msg -> SendState]
                    /\ \A n \in Msg : n # m => send'[n] = send[n]
                    /\ send'[m].at \in OnOne => send'[m].cur \in send'[m].todo
                    /\ send'[m].at \in {"mark", "markall"} => send'[m].view \in State
                    /\ UNCHANGED recv
<1>0. /\ send \in [Msg -> SendState]
      /\ s \in SendState /\ (s.at \in OnOne => s.cur \in s.todo)
      /\ s.at \in {"mark", "markall"} => s.view \in State
      /\ receipt \in [Key -> State \union {None}]
  BY DEF TypeOK, Shape
<1>1. ASSUME BeginSend(m) PROVE Typed
  <2>1. Resolve(m) \in SUBSET Agent
    BY MailboxAssumption DEF Resolve, IsBroadcast, TypeOK
  <2>2. /\ send' = [send EXCEPT ![m].at = "create", ![m].rcpts = Resolve(m), ![m].todo = Resolve(m)]
        /\ UNCHANGED recv
    BY <1>1 DEF BeginSend
  <2> QED
    BY <1>0, <2>1, <2>2 DEF SendState, SendStage, OnOne
<1>2. ASSUME CreateReceipts(m) PROVE Typed
  <2>1. /\ UNCHANGED recv
        /\ \/ \E r \in s.todo : Loop(m, "create", s.todo \ {r})
           \/ SendReturns(m)
           \/ Goto(m, "outbox")
    BY <1>2 DEF CreateReceipts
  <2>2. CASE SendReturns(m)
    BY <1>0, <2>1, <2>2 DEF SendReturns, NoSend, SendState, SendStage, OnOne
  <2>3. CASE Goto(m, "outbox")
    BY <1>0, <2>1, <2>3 DEF Goto, SendState, SendStage, OnOne
  <2>4. ASSUME NEW r \in s.todo, Loop(m, "create", s.todo \ {r}) PROVE Typed
    BY <1>0, <2>1, <2>4 DEF Loop, SendState, SendStage, OnOne
  <2> QED
    BY <2>1, <2>2, <2>3, <2>4
<1>3. ASSUME WriteOutbox(m) PROVE Typed
  BY <1>0, <1>3 DEF WriteOutbox, SendAt, Loop, SendState, SendStage, OnOne
<1>4. ASSUME AcceptNext(m) PROVE Typed
  <2>1. /\ UNCHANGED recv
        /\ \/ \E r \in s.todo : send' = [send EXCEPT ![m].at = "accepting", ![m].cur = r]
           \/ \E l \in {"accept", "publish", "route", "unwind"}, T \in SUBSET Agent : Loop(m, l, T)
    BY <1>0, <1>4 DEF AcceptNext, SendState
  <2>2. ASSUME NEW r \in s.todo, send' = [send EXCEPT ![m].at = "accepting", ![m].cur = r]
        PROVE  Typed
    BY <1>0, <2>1, <2>2 DEF SendState, SendStage, OnOne
  <2>3. ASSUME NEW l \in {"accept", "publish", "route", "unwind"}, NEW T \in SUBSET Agent,
               Loop(m, l, T)
        PROVE  Typed
    BY <1>0, <2>1, <2>3 DEF Loop, SendState, SendStage, OnOne
  <2> QED
    BY <2>1, <2>2, <2>3
<1>5. ASSUME Accept(m) PROVE Typed
  BY <1>0, <1>5 DEF Accept, SendAt, Loop, SendState, SendStage, OnOne
<1>6. ASSUME Publish(m) PROVE Typed
  BY <1>0, <1>6 DEF Publish, SendAt, Goto, Loop, SendState, SendStage, OnOne
<1>7. ASSUME RouteNext(m) PROVE Typed
  BY <1>0, <1>7, States DEF RouteNext, SendAt, SendState, SendStage, OnOne
<1>8. ASSUME Select(m) PROVE Typed
  BY <1>0, <1>8 DEF Select, SendAt, Goto, SendState, SendStage, OnOne
<1>9. ASSUME Persist(m) PROVE Typed
  BY <1>0, <1>9 DEF Persist, SendAt, Goto, SendState, SendStage, OnOne
<1>10. ASSUME Confirm(m) PROVE Typed
  BY <1>0, <1>10 DEF Confirm, SendAt, Goto, SendState, SendStage, OnOne
<1>11. ASSUME Verify(m) PROVE Typed
  BY <1>0, <1>11 DEF Verify, SendAt, Goto, Loop, SendState, SendStage, OnOne
<1>12. ASSUME Recheck(m) PROVE Typed
  BY <1>0, <1>12 DEF Recheck, SendAt, Goto, Loop, SendState, SendStage, OnOne
<1>13. ASSUME AfterRecipient(m) PROVE Typed
  BY <1>0, <1>13 DEF AfterRecipient, SendAt, Goto, SendReturns, NoSend, SendState, SendStage, OnOne
<1>14. ASSUME MarkNext(m) PROVE Typed
  <2>1. CASE SendReturns(m)
    BY <1>0, <1>14, <2>1 DEF MarkNext, SendReturns, NoSend, SendState, SendStage, OnOne
  <2>2. CASE ~SendReturns(m)
    BY <1>0, <1>14, <2>2, States DEF MarkNext, SendAt, Key, SendState, SendStage, OnOne
  <2> QED
    BY <2>1, <2>2
<1>15. ASSUME Mark(m) PROVE Typed
  BY <1>0, <1>15 DEF Mark, SendAt, Loop, SendReturns, NoSend, SendState, SendStage, OnOne
<1>16. ASSUME Unwound(m) PROVE Typed
  BY <1>0, <1>16 DEF Unwound, SendAt, SendReturns, NoSend, SendState, SendStage, OnOne
<1>17. ASSUME CrashSend(m) PROVE Typed
  BY <1>0, <1>17 DEF CrashSend, SendReturns, NoSend, SendState, SendStage, OnOne
<1>18. ASSUME Compare(m) PROVE Typed
  BY <1>0, <1>18 DEF Compare, SendAt, Goto, SendState, SendStage, OnOne
<1>19. ASSUME Present(m) PROVE Typed
  <2>1. /\ s.at \in {"inInbox", "inArchive"} /\ UNCHANGED recv
        /\ \/ \E l \in {"recheck", "failing"} : Goto(m, l)
           \/ Loop(m, "routed", s.todo \ {s.cur})
    BY <1>19 DEF Present, SendAt
  <2>2. ASSUME NEW l \in {"recheck", "failing"}, Goto(m, l) PROVE Typed
    BY <1>0, <2>1, <2>2 DEF Goto, SendState, SendStage, OnOne
  <2>3. CASE Loop(m, "routed", s.todo \ {s.cur})
    BY <1>0, <2>1, <2>3 DEF Loop, SendState, SendStage, OnOne
  <2> QED
    BY <2>1, <2>2, <2>3
<1>20. ASSUME Reread(m) PROVE Typed
  BY <1>0, <1>20 DEF Reread, SendAt, Goto, Loop, SendState, SendStage, OnOne
<1> QED
  BY <1>1, <1>2, <1>3, <1>4, <1>5, <1>6, <1>7, <1>8, <1>9, <1>10, <1>11, <1>12, <1>13, <1>14, <1>15, <1>16, <1>17, <1>18, <1>19, <1>20 DEF SendStep

LEMMA RecvTyped ==
  ASSUME TypeOK, Shape, NEW a \in Agent, BeginReceive(a) \/ RecvStep(a) \/ CrashRecv(a)
  PROVE  /\ recv' \in [Agent -> RecvState]
         /\ \A b \in Agent : b # a => recv'[b] = recv[b]
         /\ recv'[a].at \in {"observe", "take"} => recv'[a].cur \in Msg
         /\ recv'[a].at = "observe" => recv'[a].view \in State
         /\ UNCHANGED send
<1> DEFINE s == recv[a]
           Typed == /\ recv' \in [Agent -> RecvState]
                    /\ \A b \in Agent : b # a => recv'[b] = recv[b]
                    /\ recv'[a].at \in {"observe", "take"} => recv'[a].cur \in Msg
                    /\ recv'[a].at = "observe" => recv'[a].view \in State
                    /\ UNCHANGED send
<1>0. /\ recv \in [Agent -> RecvState]
      /\ s \in RecvState
      /\ s.at \in {"observe", "take"} => s.cur \in Msg
      /\ s.at = "observe" => s.view \in State
      /\ receipt \in [Key -> State \union {None}]
      /\ inbox[a] \subseteq Msg
  BY DEF TypeOK, Shape
<1>1. ASSUME BeginReceive(a) PROVE Typed
  BY <1>0, <1>1 DEF BeginReceive, NoRecv, RecvState
<1>2. ASSUME RecvReturns(a), UNCHANGED send PROVE Typed
  BY <1>0, <1>2 DEF RecvReturns, NoRecv, RecvState
<1>3. ASSUME Open(a) PROVE Typed
  <2>1. CASE RecvReturns(a)
    BY <1>2, <1>3, <2>1 DEF Open
  <2>2. ASSUME NEW m \in s.todo, recv' = [recv EXCEPT ![a].todo = @ \ {m}] PROVE Typed
    BY <1>0, <1>3, <2>2 DEF Open, RecvAt, RecvState
  <2>3. ASSUME NEW m \in s.todo,
               recv' = [recv EXCEPT
                          ![a].todo = @ \ {m}, ![a].cur = m, ![a].view = receipt[<<m, a>>],
                          ![a].at = IF m \notin inbox[a] THEN "open"
                                    ELSE IF receipt[<<m, a>>] = None THEN "take" ELSE "observe"]
        PROVE  Typed
    <3>1. m \in Msg /\ receipt[<<m, a>>] \in State \union {None}
      BY <1>0 DEF RecvState, Key
    <3> QED
      BY <1>0, <1>3, <2>3, <3>1 DEF Open, RecvAt, RecvState
  <2> QED
    BY <1>3, <2>1, <2>2, <2>3 DEF Open
<1>4. ASSUME Observe(a) PROVE Typed
  <2>1. CASE RecvReturns(a)
    BY <1>2, <1>4, <2>1 DEF Observe
  <2>2. CASE recv' = [recv EXCEPT ![a].at = "take"]
    BY <1>0, <1>4, <2>2 DEF Observe, RecvAt, RecvState
  <2>3. CASE /\ recv' = [recv EXCEPT ![a].view = ObserveTarget(s.view)]
             /\ s.view \notin Terminal \union {"observed", "acted"}
    <3>1. ObserveTarget(s.view) \in State
      BY <1>0, <1>4, <2>3, Targets DEF Observe, RecvAt
    <3> QED
      BY <1>0, <1>4, <2>3, <3>1 DEF Observe, RecvAt, RecvState
  <2> QED
    BY <1>4, <2>1, <2>2, <2>3 DEF Observe
<1>5. ASSUME Take(a) PROVE Typed
  <2>1. CASE RecvReturns(a)
    BY <1>2, <1>5, <2>1 DEF Take
  <2>2. CASE recv' = [recv EXCEPT ![a].at = "open", ![a].batch = @ \union {recv[a].cur}]
    BY <1>0, <1>5, <2>2 DEF Take, RecvAt, RecvState
  <2> QED
    BY <1>5, <2>1, <2>2 DEF Take
<1>6. ASSUME CrashRecv(a) PROVE Typed
  BY <1>2, <1>6 DEF CrashRecv
<1> QED
  BY <1>1, <1>3, <1>4, <1>5, <1>6 DEF RecvStep

-----------------------------------------------------------------------------
(* Receipts.                                                                *)

\* send_message gives the next recipient its first receipt.
CreatesReceipt(m, r) ==
  /\ SendAt(m, "create") /\ r \in send[m].todo
  /\ receipt' = [receipt EXCEPT ![<<m, r>>] = IF @ = None THEN "created" ELSE @]

\* The envelope is where a proof of delivery needs it.
Backed(m, r) == HasCopy(m, r) /\ m \in outbox

MovesReceipt(k, to) ==
  /\ receipt[k] # None /\ to \in State
  /\ receipt[k] = to \/ Ledger!CanTransition(receipt[k], to)
  /\ receipt' = [receipt EXCEPT ![k] = to]

\* Who may be moving it to a proven delivery.
Delivering(m, r) ==
  \/ SendAt(m, "confirm") /\ send[m].cur = r
  \/ RecvAt(r, "observe") /\ recv[r].cur = m

\* send_message is about to reject the receipt, which it has seen at created.
Rejecting(m, r) ==
  /\ send[m].at \in {"mark", "markall"}
  /\ send[m].cur = r /\ send[m].view = "created"

\* Every step leaves the receipts alone, creates one or moves one.
ReceiptStep ==
  \/ UNCHANGED receipt
  \/ \E m \in Msg : \E r \in send[m].todo : CreatesReceipt(m, r)
  \/ \E m \in Msg, r \in Agent, to \in State :
       /\ MovesReceipt(<<m, r>>, to)
       /\ to \in {"delivered", "observed"} => Delivering(m, r)
       /\ to = "rejected" => Rejecting(m, r) \/ "rejected" \in OperatorMoves

LEMMA ReceiptSteps ==
  ASSUME OnlyMailboxDelivers, TypeOK, Shape, [Next]_vars
  PROVE  /\ ReceiptStep
         /\ receipt' \in [Key -> State \union {None}]
         /\ actor' \in [Key -> {None, "sender", "receiver", "operator"}]
<1> DEFINE Typed == /\ receipt' \in [Key -> State \union {None}]
                    /\ actor' \in [Key -> {None, "sender", "receiver", "operator"}]
<1>0. /\ receipt \in [Key -> State \union {None}]
      /\ actor \in [Key -> {None, "sender", "receiver", "operator"}]
      /\ \A m \in Msg : send[m].todo \subseteq Agent
      /\ \A m \in Msg : send[m].at \in OnOne => send[m].cur \in Agent
  BY DEF TypeOK, Shape, SendState
<1>1. ASSUME UNCHANGED ledger PROVE ReceiptStep /\ Typed
  BY <1>0, <1>1 DEF ledger, ReceiptStep
<1>2. ASSUME NEW m \in Msg, NEW r \in Agent, NEW to \in State,
             NEW who \in {"sender", "receiver", "operator"}, SetState(<<m, r>>, to, who),
             to \in {"delivered", "observed"} => Delivering(m, r),
             to = "rejected" => Rejecting(m, r) \/ "rejected" \in OperatorMoves
      PROVE  ReceiptStep /\ Typed
  <2>1. <<m, r>> \in Key
    BY DEF Key
  <2>2. MovesReceipt(<<m, r>>, to)
    BY <1>2, <2>1, States DEF SetState, Grants, MovesReceipt
  <2> QED
    BY <1>2, <2>1, <2>2, SetStateType DEF ReceiptStep
<1>3. ASSUME NEW m \in Msg, CreateReceipts(m) PROVE ReceiptStep /\ Typed
  <2>1. CASE UNCHANGED ledger
    BY <1>1, <2>1
  <2>2. ASSUME NEW r \in send[m].todo,
               receipt' = [receipt EXCEPT ![<<m, r>>] = IF @ = None THEN "created" ELSE @],
               actor' = [actor EXCEPT ![<<m, r>>] =
                           IF receipt[<<m, r>>] = None THEN "sender" ELSE @]
        PROVE  ReceiptStep /\ Typed
    <3>1. CreatesReceipt(m, r)
      BY <1>3, <2>2 DEF CreateReceipts, CreatesReceipt
    <3>2. Typed
      BY <1>0, <2>2, Targets
    <3> QED
      BY <3>1, <3>2 DEF ReceiptStep
  <2> QED
    BY <1>3, <2>1, <2>2 DEF CreateReceipts
<1>4. ASSUME NEW m \in Msg, Accept(m) \/ Select(m) \/ Confirm(m) \/ Mark(m)
      PROVE  ReceiptStep /\ Typed
  <2>1. CASE UNCHANGED ledger
    BY <1>1, <2>1
  <2>2. ASSUME NEW to \in {"accepted", "routed"} \union {"rejected", "delivery_unknown"},
               SetState(Here(m), to, "sender"), send[m].cur \in Agent,
               to = "rejected" => Rejecting(m, send[m].cur)
        PROVE  ReceiptStep /\ Typed
    BY <1>2, <2>2, Targets DEF Here
  <2>3. ASSUME SetState(Here(m), "delivered", "sender"), Confirm(m)
        PROVE  ReceiptStep /\ Typed
    <3>1. Delivering(m, send[m].cur) /\ send[m].cur \in Agent
      BY <1>0, <2>3 DEF Confirm, Delivering, SendAt, OnOne
    <3> QED
      BY <1>2, <2>3, <3>1, Targets DEF Here
  <2>4. CASE Accept(m)
    BY <1>0, <2>1, <2>2, <2>4 DEF Accept, Record, Throws, SendAt, OnOne
  <2>5. CASE Select(m)
    BY <1>0, <2>1, <2>2, <2>5 DEF Select, Record, Throws, SendAt, OnOne
  <2>6. CASE Confirm(m)
    BY <2>1, <2>3, <2>6 DEF Confirm, Record, Throws
  <2>7. CASE Mark(m)
    <3>1. /\ send[m].cur \in Agent
          /\ FailureTarget(send[m].view) \in {"rejected", "delivery_unknown"}
      BY <1>0, <2>7, Targets DEF Mark, SendAt, OnOne, Shape
    <3>2. FailureTarget(send[m].view) = "rejected" => Rejecting(m, send[m].cur)
      BY <2>7 DEF Mark, SendAt, Rejecting, FailureTarget
    <3> QED
      BY <2>1, <2>2, <2>7, <3>1, <3>2 DEF Mark, Record, Throws
  <2> QED
    BY <1>4, <2>4, <2>5, <2>6, <2>7
<1>5. ASSUME NEW a \in Agent, Observe(a) PROVE ReceiptStep /\ Typed
  <2>1. CASE UNCHANGED ledger
    BY <1>1, <2>1
  <2>2. ASSUME recv[a].view \notin Terminal \union {"observed", "acted"},
               SetState(<<recv[a].cur, a>>, ObserveTarget(recv[a].view), "receiver")
        PROVE  ReceiptStep /\ Typed
    <3>1. /\ recv[a].cur \in Msg /\ ObserveTarget(recv[a].view) \in State
          /\ ObserveTarget(recv[a].view) # "rejected"
      BY <1>5, <2>2, Targets DEF Observe, RecvAt, Shape
    <3>2. Delivering(recv[a].cur, a)
      BY <1>5 DEF Observe, Delivering
    <3> QED
      BY <1>2, <2>2, <3>1, <3>2
  <2> QED
    BY <1>5, <2>1, <2>2 DEF Observe, Record, Throws
<1>6. ASSUME NEW k \in Key, NEW to \in State, Operator(k, to) PROVE ReceiptStep /\ Typed
  <2>1. PICK m \in Msg, r \in Agent : k = <<m, r>>
    BY DEF Key
  <2>2. /\ to \notin {"delivered", "observed"} /\ to \in OperatorMoves
        /\ SetState(<<m, r>>, to, "operator")
    BY <1>6, <2>1 DEF Operator, OnlyMailboxDelivers
  <2> QED
    BY <1>2, <2>2
<1>7. ASSUME NEW m \in Msg,
             BeginSend(m) \/ WriteOutbox(m) \/ AcceptNext(m) \/ Publish(m) \/ RouteNext(m)
             \/ Persist(m) \/ Compare(m) \/ Verify(m) \/ Present(m) \/ Recheck(m) \/ Reread(m)
             \/ AfterRecipient(m) \/ MarkNext(m) \/ Unwound(m) \/ CrashSend(m)
      PROVE  UNCHANGED ledger
  BY <1>7 DEF BeginSend, WriteOutbox, AcceptNext, Publish, RouteNext, Persist, Compare, Verify,
              Present, Recheck, Reread, AfterRecipient, MarkNext, Unwound, CrashSend
<1>8. ASSUME NEW a \in Agent,
             BeginReceive(a) \/ Open(a) \/ Take(a) \/ CrashRecv(a) \/ Register(a)
             \/ \E m \in Msg : Acknowledge(a, m)
      PROVE  UNCHANGED ledger
  BY <1>8 DEF BeginReceive, Open, Take, CrashRecv, Register, Acknowledge
<1>9. UNCHANGED vars => UNCHANGED ledger
  BY DEF vars
<1> QED
  BY <1>1, <1>3, <1>4, <1>5, <1>6, <1>7, <1>8, <1>9 DEF Next, SendStep, RecvStep

\* The lemmas above, for every kind of step; and the files.
LEMMA TypePreserved ==
  ASSUME OnlyMailboxDelivers, TypeOK, Shape, [Next]_vars
  PROVE  TypeOK' /\ Shape'
<1> DEFINE Sent(m)  == BeginSend(m) \/ SendStep(m) \/ CrashSend(m)
           Recvd(a) == BeginReceive(a) \/ RecvStep(a) \/ CrashRecv(a)
           Ops == send' \in [Msg -> SendState] /\ recv' \in [Agent -> RecvState] /\ Shape'
           Files == /\ outbox' \in SUBSET Msg
                    /\ inbox' \in [Agent -> SUBSET Msg] /\ archive' \in [Agent -> SUBSET Msg]
                    /\ registered' \in SUBSET Agent
                    /\ handed' \in [Agent -> SUBSET Msg] /\ confirmed' \in SUBSET Msg
                    /\ intended' \in [Msg -> SUBSET Agent]
                    /\ faults' \in 0 .. MaxFaults
<1>0. /\ send \in [Msg -> SendState] /\ recv \in [Agent -> RecvState]
      /\ outbox \in SUBSET Msg
      /\ inbox \in [Agent -> SUBSET Msg] /\ archive \in [Agent -> SUBSET Msg]
      /\ registered \in SUBSET Agent
      /\ handed \in [Agent -> SUBSET Msg] /\ confirmed \in SUBSET Msg
      /\ intended \in [Msg -> SUBSET Agent]
      /\ faults \in 0 .. MaxFaults /\ MaxFaults \in Nat
  BY MailboxAssumption DEF TypeOK
<1>1. ASSUME NEW m \in Msg, Sent(m) PROVE Ops
  BY <1>0, <1>1, SendTyped DEF Shape
<1>2. ASSUME NEW a \in Agent, Recvd(a) PROVE Ops
  BY <1>0, <1>2, RecvTyped DEF Shape
<1>3. ASSUME UNCHANGED <<send, recv>> PROVE Ops
  BY <1>0, <1>3 DEF Shape
<1>4. ASSUME UNCHANGED faults \/ Fault PROVE faults' \in 0 .. MaxFaults
  BY <1>0, <1>4 DEF Fault
<1>5. ASSUME NEW m \in Msg, Sent(m) PROVE Files
  <2>1. /\ Sender[m] \in Agent /\ Resolve(m) \in SUBSET Agent
        /\ send[m].at \in OnOne => send[m].cur \in Agent
        /\ send[m].todo \subseteq Agent
    BY <1>0, MailboxAssumption DEF Resolve, IsBroadcast, SendState, Shape
  <2>2. UNCHANGED faults \/ Fault
    BY <1>5 DEF BeginSend, SendStep, CrashSend, CreateReceipts, WriteOutbox, AcceptNext,
                Accept, Publish, RouteNext, Select, Persist, Compare, Confirm, Verify, Present,
                Recheck, Reread, AfterRecipient, MarkNext, Mark, Unwound, Record, Throws
  <2>3. CASE BeginSend(m)
    BY <1>0, <1>4, <2>1, <2>2, <2>3 DEF BeginSend, files
  <2>4. CASE WriteOutbox(m)
    BY <1>0, <1>4, <2>1, <2>2, <2>4 DEF WriteOutbox, past
  <2>5. CASE RouteNext(m) \/ Select(m)
    BY <1>0, <1>4, <2>1, <2>2, <2>5 DEF RouteNext, Select, past, SendAt, OnOne
  <2>6. CASE Persist(m) \/ Recheck(m)
    BY <1>0, <1>4, <2>2, <2>6 DEF Persist, Recheck, past
  <2>7. CASE AfterRecipient(m)
    BY <1>0, <1>4, <2>2, <2>7 DEF AfterRecipient, files
  <2>8. CASE CreateReceipts(m) \/ AcceptNext(m) \/ Accept(m) \/ Publish(m) \/ Confirm(m)
             \/ Compare(m) \/ Verify(m) \/ Present(m) \/ Reread(m) \/ MarkNext(m) \/ Mark(m)
             \/ Unwound(m) \/ CrashSend(m)
    <3>1. UNCHANGED <<files, past>>
      BY <2>8 DEF CreateReceipts, AcceptNext, Accept, Publish, Compare, Confirm, Verify, Present,
                  Reread, MarkNext, Mark, Unwound, CrashSend
    <3> QED
      BY <1>0, <1>4, <2>2, <3>1 DEF files, past
  <2> QED
    BY <1>5, <2>3, <2>4, <2>5, <2>6, <2>7, <2>8 DEF SendStep
<1>6. ASSUME NEW a \in Agent, Recvd(a) PROVE Files
  <2>1. /\ recv[a].batch \subseteq Msg
        /\ recv[a].at = "take" => recv[a].cur \in Msg
    BY <1>0 DEF RecvState, Shape
  <2>2. UNCHANGED faults \/ Fault
    BY <1>6 DEF BeginReceive, RecvStep, CrashRecv, Open, Observe, Take, Record, Throws
  <2>3. CASE Take(a)
    BY <1>0, <1>4, <2>1, <2>2, <2>3 DEF Take, RecvAt, ToArchive, past
  <2>4. CASE Open(a)
    BY <1>0, <1>4, <2>1, <2>2, <2>4 DEF Open, files
  <2>5. CASE BeginReceive(a) \/ Observe(a) \/ CrashRecv(a)
    <3>1. UNCHANGED <<files, past>>
      BY <2>5 DEF BeginReceive, Observe, CrashRecv
    <3> QED
      BY <1>0, <1>4, <2>2, <3>1 DEF files, past
  <2> QED
    BY <1>6, <2>3, <2>4, <2>5 DEF RecvStep
<1>7. ASSUME NEW a \in Agent, NEW m \in Msg, Acknowledge(a, m) PROVE Files /\ Ops
  BY <1>0, <1>3, <1>7 DEF Acknowledge, ToArchive, past
<1>8. ASSUME NEW a \in Agent, Register(a) PROVE Files /\ Ops
  BY <1>0, <1>3, <1>8 DEF Register, past
<1>9. ASSUME NEW k \in Key, NEW to \in State, Operator(k, to) PROVE Files /\ Ops
  BY <1>0, <1>3, <1>4, <1>9 DEF Operator, files, past
<1>10. ASSUME UNCHANGED vars PROVE Files /\ Ops
  BY <1>0, <1>3, <1>10 DEF vars, files, past
<1>11. Files /\ Ops
  BY <1>1, <1>2, <1>5, <1>6, <1>7, <1>8, <1>9, <1>10 DEF Next
<1> QED
  BY <1>11, ReceiptSteps DEF TypeOK

LEMMA TypeInitially == Init => TypeOK /\ Shape
<1> SUFFICES ASSUME Init PROVE TypeOK /\ Shape
  OBVIOUS
<1>1. NoSend \in SendState /\ NoSend.at = "idle"
  BY DEF NoSend, SendState, SendStage
<1>2. NoRecv \in RecvState /\ NoRecv.at = "idle"
  BY DEF NoRecv, RecvState
<1>3. \A m \in Msg : send[m] = NoSend
  BY DEF Init
<1>4. \A a \in Agent : recv[a] = NoRecv
  BY DEF Init
<1>5. Shape
  BY <1>1, <1>2, <1>3, <1>4 DEF Shape, OnOne
<1>6. TypeOK
  BY <1>1, <1>2, MailboxAssumption DEF Init, TypeOK
<1> QED
  BY <1>5, <1>6

\* Every variable of the mailbox stays within its type.
THEOREM MailboxTypeCorrect == ASSUME OnlyMailboxDelivers PROVE Spec => []TypeOK
<1>1. Init => TypeOK /\ Shape
  BY TypeInitially
<1>2. TypeOK /\ Shape /\ [Next]_vars => TypeOK' /\ Shape'
  BY TypePreserved
<1> QED
  BY <1>1, <1>2, PTL DEF Spec

-----------------------------------------------------------------------------
(* Copies.                                                                  *)

Existing(m) == {r \in Agent : receipt[<<m, r>>] # None}

\* send_message may be writing m into the inbox of a.
Copying(m, a) == (SendAt(m, "persist") \/ SendAt(m, "recheck")) /\ send[m].cur = a

\* Envelopes are never deleted, receipts neither; a new copy is a sender's work.
LEMMA NothingIsLost ==
  ASSUME OnlyMailboxDelivers, TypeOK, Shape, [Next]_vars
  PROVE  /\ outbox \subseteq outbox'
         /\ \A m \in Msg, a \in Agent :
              /\ HasCopy(m, a) => HasCopy(m, a)'
              /\ HasCopy(m, a)' => HasCopy(m, a) \/ Copying(m, a)
         /\ \A m \in Msg :
              /\ Existing(m) \subseteq Existing(m)'
              /\ ~SendAt(m, "create") => Existing(m)' = Existing(m)
              /\ \A r \in Agent : r \in Existing(m)' \ Existing(m) => r \in send[m].todo
<1>0. /\ inbox \in [Agent -> SUBSET Msg] /\ archive \in [Agent -> SUBSET Msg]
      /\ receipt \in [Key -> State \union {None}]
      /\ \A m \in Msg : send[m].todo \subseteq Agent
  BY DEF TypeOK, SendState
<1> DEFINE Kept == /\ outbox \subseteq outbox'
                   /\ \A m \in Msg, a \in Agent :
                        /\ HasCopy(m, a) => HasCopy(m, a)'
                        /\ HasCopy(m, a)' => HasCopy(m, a) \/ Copying(m, a)
<1>1. ASSUME UNCHANGED <<inbox, archive>>, outbox \subseteq outbox' PROVE Kept
  BY <1>1 DEF HasCopy
<1>2. ASSUME NEW m \in Msg, Persist(m) \/ Recheck(m) PROVE Kept
  BY <1>0, <1>2 DEF Persist, Recheck, HasCopy, Copying
<1>3. ASSUME NEW a \in Agent, NEW m \in Msg, ToArchive(a, m), UNCHANGED outbox PROVE Kept
  BY <1>0, <1>3 DEF ToArchive, HasCopy
<1>4. ASSUME NEW a \in Agent, Take(a) PROVE Kept
  <2>1. recv[a].cur \in Msg
    BY <1>4 DEF Take, RecvAt, Shape
  <2> QED
    BY <1>1, <1>3, <1>4, <2>1 DEF Take
<1>5. ASSUME NEW a \in Agent, NEW m \in Msg, Acknowledge(a, m) PROVE Kept
  BY <1>3, <1>5 DEF Acknowledge
<1>6. ASSUME NEW m \in Msg,
             BeginSend(m) \/ CreateReceipts(m) \/ WriteOutbox(m) \/ AcceptNext(m) \/ Accept(m)
             \/ Publish(m) \/ RouteNext(m) \/ Select(m) \/ Compare(m) \/ Confirm(m) \/ Verify(m)
             \/ Present(m) \/ Reread(m) \/ AfterRecipient(m) \/ MarkNext(m) \/ Mark(m) \/ Unwound(m) \/ CrashSend(m)
      PROVE  UNCHANGED <<inbox, archive>> /\ outbox \subseteq outbox'
  BY <1>6 DEF BeginSend, CreateReceipts, WriteOutbox, AcceptNext, Accept, Publish, RouteNext,
              Select, Compare, Confirm, Verify, Present, Reread, AfterRecipient, MarkNext, Mark,
              Unwound, CrashSend, files
<1>7. ASSUME NEW a \in Agent,
             BeginReceive(a) \/ Open(a) \/ Observe(a) \/ CrashRecv(a) \/ Register(a)
      PROVE  UNCHANGED <<inbox, archive>> /\ outbox \subseteq outbox'
  BY <1>7 DEF BeginReceive, Open, Observe, CrashRecv, Register, files
<1>8. ASSUME NEW k \in Key, NEW to \in State, Operator(k, to)
      PROVE  UNCHANGED <<inbox, archive>> /\ outbox \subseteq outbox'
  BY <1>8 DEF Operator, files
<1>9. UNCHANGED vars => UNCHANGED <<inbox, archive>> /\ outbox \subseteq outbox'
  BY DEF vars, files
<1>10. Kept
  BY <1>1, <1>2, <1>4, <1>5, <1>6, <1>7, <1>8, <1>9 DEF Next, SendStep, RecvStep
<1>11. \A m \in Msg, r \in Agent : <<m, r>> \in Key
  BY DEF Key
<1>12. ASSUME NEW m \in Msg
       PROVE  /\ Existing(m) \subseteq Existing(m)'
              /\ ~SendAt(m, "create") => Existing(m)' = Existing(m)
              /\ \A r \in Agent : r \in Existing(m)' \ Existing(m) => r \in send[m].todo
  <2>1. CASE UNCHANGED receipt
    BY <2>1 DEF Existing
  <2>2. ASSUME NEW n \in Msg, NEW q \in send[n].todo, CreatesReceipt(n, q)
        PROVE  /\ Existing(m) \subseteq Existing(m)'
               /\ ~SendAt(m, "create") => Existing(m)' = Existing(m)
               /\ \A r \in Agent : r \in Existing(m)' \ Existing(m) => r \in send[m].todo
    <3>1. "created" # None
      BY States, Targets
    <3>2. \A r \in Agent : <<m, r>> # <<n, q>> => receipt'[<<m, r>>] = receipt[<<m, r>>]
      BY <1>0, <1>11, <2>2 DEF CreatesReceipt
    <3>3. receipt'[<<n, q>>] # None
      BY <1>0, <1>11, <2>2, <3>1 DEF CreatesReceipt
    <3> QED
      BY <2>2, <3>2, <3>3 DEF Existing, CreatesReceipt
  <2>3. ASSUME NEW n \in Msg, NEW q \in Agent, NEW to \in State, MovesReceipt(<<n, q>>, to)
        PROVE  Existing(m)' = Existing(m)
    <3>1. \A r \in Agent : receipt'[<<m, r>>] # None <=> receipt[<<m, r>>] # None
      BY <1>0, <1>11, <2>3, States DEF MovesReceipt
    <3> QED
      BY <3>1 DEF Existing
  <2> QED
    BY <2>1, <2>2, <2>3, ReceiptSteps DEF ReceiptStep
<1> QED
  BY <1>10, <1>12

PastOutbox == {"accept", "accepting", "publish", "route", "select", "persist", "compare",
               "confirm", "verify", "inInbox", "inArchive", "recheck", "reread", "routed",
               "failing", "mark"}

\* A message from before there were receipts.
Old(m) == \E a \in Agent : <<m, a>> \in Legacy

Copies ==
  /\ \A m \in Msg : Old(m) => SendAt(m, "idle") /\ Existing(m) = {}
  /\ \A m \in Msg, a \in Agent : HasCopy(m, a) /\ ~Old(m) => m \in outbox
  /\ \A a \in Agent : RecvAt(a, "observe") =>
       HasCopy(recv[a].cur, a) /\ receipt[<<recv[a].cur, a>>] # None
  /\ \A m \in Msg : /\ send[m].at \in PastOutbox => m \in outbox
                    /\ SendAt(m, "confirm") => HasCopy(m, send[m].cur)
  /\ ProvenHasCopy

\* Where send_message stands, and what it has done by then.
LEMMA SendProgress ==
  ASSUME TypeOK, Shape, NEW m \in Msg, BeginSend(m) \/ SendStep(m) \/ CrashSend(m)
  PROVE  /\ send[m].at = "idle" => ~Old(m)
         /\ send'[m].at \in PastOutbox => send[m].at \in PastOutbox \/ m \in outbox'
         /\ send'[m].at = "confirm" => m \in inbox'[send[m].cur] /\ send'[m].cur = send[m].cur
<1> DEFINE s == send[m]
           Progress ==
             /\ send[m].at = "idle" => ~Old(m)
             /\ send'[m].at \in PastOutbox => send[m].at \in PastOutbox \/ m \in outbox'
             /\ send'[m].at = "confirm" => m \in inbox'[send[m].cur] /\ send'[m].cur = send[m].cur
<1>0. /\ send \in [Msg -> SendState] /\ inbox \in [Agent -> SUBSET Msg]
      /\ s \in SendState /\ (s.at \in OnOne => s.cur \in Agent)
  BY DEF TypeOK, Shape, SendState
<1>1. ASSUME SendReturns(m), s.at # "idle" PROVE Progress
  BY <1>0, <1>1 DEF SendReturns, NoSend, PastOutbox
<1>2. CASE BeginSend(m)
  BY <1>0, <1>2 DEF BeginSend, SendAt, PastOutbox, SendState, Old
<1>3. CASE CreateReceipts(m)
  <2>1. /\ s.at = "create"
        /\ \/ \E r \in s.todo : Loop(m, "create", s.todo \ {r})
           \/ SendReturns(m)
           \/ Goto(m, "outbox")
    BY <1>3 DEF CreateReceipts, SendAt
  <2>2. ASSUME NEW T, Loop(m, "create", T) \/ Goto(m, "outbox") PROVE Progress
    BY <1>0, <2>1, <2>2 DEF Loop, Goto, PastOutbox, SendState
  <2> QED
    BY <1>1, <2>1, <2>2
<1>4. CASE WriteOutbox(m)
  BY <1>0, <1>4 DEF WriteOutbox, SendAt, Loop, PastOutbox, SendState
<1>5. CASE AcceptNext(m)
  <2>1. /\ s.at = "accept"
        /\ \/ \E r \in s.todo : send' = [send EXCEPT ![m].at = "accepting", ![m].cur = r]
           \/ \E l \in {"accept", "publish", "route", "unwind"}, T \in SUBSET Agent : Loop(m, l, T)
    BY <1>0, <1>5 DEF AcceptNext, SendAt, SendState
  <2>2. ASSUME NEW r \in s.todo, send' = [send EXCEPT ![m].at = "accepting", ![m].cur = r]
        PROVE  Progress
    BY <1>0, <2>1, <2>2 DEF PastOutbox, SendState
  <2>3. ASSUME NEW l \in {"accept", "publish", "route", "unwind"}, NEW T \in SUBSET Agent,
               Loop(m, l, T)
        PROVE  Progress
    BY <1>0, <2>1, <2>3 DEF Loop, PastOutbox, SendState
  <2> QED
    BY <2>1, <2>2, <2>3
<1>6. CASE Accept(m) \/ Publish(m)
  BY <1>0, <1>6 DEF Accept, Publish, SendAt, Loop, Goto, PastOutbox, SendState
<1>7. CASE RouteNext(m)
  BY <1>0, <1>7 DEF RouteNext, SendAt, PastOutbox, SendState
<1>8. CASE Select(m) \/ Confirm(m)
  BY <1>0, <1>8 DEF Select, Confirm, SendAt, Loop, Goto, PastOutbox, SendState
<1>15. CASE Compare(m)
  <2>1. /\ s.at = "compare" /\ UNCHANGED files
        /\ (m \in inbox[s.cur] /\ Goto(m, "confirm")) \/ Goto(m, "failing")
    BY <1>15 DEF Compare, SendAt
  <2>2. ASSUME NEW l, Goto(m, l) PROVE send'[m].at = l /\ send'[m].cur = s.cur
    BY <1>0, <2>2 DEF Goto, SendState
  <2> QED
    BY <2>1, <2>2 DEF PastOutbox, files
<1>16. CASE Verify(m) \/ Present(m) \/ Reread(m)
  <2>1. /\ s.at \in {"verify", "inInbox", "inArchive", "reread"}
        /\ \/ \E l \in {"inInbox", "inArchive", "recheck", "failing"} : Goto(m, l)
           \/ Loop(m, "routed", s.todo \ {s.cur})
    BY <1>16 DEF Verify, Present, Reread, SendAt
  <2>2. ASSUME NEW l \in {"inInbox", "inArchive", "recheck", "failing"}, Goto(m, l) PROVE Progress
    BY <1>0, <2>1, <2>2 DEF Goto, PastOutbox, SendState
  <2>3. CASE Loop(m, "routed", s.todo \ {s.cur})
    BY <1>0, <2>1, <2>3 DEF Loop, PastOutbox, SendState
  <2> QED
    BY <2>1, <2>2, <2>3
<1>9. CASE Persist(m) \/ Recheck(m)
  <2>1. /\ s.at \in {"persist", "recheck"} /\ s.cur \in Agent
        /\ \/ inbox' = [inbox EXCEPT ![s.cur] = @ \union {m}] /\ Goto(m, "confirm")
           \/ \E T : Loop(m, "routed", T)
           \/ \E l \in {"failing", "compare", "reread"} : Goto(m, l)
    BY <1>0, <1>9 DEF Persist, Recheck, SendAt, OnOne
  <2>2. CASE inbox' = [inbox EXCEPT ![s.cur] = @ \union {m}] /\ Goto(m, "confirm")
    BY <1>0, <2>1, <2>2 DEF Goto, PastOutbox, SendState
  <2>3. ASSUME NEW T, Loop(m, "routed", T) PROVE Progress
    BY <1>0, <2>1, <2>3 DEF Loop, PastOutbox, SendState
  <2>4. ASSUME NEW l \in {"failing", "compare", "reread"}, Goto(m, l) PROVE Progress
    BY <1>0, <2>1, <2>4 DEF Goto, PastOutbox, SendState
  <2> QED
    BY <2>1, <2>2, <2>3, <2>4
<1>10. CASE AfterRecipient(m)
  <2>1. s.at = "routed" /\ (Goto(m, "route") \/ SendReturns(m))
    BY <1>10 DEF AfterRecipient, SendAt
  <2>2. CASE Goto(m, "route")
    BY <1>0, <2>1, <2>2 DEF Goto, PastOutbox, SendState
  <2> QED
    BY <1>1, <2>1, <2>2
<1>11. CASE MarkNext(m)
  <2>1. s.at # "idle"
    BY <1>11 DEF MarkNext, SendAt
  <2>2. CASE ~SendReturns(m)
    BY <1>0, <1>11, <2>2 DEF MarkNext, SendAt, PastOutbox, SendState
  <2> QED
    BY <1>1, <2>1, <2>2
<1>12. CASE Mark(m)
  <2>1. /\ s.at \in {"mark", "markall"}
        /\ \/ \E T : Loop(m, IF s.at = "mark" THEN "routed" ELSE "unwind", T)
           \/ SendReturns(m)
    BY <1>12 DEF Mark, SendAt
  <2>2. ASSUME NEW T, Loop(m, IF s.at = "mark" THEN "routed" ELSE "unwind", T) PROVE Progress
    BY <1>0, <2>1, <2>2 DEF Loop, PastOutbox, SendState
  <2> QED
    BY <1>1, <2>1, <2>2
<1>13. CASE Unwound(m) \/ CrashSend(m)
  <2>1. s.at # "idle" /\ SendReturns(m)
    BY <1>13 DEF Unwound, CrashSend, SendAt
  <2> QED
    BY <1>1, <2>1
<1>14. Progress
  BY <1>2, <1>3, <1>4, <1>5, <1>6, <1>7, <1>8, <1>9, <1>10, <1>11, <1>12, <1>13,
     <1>15, <1>16 DEF SendStep
<1> QED
  BY <1>14

\* Where receive_messages stands when it is about to record an observation.
LEMMA RecvProgress ==
  ASSUME TypeOK, NEW a \in Agent, BeginReceive(a) \/ RecvStep(a) \/ CrashRecv(a),
         recv'[a].at = "observe"
  PROVE  \/ recv[a].at = "observe" /\ recv'[a].cur = recv[a].cur
         \/ /\ recv'[a].cur \in inbox[a]
            /\ receipt[<<recv'[a].cur, a>>] # None
<1>0. recv \in [Agent -> RecvState]
  BY DEF TypeOK
<1>1. CASE RecvReturns(a)
  BY <1>0, <1>1 DEF RecvReturns, NoRecv
<1>2. CASE BeginReceive(a)
  BY <1>0, <1>2 DEF BeginReceive, NoRecv
<1>3. CASE Open(a)
  <2>1. ASSUME NEW m \in recv[a].todo, recv' = [recv EXCEPT ![a].todo = @ \ {m}]
        PROVE  FALSE
    BY <1>0, <1>3, <2>1 DEF Open, RecvAt, RecvState
  <2>2. ASSUME NEW m \in recv[a].todo,
               recv' = [recv EXCEPT
                          ![a].todo = @ \ {m}, ![a].cur = m, ![a].view = receipt[<<m, a>>],
                          ![a].at = IF m \notin inbox[a] THEN "open"
                                    ELSE IF receipt[<<m, a>>] = None THEN "take" ELSE "observe"]
        PROVE  recv'[a].cur \in inbox[a] /\ receipt[<<recv'[a].cur, a>>] # None
    BY <1>0, <2>2 DEF RecvState
  <2> QED
    BY <1>1, <1>3, <2>1, <2>2 DEF Open
<1>4. CASE Observe(a)
  <2>1. recv[a].at = "observe"
    BY <1>4 DEF Observe, RecvAt
  <2>2. CASE recv' = [recv EXCEPT ![a].at = "take"]
    BY <1>0, <2>2 DEF RecvState
  <2>3. ASSUME NEW v, recv' = [recv EXCEPT ![a].view = v]
        PROVE  recv'[a].cur = recv[a].cur
    BY <1>0, <2>3 DEF RecvState
  <2> QED
    BY <1>1, <1>4, <2>1, <2>2, <2>3 DEF Observe
<1>5. CASE Take(a)
  BY <1>0, <1>1, <1>5 DEF Take, RecvState
<1> QED
  BY <1>1, <1>2, <1>3, <1>4, <1>5 DEF RecvStep, CrashRecv

\* Each call in progress moves by its own steps.
LEMMA OwnSteps ==
  ASSUME TypeOK, Shape, [Next]_vars
  PROVE  /\ \A m \in Msg :
              send'[m] = send[m] \/ BeginSend(m) \/ SendStep(m) \/ CrashSend(m)
         /\ \A a \in Agent :
              recv'[a] = recv[a] \/ BeginReceive(a) \/ RecvStep(a) \/ CrashRecv(a)
<1>1. ASSUME NEW a \in Agent, NEW m \in Msg, Acknowledge(a, m) PROVE UNCHANGED <<send, recv>>
  BY <1>1 DEF Acknowledge
<1>2. ASSUME NEW a \in Agent, Register(a) PROVE UNCHANGED <<send, recv>>
  BY <1>2 DEF Register
<1>3. ASSUME NEW k \in Key, NEW to \in State, Operator(k, to) PROVE UNCHANGED <<send, recv>>
  BY <1>3 DEF Operator
<1>4. UNCHANGED vars => UNCHANGED <<send, recv>>
  BY DEF vars
<1> QED
  BY <1>1, <1>2, <1>3, <1>4, SendTyped, RecvTyped DEF Next

LEMMA CopiesPreserved ==
  ASSUME OnlyMailboxDelivers, TypeOK, Shape, Copies, [Next]_vars PROVE Copies'
<1>1. ASSUME NEW m \in Msg, Old(m) PROVE SendAt(m, "idle")' /\ Existing(m)' = {}
  <2>1. SendAt(m, "idle") /\ Existing(m) = {}
    BY <1>1 DEF Copies
  <2>2. send'[m] = send[m]
    BY <1>1, <2>1, SendProgress, OwnSteps DEF SendAt
  <2>3. Existing(m)' = Existing(m)
    BY <2>1, NothingIsLost DEF SendAt
  <2> QED
    BY <2>1, <2>2, <2>3 DEF SendAt
<1>2. ASSUME NEW m \in Msg, NEW a \in Agent, HasCopy(m, a)', ~Old(m) PROVE m \in outbox'
  <2>1. HasCopy(m, a) \/ SendAt(m, "persist") \/ SendAt(m, "recheck")
    BY <1>2, NothingIsLost DEF Copying
  <2>2. m \in outbox
    BY <1>2, <2>1 DEF Copies, SendAt, PastOutbox
  <2> QED
    BY <2>2, NothingIsLost
<1>3. ASSUME NEW a \in Agent, recv'[a].at = "observe", NEW m \in Msg, m = recv'[a].cur
      PROVE  HasCopy(m, a)' /\ receipt'[<<m, a>>] # None
  <2>1. HasCopy(m, a) /\ a \in Existing(m)
    <3>1. CASE recv[a].at = "observe" /\ recv'[a].cur = recv[a].cur
      BY <1>3, <3>1 DEF Copies, RecvAt, Existing
    <3>2. CASE m \in inbox[a] /\ receipt[<<m, a>>] # None
      BY <3>2 DEF HasCopy, Existing
    <3> QED
      BY <1>3, <3>1, <3>2, RecvProgress, OwnSteps
  <2>2. HasCopy(m, a)' /\ a \in Existing(m)'
    BY <2>1, NothingIsLost
  <2> QED
    BY <2>2 DEF Existing
<1>4. ASSUME NEW m \in Msg, send'[m].at \in PastOutbox PROVE m \in outbox'
  <2>1. send[m].at \in PastOutbox \/ m \in outbox'
    BY <1>4, SendProgress, OwnSteps
  <2> QED
    BY <2>1, NothingIsLost DEF Copies
<1>5. ASSUME NEW m \in Msg, send'[m].at = "confirm", NEW r \in Agent, r = send'[m].cur
      PROVE  HasCopy(m, r)'
  <2>1. CASE send'[m] = send[m]
    <3>1. HasCopy(m, r)
      BY <1>5, <2>1 DEF Copies, SendAt
    <3> QED
      BY <3>1, NothingIsLost
  <2>2. CASE m \in inbox'[send[m].cur] /\ send'[m].cur = send[m].cur
    BY <1>5, <2>2 DEF HasCopy
  <2> QED
    BY <1>5, <2>1, <2>2, SendProgress, OwnSteps
<1>6. ASSUME NEW m \in Msg, NEW r \in Agent, receipt'[<<m, r>>] \in Proven
      PROVE  HasCopy(m, r)' /\ m \in outbox'
  <2>0. /\ <<m, r>> \in Key /\ receipt \in [Key -> State \union {None}]
        /\ \A n \in Msg : send[n].todo \subseteq Agent
    BY DEF Key, TypeOK, SendState
  <2>1. ASSUME receipt[<<m, r>>] \in Proven \/ (Delivering(m, r) /\ receipt[<<m, r>>] # None)
        PROVE  HasCopy(m, r) /\ m \in outbox
    <3>1. CASE receipt[<<m, r>>] \in Proven
      BY <3>1 DEF Copies, ProvenHasCopy
    <3>2. CASE SendAt(m, "confirm") /\ send[m].cur = r
      BY <3>2 DEF Copies, PastOutbox, SendAt
    <3>3. CASE RecvAt(r, "observe") /\ recv[r].cur = m
      <4>1. HasCopy(m, r) /\ Existing(m) # {}
        BY <3>3 DEF Copies, Existing
      <4> QED
        BY <4>1 DEF Copies
    <3> QED
      BY <2>1, <3>1, <3>2, <3>3 DEF Delivering
  <2>2. ASSUME receipt'[<<m, r>>] = receipt[<<m, r>>] PROVE HasCopy(m, r) /\ m \in outbox
    BY <1>6, <2>1, <2>2
  <2>3. ASSUME NEW n \in Msg, NEW q \in send[n].todo, CreatesReceipt(n, q)
        PROVE  receipt[<<m, r>>] \in Proven
    BY <1>6, <2>0, <2>3, States DEF CreatesReceipt, Key
  <2>4. ASSUME NEW n \in Msg, NEW q \in Agent, NEW to \in State, MovesReceipt(<<n, q>>, to),
               to \in {"delivered", "observed"} => Delivering(n, q),
               receipt'[<<m, r>>] # receipt[<<m, r>>]
        PROVE  HasCopy(m, r) /\ m \in outbox
    <3>1. n = m /\ q = r /\ to \in Proven /\ receipt[<<m, r>>] # None
      BY <1>6, <2>0, <2>4 DEF MovesReceipt, Key
    <3>2. CASE to \in {"delivered", "observed"}
      <4>1. Delivering(m, r)
        BY <2>4, <3>1, <3>2
      <4> QED
        BY <2>1, <3>1, <4>1
    <3>3. CASE to \in {"acted", "verified"}
      <4>1. Ledger!CanTransition(receipt[<<m, r>>], to) \/ receipt[<<m, r>>] = to
        BY <2>4, <3>1 DEF MovesReceipt
      <4>2. receipt[<<m, r>>] \in State
        BY <2>0, <3>1
      <4>3. receipt[<<m, r>>] \in Proven
        BY <3>1, <4>1, <4>2, <3>3, States DEF Ledger!CanTransition, Ledger!Allowed
      <4> QED
        BY <2>1, <4>3
    <3> QED
      BY <3>1, <3>2, <3>3, States
  <2>5. HasCopy(m, r) /\ m \in outbox
    <3>1. CASE UNCHANGED receipt
      BY <2>2, <3>1
    <3>2. CASE \E n \in Msg : \E q \in send[n].todo : CreatesReceipt(n, q)
      BY <2>1, <2>3, <3>2
    <3>3. CASE \E n \in Msg, q \in Agent, to \in State :
                 /\ MovesReceipt(<<n, q>>, to)
                 /\ to \in {"delivered", "observed"} => Delivering(n, q)
                 /\ to = "rejected" => Rejecting(n, q) \/ "rejected" \in OperatorMoves
      <4>1. CASE receipt'[<<m, r>>] # receipt[<<m, r>>]
        BY <2>4, <3>3, <4>1
      <4> QED
        BY <2>2, <4>1
    <3> QED
      BY <3>1, <3>2, <3>3, ReceiptSteps DEF ReceiptStep
  <2> QED
    BY <2>5, NothingIsLost
<1>7. \A m \in Msg : send'[m].at = "confirm" => send'[m].cur \in Agent
  BY TypePreserved DEF TypeOK, Shape, OnOne, SendState
<1>8. \A a \in Agent : recv'[a].at = "observe" => recv'[a].cur \in Msg
  BY TypePreserved DEF Shape
<1> QED
  BY <1>1, <1>2, <1>3, <1>4, <1>5, <1>6, <1>7, <1>8
     DEF Copies, SendAt, RecvAt, ProvenHasCopy, Old

-----------------------------------------------------------------------------
(* Recipients.                                                              *)

\* The stages in which the recipients that are done with have their copy.
Routing == {"publish", "route", "select", "persist", "compare", "confirm", "verify",
            "inInbox", "inArchive", "recheck", "reread", "routed", "failing", "mark"}

\* How far the send of m is: whom it is for, who has a receipt, who has a copy.
Reached(m) ==
  LET s == send[m] IN
  /\ s.at # "idle" => /\ s.rcpts # {} /\ s.todo \subseteq s.rcpts
                      /\ Existing(m) \subseteq s.rcpts
  /\ s.at = "create" => s.rcpts \ s.todo \subseteq Existing(m)
  /\ s.at \notin {"idle", "create"} => s.rcpts \subseteq Existing(m)
  /\ s.at \in Routing =>
       \A r \in s.rcpts : r \in s.todo \/ r \in s.failed \/ HasCopy(m, r)
  /\ s.at = "mark" => s.cur \in s.failed

\* Whom m was first sent to, and what is true once a send of it has returned.
Settled(m) ==
  /\ Existing(m) \subseteq intended[m]
  /\ ~IsBroadcast(m) => intended[m] \subseteq {Recipient[m]}
  /\ SendAt(m, "create") => send[m].todo \subseteq intended[m]
  /\ m \in confirmed =>
       /\ Existing(m) # {}
       /\ \A r \in Existing(m) : HasCopy(m, r)
       /\ ~SendAt(m, "idle") => send[m].rcpts \subseteq Existing(m)

Recipients == \A m \in Msg : Reached(m) /\ Settled(m)

\* What one step of a send does to its record.
Advances(m) ==
  LET s == send[m]
      t == send'[m]
  IN
  \/ /\ t.at = "idle" /\ UNCHANGED intended
     /\ confirmed' \in {confirmed, confirmed \union {m}}
     /\ m \in confirmed' => m \in confirmed \/ (/\ s.at = "routed"
                                                /\ s.todo = {} /\ s.failed = {})
  \/ /\ s.at = "create" /\ t.at = "create" /\ UNCHANGED <<intended, confirmed>>
     /\ t.rcpts = s.rcpts
     /\ \E r \in s.todo : t.todo = s.todo \ {r} /\ r \in Existing(m)'
  \/ /\ s.at = "create" /\ s.todo = {} /\ t.at = "outbox" /\ UNCHANGED <<intended, confirmed>>
     /\ t.rcpts = s.rcpts /\ t.todo = {}
  \/ /\ s.at \notin {"idle", "create"} /\ t.at \notin {"idle", "create"}
     /\ UNCHANGED <<intended, confirmed>> /\ t.rcpts = s.rcpts
     /\ t.todo = s.rcpts \/ t.todo \subseteq s.todo
     /\ t.at \in Routing =>
          \/ t.todo = s.rcpts
          \/ /\ s.at \in Routing /\ s.failed \subseteq t.failed
             /\ \A r \in s.todo : r \in t.todo \/ r \in t.failed \/ HasCopy(m, r)'
                                  \/ (s.at = "mark" /\ r = s.cur)
     /\ t.at = "mark" => t.cur \in t.failed

LEMMA SendAdvances ==
  ASSUME TypeOK, Shape, NEW m \in Msg, SendStep(m) \/ CrashSend(m)
  PROVE  Advances(m) /\ send[m].at # "idle"
<1> DEFINE s == send[m]
<1>0. /\ send \in [Msg -> SendState] /\ inbox \in [Agent -> SUBSET Msg]
      /\ archive \in [Agent -> SUBSET Msg]
      /\ s \in SendState /\ (s.at \in OnOne => s.cur \in Agent /\ s.cur \in s.todo)
      /\ receipt \in [Key -> State \union {None}]
  BY DEF TypeOK, Shape, SendState
<1>1. ASSUME SendReturns(m), s.at # "idle", UNCHANGED past PROVE Advances(m)
  BY <1>0, <1>1 DEF SendReturns, NoSend, Advances, past
<1>2. CASE CreateReceipts(m)
  <2>1. /\ s.at = "create" /\ UNCHANGED past
        /\ \/ \E r \in s.todo : /\ Loop(m, "create", s.todo \ {r})
                                /\ receipt' = [receipt EXCEPT ![<<m, r>>] =
                                                 IF @ = None THEN "created" ELSE @]
           \/ SendReturns(m)
           \/ s.todo = {} /\ Goto(m, "outbox")
    BY <1>2 DEF CreateReceipts, SendAt
  <2>2. ASSUME NEW r \in s.todo, Loop(m, "create", s.todo \ {r}),
               receipt' = [receipt EXCEPT ![<<m, r>>] = IF @ = None THEN "created" ELSE @]
        PROVE  Advances(m)
    <3>1. r \in Agent /\ <<m, r>> \in Key
      BY <1>0 DEF SendState, Key
    <3>2. r \in Existing(m)'
      BY <1>0, <2>2, <3>1, States, Targets DEF Existing
    <3>3. send'[m].at = "create" /\ send'[m].rcpts = s.rcpts /\ send'[m].todo = s.todo \ {r}
      BY <1>0, <2>2 DEF Loop, SendState
    <3> QED
      BY <2>1, <3>2, <3>3 DEF Advances, past
  <2>3. CASE s.todo = {} /\ Goto(m, "outbox")
    BY <1>0, <2>1, <2>3 DEF Goto, Advances, SendState, past
  <2> QED
    BY <1>1, <2>1, <2>2, <2>3
<1>3. CASE WriteOutbox(m)
  BY <1>0, <1>3 DEF WriteOutbox, SendAt, Loop, Advances, SendState, past, Routing
<1>4. CASE AcceptNext(m)
  <2>1. /\ s.at = "accept" /\ UNCHANGED past
        /\ \/ \E r \in s.todo : send' = [send EXCEPT ![m].at = "accepting", ![m].cur = r]
           \/ \E r \in s.todo : Loop(m, "accept", s.todo \ {r})
           \/ \E l \in {"publish", "route", "unwind"} : Loop(m, l, s.rcpts)
    BY <1>4 DEF AcceptNext, SendAt
  <2>2. ASSUME NEW r \in s.todo,
               \/ send' = [send EXCEPT ![m].at = "accepting", ![m].cur = r]
               \/ Loop(m, "accept", s.todo \ {r})
        PROVE  Advances(m)
    BY <1>0, <2>1, <2>2 DEF Loop, Advances, SendState, past, Routing
  <2>3. ASSUME NEW l \in {"publish", "route", "unwind"}, Loop(m, l, s.rcpts) PROVE Advances(m)
    BY <1>0, <2>1, <2>3 DEF Loop, Advances, SendState, past, Routing
  <2> QED
    BY <2>1, <2>2, <2>3
<1>5. CASE Accept(m)
  BY <1>0, <1>5 DEF Accept, SendAt, Loop, Advances, SendState, past, Routing
<1>6. CASE Publish(m)
  BY <1>0, <1>6 DEF Publish, SendAt, Loop, Goto, Advances, SendState, past, Routing
<1>7. CASE RouteNext(m)
  BY <1>0, <1>7 DEF RouteNext, SendAt, Advances, SendState, past, Routing
<1>8. CASE Select(m)
  BY <1>0, <1>8 DEF Select, SendAt, Goto, Advances, SendState, past, Routing
<1>9. CASE Persist(m) \/ Compare(m) \/ Confirm(m) \/ Verify(m)
  BY <1>0, <1>9
     DEF Persist, Compare, Confirm, Verify, SendAt, Goto, Advances, SendState, past, Routing
<1>10. ASSUME NEW l \in {"failing", "recheck", "reread"}, Goto(m, l), UNCHANGED past,
              s.at \in {"inInbox", "inArchive", "recheck", "reread"}
       PROVE  Advances(m)
  BY <1>0, <1>10 DEF Goto, Advances, SendState, past, Routing
<1>11. ASSUME NEW r, r = s.cur, Loop(m, "routed", s.todo \ {r}), HasCopy(m, r)',
              UNCHANGED past, s.at \in {"inInbox", "inArchive", "recheck", "reread"}
       PROVE  Advances(m)
  <2>1. \A q \in s.todo : q \in s.todo \ {r} \/ HasCopy(m, q)'
    BY <1>11
  <2> QED
    BY <1>0, <1>11, <2>1 DEF Loop, Advances, SendState, past, Routing
<1>17. CASE Present(m) \/ Reread(m)
  <2>1. PICK r : r = s.cur
    OBVIOUS
  <2>2. /\ s.at \in {"inInbox", "inArchive", "reread"} /\ UNCHANGED <<past, archive, inbox>>
        /\ \/ \E l \in {"recheck", "failing"} : Goto(m, l)
           \/ HasCopy(m, r) /\ Loop(m, "routed", s.todo \ {r})
    BY <1>17, <2>1 DEF Present, Reread, SendAt, files, HasCopy
  <2>3. HasCopy(m, r) => HasCopy(m, r)'
    BY <2>2 DEF HasCopy
  <2> QED
    BY <1>10, <1>11, <2>1, <2>2, <2>3
<1>18. CASE Recheck(m)
  <2>1. PICK r \in Agent : s.at = "recheck" /\ r = s.cur
    BY <1>0, <1>18 DEF Recheck, SendAt, OnOne
  <2>2. /\ UNCHANGED past
        /\ \/ \E l \in {"failing", "reread"} : Goto(m, l)
           \/ /\ inbox' = [inbox EXCEPT ![r] = @ \union {m}]
              /\ Loop(m, "routed", s.todo \ {r})
    BY <1>18, <2>1 DEF Recheck
  <2>3. inbox' = [inbox EXCEPT ![r] = @ \union {m}] => HasCopy(m, r)'
    BY <1>0, <2>1 DEF HasCopy
  <2> QED
    BY <1>10, <1>11, <2>1, <2>2, <2>3
<1>12. CASE AfterRecipient(m)
  <2>1. /\ s.at = "routed" /\ UNCHANGED intended
        /\ \/ Goto(m, "route") /\ UNCHANGED confirmed
           \/ /\ s.todo = {} /\ SendReturns(m)
              /\ confirmed' = IF s.failed = {} THEN confirmed \union {m} ELSE confirmed
    BY <1>12 DEF AfterRecipient, SendAt
  <2>2. CASE Goto(m, "route") /\ UNCHANGED confirmed
    BY <1>0, <2>1, <2>2 DEF Goto, Advances, SendState, Routing
  <2>3. CASE /\ s.todo = {} /\ SendReturns(m)
             /\ confirmed' = IF s.failed = {} THEN confirmed \union {m} ELSE confirmed
    BY <1>0, <2>1, <2>3 DEF SendReturns, NoSend, Advances
  <2> QED
    BY <2>1, <2>2, <2>3
<1>13. CASE MarkNext(m)
  <2>1. s.at # "idle" /\ UNCHANGED past
    BY <1>13 DEF MarkNext, SendAt
  <2>2. CASE ~SendReturns(m)
    BY <1>0, <1>13, <2>2 DEF MarkNext, SendAt, Advances, SendState, past, Routing
  <2> QED
    BY <1>1, <2>1, <2>2
<1>14. CASE Mark(m)
  <2>1. /\ s.at \in {"mark", "markall"} /\ UNCHANGED past
        /\ \/ s.at = "mark" /\ Loop(m, "routed", s.todo \ {s.cur})
           \/ s.at = "markall" /\ Loop(m, "unwind", s.todo \ {s.cur})
           \/ SendReturns(m)
    BY <1>14 DEF Mark, SendAt
  <2>2. CASE \/ s.at = "mark" /\ Loop(m, "routed", s.todo \ {s.cur})
             \/ s.at = "markall" /\ Loop(m, "unwind", s.todo \ {s.cur})
    BY <1>0, <2>1, <2>2 DEF Loop, Advances, SendState, past, Routing
  <2> QED
    BY <1>1, <2>1, <2>2
<1>15. CASE Unwound(m) \/ CrashSend(m)
  <2>1. s.at # "idle" /\ SendReturns(m) /\ UNCHANGED past
    BY <1>15 DEF Unwound, CrashSend, SendAt
  <2> QED
    BY <1>1, <2>1
<1>16. s.at # "idle"
  BY DEF SendStep, CrashSend, CreateReceipts, WriteOutbox, AcceptNext, Accept, Publish, RouteNext,
         Select, Persist, Compare, Confirm, Verify, Present, Recheck, Reread, AfterRecipient,
         MarkNext, Mark, Unwound, SendAt
<1> QED
  BY <1>2, <1>3, <1>4, <1>5, <1>6, <1>7, <1>8, <1>9, <1>10, <1>11, <1>12, <1>13, <1>14, <1>15,
     <1>16, <1>17, <1>18 DEF SendStep

\* A message whose send does not move keeps its history.
LEMMA OthersStand ==
  ASSUME TypeOK, Shape, [Next]_vars, NEW m \in Msg
  PROVE  \/ BeginSend(m) \/ SendStep(m) \/ CrashSend(m)
         \/ /\ send'[m] = send[m] /\ intended'[m] = intended[m]
            /\ m \in confirmed' <=> m \in confirmed
<1> DEFINE Stands == /\ send'[m] = send[m] /\ intended'[m] = intended[m]
                     /\ m \in confirmed' <=> m \in confirmed
<1>0. intended \in [Msg -> SUBSET Agent]
  BY DEF TypeOK
<1>1. ASSUME NEW n \in Msg, n # m, BeginSend(n) PROVE Stands
  <2>1. send'[m] = send[m]
    BY <1>1, SendTyped
  <2>2. intended'[m] = intended[m] /\ UNCHANGED confirmed
    BY <1>0, <1>1 DEF BeginSend
  <2> QED
    BY <2>1, <2>2
<1>2. ASSUME NEW n \in Msg, n # m, SendStep(n) \/ CrashSend(n) PROVE Stands
  <2>1. send'[m] = send[m]
    BY <1>2, SendTyped
  <2>2. UNCHANGED intended /\ confirmed' \in {confirmed, confirmed \union {n}}
    BY <1>2, SendAdvances DEF Advances
  <2> QED
    BY <1>2, <2>1, <2>2
<1>3. ASSUME NEW a \in Agent, BeginReceive(a) \/ RecvStep(a) \/ CrashRecv(a) PROVE Stands
  BY <1>3, RecvTyped
     DEF BeginReceive, RecvStep, CrashRecv, Open, Observe, Take, past
<1>4. ASSUME NEW a \in Agent, Register(a) \/ \E n \in Msg : Acknowledge(a, n) PROVE Stands
  BY <1>4 DEF Register, Acknowledge, past
<1>5. ASSUME NEW k \in Key, NEW to \in State, Operator(k, to) PROVE Stands
  BY <1>5 DEF Operator, past
<1>6. UNCHANGED vars => Stands
  BY DEF vars, past
<1> QED
  BY <1>1, <1>2, <1>3, <1>4, <1>5, <1>6 DEF Next

\* A replay is for those who have a receipt already, or who still are to get one.
LEMMA ResolvesToExisting ==
  ASSUME TypeOK, NEW m \in Msg, Settled(m)
  PROVE  /\ Resolve(m) \subseteq Agent
         /\ Existing(m) \subseteq Resolve(m)
         /\ Existing(m) # {} => Resolve(m) = Existing(m)
         /\ ~IsBroadcast(m) => Resolve(m) = {Recipient[m]}
<1>1. CASE IsBroadcast(m)
  BY <1>1 DEF Resolve, Existing, TypeOK
<1>2. CASE ~IsBroadcast(m)
  <2>1. Existing(m) \subseteq {Recipient[m]} /\ Recipient[m] \in Agent
    BY <1>2, MailboxAssumption DEF Settled, IsBroadcast
  <2> QED
    BY <1>2, <2>1 DEF Resolve
<1> QED
  BY <1>1, <1>2

LEMMA RecipientsPreserved ==
  ASSUME OnlyMailboxDelivers, TypeOK, Shape, Recipients, [Next]_vars
  PROVE  Recipients'
<1> SUFFICES ASSUME NEW m \in Msg PROVE Reached(m)' /\ Settled(m)'
  BY DEF Recipients
<1> DEFINE s == send[m]
           t == send'[m]
<1>0. /\ Reached(m) /\ Settled(m)
      /\ send \in [Msg -> SendState] /\ intended \in [Msg -> SUBSET Agent]
  BY DEF Recipients, TypeOK
<1>1. /\ Existing(m) \subseteq Existing(m)'
      /\ s.at # "create" => Existing(m)' = Existing(m)
      /\ \A r \in Existing(m)' \ Existing(m) : r \in s.todo
      /\ \A r \in Agent : HasCopy(m, r) => HasCopy(m, r)'
      /\ Existing(m) \subseteq Agent /\ Existing(m)' \subseteq Agent
  BY NothingIsLost DEF SendAt, Existing
<1>2. ASSUME t = s, intended'[m] = intended[m], m \in confirmed' <=> m \in confirmed
      PROVE  Reached(m)' /\ Settled(m)'
  <2>1. Reached(m)'
    BY <1>0, <1>1, <1>2 DEF Reached, SendState, Routing
  <2>2. Settled(m)'
    <3>1. Existing(m)' \subseteq intended[m]
      BY <1>0, <1>1 DEF Settled, SendAt
    <3>2. ASSUME m \in confirmed PROVE Existing(m)' = Existing(m)
      BY <1>0, <1>1, <3>2 DEF Settled, Reached, SendAt
    <3> QED
      BY <1>0, <1>1, <1>2, <3>1, <3>2 DEF Settled, SendAt, IsBroadcast
  <2> QED
    BY <2>1, <2>2
<1>3. CASE BeginSend(m)
  <2>1. /\ s.at = "idle" /\ Resolve(m) # {} /\ UNCHANGED confirmed
        /\ t.at = "create" /\ t.rcpts = Resolve(m) /\ t.todo = Resolve(m)
        /\ intended'[m] = IF Existing(m) = {} THEN Resolve(m) ELSE intended[m]
        /\ Existing(m)' = Existing(m)
    BY <1>0, <1>1, <1>3 DEF BeginSend, SendAt, Existing, SendState
  <2>2. /\ Existing(m) \subseteq Resolve(m)
        /\ Existing(m) # {} => Resolve(m) = Existing(m)
        /\ ~IsBroadcast(m) => Resolve(m) = {Recipient[m]}
    BY <1>0, ResolvesToExisting
  <2>3. Reached(m)'
    BY <2>1, <2>2 DEF Reached, Routing
  <2>4. Settled(m)'
    BY <1>0, <1>1, <2>1, <2>2 DEF Settled, SendAt, IsBroadcast
  <2> QED
    BY <2>3, <2>4
<1>4. ASSUME Advances(m), s.at # "idle" PROVE Reached(m)' /\ Settled(m)'
  <2>1. UNCHANGED intended
    BY <1>4 DEF Advances
  <2>2. ASSUME m \in confirmed' PROVE Existing(m) # {} /\ \A r \in Existing(m) : HasCopy(m, r)
    <3>1. CASE m \in confirmed
      BY <1>0, <3>1 DEF Settled
    <3>2. CASE s.at = "routed" /\ s.todo = {} /\ s.failed = {}
      BY <1>0, <3>2 DEF Reached, Routing
    <3> QED
      BY <1>4, <2>2, <3>1, <3>2 DEF Advances
  <2>3. Existing(m)' \subseteq intended[m]
    BY <1>0, <1>1 DEF Settled, SendAt
  <2>4. ASSUME m \in confirmed' PROVE Existing(m)' = Existing(m)
    <3>1. CASE s.at = "create"
      <4>1. m \in confirmed
        BY <1>4, <2>4, <3>1 DEF Advances
      <4> QED
        BY <1>0, <1>1, <1>4, <4>1 DEF Settled, Reached, SendAt
    <3> QED
      BY <1>1, <3>1
  <2>5. ASSUME t.at # "idle" PROVE t.rcpts = s.rcpts /\ UNCHANGED confirmed
    BY <1>4, <2>5 DEF Advances
  <2>6. t.at = "create" => t.todo \subseteq s.todo /\ s.at = "create"
    BY <1>4 DEF Advances
  <2>7. Settled(m)'
    <3>1. SendAt(m, "create")' => t.todo \subseteq intended[m]
      BY <1>0, <2>6 DEF Settled, SendAt
    <3>2. ASSUME m \in confirmed', t.at # "idle" PROVE t.rcpts \subseteq Existing(m)
      BY <1>0, <1>4, <2>5, <3>2 DEF Settled, SendAt
    <3>3. \A r \in Existing(m) : HasCopy(m, r) => HasCopy(m, r)'
      BY <1>1
    <3> QED
      BY <1>0, <2>1, <2>2, <2>3, <2>4, <3>1, <3>2, <3>3 DEF Settled, SendAt, IsBroadcast
  <2>8. Reached(m)'
    <3>1. ASSUME t.at # "idle"
          PROVE  /\ t.rcpts # {} /\ t.todo \subseteq t.rcpts /\ Existing(m)' \subseteq t.rcpts
      BY <1>0, <1>1, <1>4, <2>5, <3>1 DEF Reached, Advances
    <3>2. t.at = "create" => t.rcpts \ t.todo \subseteq Existing(m)'
      BY <1>0, <1>1, <1>4 DEF Reached, Advances
    <3>3. t.at \notin {"idle", "create"} => t.rcpts \subseteq Existing(m)'
      BY <1>0, <1>1, <1>4 DEF Reached, Advances
    <3>4. ASSUME t.at \in Routing, NEW r \in t.rcpts
          PROVE  r \in t.todo \/ r \in t.failed \/ HasCopy(m, r)'
      <4>1. t.at \notin {"idle", "create", "outbox"}
        BY <3>4 DEF Routing
      <4>2. t.rcpts = s.rcpts /\ r \in Agent
        BY <1>0, <2>5, <4>1 DEF SendState
      <4>3. CASE t.todo = s.rcpts
        BY <3>4, <4>2, <4>3
      <4>4. CASE /\ s.at \in Routing /\ s.failed \subseteq t.failed
                 /\ \A q \in s.todo : q \in t.todo \/ q \in t.failed \/ HasCopy(m, q)'
                                      \/ (s.at = "mark" /\ q = s.cur)
        <5>1. r \in s.todo \/ r \in s.failed \/ HasCopy(m, r)
          BY <1>0, <3>4, <4>2, <4>4 DEF Reached
        <5>2. s.at = "mark" => s.cur \in t.failed
          BY <1>0, <4>4 DEF Reached
        <5> QED
          BY <1>1, <4>2, <4>4, <5>1, <5>2
      <4> QED
        BY <1>4, <3>4, <4>1, <4>3, <4>4 DEF Advances
    <3>5. t.at = "mark" => t.cur \in t.failed
      BY <1>4 DEF Advances
    <3> QED
      BY <3>1, <3>2, <3>3, <3>4, <3>5 DEF Reached
  <2> QED
    BY <2>7, <2>8
<1> QED
  BY <1>2, <1>3, <1>4, OthersStand, SendAdvances

-----------------------------------------------------------------------------
(* What is handed over.                                                     *)

Seen(m, a) == <<m, a>> \in Legacy \/ SeenBy(m, a)

\* Only a message older than the receipts is in a mailbox without one; and what
\* receive_messages has returned or is going to return has been observed.
Handing ==
  /\ \A m \in Msg, a \in Agent : HasCopy(m, a) => <<m, a>> \in Legacy \/ a \in Existing(m)
  /\ \A a \in Agent :
       /\ \A m \in handed[a] \union recv[a].batch : Seen(m, a)
       /\ RecvAt(a, "take") => Seen(recv[a].cur, a)
       /\ RecvAt(a, "observe") /\ recv[a].view \in {"observed", "acted", "verified"} =>
            Seen(recv[a].cur, a)

\* What happens to a receipt that is there.
LEMMA ReceiptFate ==
  ASSUME OnlyMailboxDelivers, TypeOK, Shape, [Next]_vars, NEW m \in Msg, NEW a \in Agent,
         receipt[<<m, a>>] # None
  PROVE  /\ receipt[<<m, a>>] \in State /\ receipt'[<<m, a>>] \in State
         /\ \/ receipt'[<<m, a>>] = receipt[<<m, a>>]
            \/ /\ Ledger!CanTransition(receipt[<<m, a>>], receipt'[<<m, a>>])
               /\ receipt'[<<m, a>>] = "rejected" =>
                    Rejecting(m, a) \/ "rejected" \in OperatorMoves
<1>0. <<m, a>> \in Key /\ receipt \in [Key -> State \union {None}]
      /\ \A n \in Msg : send[n].todo \subseteq Agent
  BY DEF Key, TypeOK, SendState
<1>1. CASE UNCHANGED receipt
  BY <1>0, <1>1
<1>2. ASSUME NEW n \in Msg, NEW q \in send[n].todo, CreatesReceipt(n, q)
      PROVE  receipt'[<<m, a>>] = receipt[<<m, a>>]
  BY <1>0, <1>2 DEF CreatesReceipt, Key
<1>3. ASSUME NEW n \in Msg, NEW q \in Agent, NEW to \in State, MovesReceipt(<<n, q>>, to),
             to = "rejected" => Rejecting(n, q) \/ "rejected" \in OperatorMoves,
             receipt'[<<m, a>>] # receipt[<<m, a>>]
      PROVE  /\ Ledger!CanTransition(receipt[<<m, a>>], receipt'[<<m, a>>])
             /\ receipt'[<<m, a>>] = "rejected" =>
                  Rejecting(m, a) \/ "rejected" \in OperatorMoves
             /\ receipt'[<<m, a>>] \in State
  <2>1. n = m /\ q = a /\ receipt'[<<m, a>>] = to
    BY <1>0, <1>3 DEF MovesReceipt, Key
  <2> QED
    BY <1>3, <2>1 DEF MovesReceipt
<1> QED
  BY <1>0, <1>1, <1>2, <1>3, ReceiptSteps DEF ReceiptStep

LEMMA SeenStays ==
  ASSUME OnlyMailboxDelivers, TypeOK, Shape, [Next]_vars, NEW m \in Msg, NEW a \in Agent,
         Seen(m, a)
  PROVE  Seen(m, a)'
<1>1. CASE SeenBy(m, a)
  <2>1. receipt[<<m, a>>] # None
    BY <1>1, States DEF SeenBy
  <2>2. SeenBy(m, a)'
    BY <1>1, <2>1, ReceiptFate, States DEF SeenBy, Ledger!CanTransition, Ledger!Allowed
  <2> QED
    BY <2>2 DEF Seen
<1> QED
  BY <1>1 DEF Seen

\* Which messages a step of receive_messages takes up, and with what in hand.
LEMMA RecvHands ==
  ASSUME TypeOK, Shape, NEW a \in Agent, BeginReceive(a) \/ RecvStep(a) \/ CrashRecv(a)
  PROVE  /\ handed'[a] \union recv'[a].batch \subseteq
              handed[a] \union recv[a].batch
                \union {m \in Msg : RecvAt(a, "take") /\ m = recv[a].cur}
         /\ recv'[a].at = "take" =>
              \/ /\ recv'[a].cur \in inbox[a] /\ receipt[<<recv'[a].cur, a>>] = None
              \/ /\ RecvAt(a, "observe") /\ recv'[a].cur = recv[a].cur
                 /\ recv[a].view \in {"observed", "acted", "verified"}
         /\ recv'[a].at = "observe" /\ recv'[a].view \in {"observed", "acted", "verified"} =>
              \/ receipt[<<recv'[a].cur, a>>] = recv'[a].view
              \/ receipt'[<<recv'[a].cur, a>>] = "observed"
<1> DEFINE s == recv[a]
           Hands == /\ handed'[a] \union recv'[a].batch \subseteq
                         handed[a] \union recv[a].batch
                           \union {m \in Msg : RecvAt(a, "take") /\ m = recv[a].cur}
                    /\ recv'[a].at = "take" =>
                         \/ /\ recv'[a].cur \in inbox[a] /\ receipt[<<recv'[a].cur, a>>] = None
                         \/ /\ RecvAt(a, "observe") /\ recv'[a].cur = recv[a].cur
                            /\ recv[a].view \in {"observed", "acted", "verified"}
                    /\ recv'[a].at = "observe" /\ recv'[a].view \in {"observed", "acted", "verified"} =>
                         \/ receipt[<<recv'[a].cur, a>>] = recv'[a].view
                         \/ receipt'[<<recv'[a].cur, a>>] = "observed"
<1>0. /\ recv \in [Agent -> RecvState] /\ s \in RecvState
      /\ handed \in [Agent -> SUBSET Msg]
      /\ receipt \in [Key -> State \union {None}]
      /\ s.at \in {"observe", "take"} => s.cur \in Msg
      /\ s.at = "observe" => s.view \in State
  BY DEF TypeOK, Shape
<1>1. ASSUME RecvReturns(a), handed' = handed PROVE Hands
  BY <1>0, <1>1 DEF RecvReturns, NoRecv
<1>2. CASE BeginReceive(a)
  BY <1>0, <1>2 DEF BeginReceive, NoRecv, past
<1>3. CASE Open(a)
  <2>1. ASSUME NEW m \in s.todo, recv' = [recv EXCEPT ![a].todo = @ \ {m}], handed' = handed
        PROVE  Hands
    BY <1>0, <1>3, <2>1 DEF Open, RecvAt, RecvState
  <2>2. ASSUME NEW m \in s.todo, handed' = handed,
               recv' = [recv EXCEPT
                          ![a].todo = @ \ {m}, ![a].cur = m, ![a].view = receipt[<<m, a>>],
                          ![a].at = IF m \notin inbox[a] THEN "open"
                                    ELSE IF receipt[<<m, a>>] = None THEN "take" ELSE "observe"]
        PROVE  Hands
    <3>1. /\ recv'[a].cur = m /\ recv'[a].view = receipt[<<m, a>>] /\ recv'[a].batch = s.batch
          /\ recv'[a].at = IF m \notin inbox[a] THEN "open"
                           ELSE IF receipt[<<m, a>>] = None THEN "take" ELSE "observe"
      BY <1>0, <2>2 DEF RecvState
    <3>2. handed'[a] \union recv'[a].batch = handed[a] \union s.batch
      BY <2>2, <3>1
    <3>3. recv'[a].at = "take" => m \in inbox[a] /\ receipt[<<m, a>>] = None
      BY <3>1
    <3> QED
      BY <3>1, <3>2, <3>3
  <2>3. CASE RecvReturns(a) /\ handed' = [handed EXCEPT ![a] = @ \union s.batch]
    BY <1>0, <2>3 DEF RecvReturns, NoRecv
  <2>4. CASE RecvReturns(a) /\ handed' = handed
    BY <1>1, <2>4
  <2> QED
    BY <1>3, <2>1, <2>2, <2>3, <2>4 DEF Open
<1>4. CASE Observe(a)
  <2>0. handed' = handed /\ RecvAt(a, "observe")
    BY <1>4 DEF Observe, past
  <2>1. CASE RecvReturns(a)
    BY <1>1, <2>0, <2>1
  <2>2. CASE /\ recv' = [recv EXCEPT ![a].at = "take"]
             /\ s.view \in {"observed", "acted", "verified"}
    BY <1>0, <2>0, <2>2 DEF RecvState
  <2>3. CASE /\ recv' = [recv EXCEPT ![a].view = ObserveTarget(s.view)]
             /\ Record(<<s.cur, a>>, ObserveTarget(s.view), "receiver")
             /\ s.view \notin Terminal \union {"observed", "acted"}
    <3>1. /\ recv'[a].at = "observe" /\ recv'[a].view = ObserveTarget(s.view)
          /\ recv'[a].cur = s.cur /\ recv'[a].batch = s.batch
      BY <1>0, <2>0, <2>3 DEF RecvState, RecvAt
    <3>2. s.view \in State /\ <<s.cur, a>> \in Key
      BY <1>0, <2>0 DEF RecvAt, Key
    <3>3. receipt'[<<s.cur, a>>] = ObserveTarget(s.view)
      BY <1>0, <2>3, <3>2 DEF Record, SetState
    <3>4. ObserveTarget(s.view) \in {"accepted", "routed", "delivered", "observed"}
      BY <2>3, <3>2, States DEF ObserveTarget
    <3> QED
      BY <2>0, <3>1, <3>3, <3>4
  <2> QED
    BY <1>4, <2>1, <2>2, <2>3 DEF Observe
<1>5. CASE Take(a)
  <2>0. handed' = handed /\ RecvAt(a, "take")
    BY <1>5 DEF Take, past
  <2>1. CASE RecvReturns(a)
    BY <1>1, <2>0, <2>1
  <2>2. CASE recv' = [recv EXCEPT ![a].at = "open", ![a].batch = @ \union {recv[a].cur}]
    <3>1. recv'[a].at = "open" /\ recv'[a].batch = s.batch \union {s.cur} /\ s.cur \in Msg
      BY <1>0, <2>0, <2>2 DEF RecvState, RecvAt
    <3> QED
      BY <2>0, <3>1
  <2> QED
    BY <1>5, <2>1, <2>2 DEF Take
<1>6. CASE CrashRecv(a)
  BY <1>1, <1>6 DEF CrashRecv, past
<1>7. Hands
  BY <1>2, <1>3, <1>4, <1>5, <1>6 DEF RecvStep
<1> QED
  BY <1>7

LEMMA HandingPreserved ==
  ASSUME OnlyMailboxDelivers, TypeOK, Shape, Copies, Recipients, Handing, [Next]_vars
  PROVE  Handing'
<1>1. ASSUME NEW m \in Msg, NEW a \in Agent, HasCopy(m, a)', <<m, a>> \notin Legacy
      PROVE  a \in Existing(m)'
  <2>1. CASE HasCopy(m, a)
    BY <1>1, <2>1, NothingIsLost DEF Handing
  <2>2. CASE Copying(m, a)
    <3>1. send[m].cur \in send[m].rcpts
      BY <2>2 DEF Copying, SendAt, Shape, OnOne, Recipients, Reached
    <3>2. a \in Existing(m)
      BY <2>2, <3>1 DEF Copying, SendAt, Recipients, Reached
    <3> QED
      BY <3>2, NothingIsLost
  <2> QED
    BY <1>1, <2>1, <2>2, NothingIsLost
<1>2. ASSUME NEW a \in Agent, recv'[a] = recv[a], handed'[a] = handed[a]
      PROVE  /\ \A m \in handed'[a] \union recv'[a].batch : Seen(m, a)'
             /\ recv'[a].at = "take" => Seen(recv[a].cur, a)'
             /\ recv'[a].at = "observe" /\ recv'[a].view \in {"observed", "acted", "verified"} =>
                  Seen(recv[a].cur, a)'
  <2>1. handed[a] \union recv[a].batch \subseteq Msg
    BY DEF TypeOK, RecvState
  <2>2. recv[a].at \in {"observe", "take"} => recv[a].cur \in Msg
    BY DEF Shape
  <2> QED
    BY <1>2, <2>1, <2>2, SeenStays DEF Handing, RecvAt
<1>3. ASSUME NEW a \in Agent, BeginReceive(a) \/ RecvStep(a) \/ CrashRecv(a),
             NEW c, c = recv'[a].cur
      PROVE  /\ \A m \in handed'[a] \union recv'[a].batch : Seen(m, a)'
             /\ recv'[a].at = "take" => Seen(c, a)'
             /\ recv'[a].at = "observe" /\ recv'[a].view \in {"observed", "acted", "verified"} =>
                  Seen(c, a)'
  <2>0. /\ handed[a] \union recv[a].batch \subseteq Msg
        /\ inbox[a] \subseteq Msg
        /\ recv[a].at \in {"observe", "take"} => recv[a].cur \in Msg
        /\ recv'[a].at \in {"observe", "take"} => c \in Msg
    BY <1>3, TypePreserved DEF TypeOK, Shape, RecvState
  <2>1. \A m \in handed'[a] \union recv'[a].batch : Seen(m, a)'
    <3>1. \A m \in handed'[a] \union recv'[a].batch : m \in Msg /\ Seen(m, a)
      BY <1>3, <2>0, RecvHands DEF Handing
    <3> QED
      BY <3>1, SeenStays
  <2>2. ASSUME recv'[a].at = "take" PROVE Seen(c, a)'
    <3>1. CASE c \in inbox[a] /\ receipt[<<c, a>>] = None
      <4>1. HasCopy(c, a) /\ c \in Msg /\ a \notin Existing(c)
        BY <2>0, <3>1 DEF HasCopy, Existing
      <4> QED
        BY <4>1, SeenStays DEF Handing, Seen
    <3>2. CASE /\ RecvAt(a, "observe") /\ c = recv[a].cur
               /\ recv[a].view \in {"observed", "acted", "verified"}
      <4>1. Seen(c, a) /\ c \in Msg
        BY <2>0, <3>2 DEF Handing, RecvAt
      <4> QED
        BY <4>1, SeenStays
    <3> QED
      BY <1>3, <2>2, <3>1, <3>2, RecvHands
  <2>3. ASSUME recv'[a].at = "observe", recv'[a].view \in {"observed", "acted", "verified"}
        PROVE  Seen(c, a)'
    <3>1. CASE receipt[<<c, a>>] = recv'[a].view
      <4>1. Seen(c, a) /\ c \in Msg
        BY <2>0, <2>3, <3>1 DEF Seen, SeenBy
      <4> QED
        BY <4>1, SeenStays
    <3>2. CASE receipt'[<<c, a>>] = "observed"
      BY <3>2 DEF Seen, SeenBy
    <3> QED
      BY <1>3, <2>3, <3>1, <3>2, RecvHands
  <2> QED
    BY <2>1, <2>2, <2>3
<1>4. ASSUME NEW a \in Agent
      PROVE  \/ recv'[a] = recv[a] /\ handed'[a] = handed[a]
             \/ BeginReceive(a) \/ RecvStep(a) \/ CrashRecv(a)
  <2>0. handed \in [Agent -> SUBSET Msg]
    BY DEF TypeOK
  <2>1. ASSUME NEW b \in Agent, b # a, BeginReceive(b) \/ RecvStep(b) \/ CrashRecv(b)
        PROVE  handed'[a] = handed[a]
    BY <2>0, <2>1 DEF BeginReceive, RecvStep, CrashRecv, Open, Observe, Take, past
  <2>2. ASSUME NEW m \in Msg, BeginSend(m) \/ CrashSend(m) PROVE UNCHANGED handed
    BY <2>2 DEF BeginSend, CrashSend, past
  <2>3. ASSUME NEW m \in Msg, SendStep(m) PROVE UNCHANGED handed
    BY <2>3 DEF SendStep, CreateReceipts, WriteOutbox, AcceptNext, Accept, Publish, RouteNext,
                Select, Persist, Compare, Confirm, Verify, Present, Recheck, Reread,
                AfterRecipient, MarkNext, Mark, Unwound, past
  <2>4. ASSUME NEW b \in Agent, Register(b) \/ \E m \in Msg : Acknowledge(b, m)
        PROVE  UNCHANGED handed
    BY <2>4 DEF Register, Acknowledge, past
  <2>5. ASSUME NEW k \in Key, NEW to \in State, Operator(k, to) PROVE UNCHANGED handed
    BY <2>5 DEF Operator, past
  <2>6. UNCHANGED vars => UNCHANGED handed
    BY DEF vars, past
  <2>7. handed'[a] = handed[a] \/ BeginReceive(a) \/ RecvStep(a) \/ CrashRecv(a)
    BY <2>1, <2>2, <2>3, <2>4, <2>5, <2>6 DEF Next
  <2> QED
    BY <2>7, OwnSteps
<1>5. ASSUME NEW a \in Agent, NEW c, c = recv'[a].cur
      PROVE  /\ \A m \in handed'[a] \union recv'[a].batch : Seen(m, a)'
             /\ recv'[a].at = "take" => Seen(c, a)'
             /\ recv'[a].at = "observe" /\ recv'[a].view \in {"observed", "acted", "verified"} =>
                  Seen(c, a)'
  <2>1. CASE recv'[a] = recv[a] /\ handed'[a] = handed[a]
    BY <1>2, <1>5, <2>1
  <2> QED
    BY <1>3, <1>4, <1>5, <2>1
<1> QED
  BY <1>1, <1>5 DEF Handing, RecvAt

-----------------------------------------------------------------------------
(* What is rejected.                                                        *)

\* Others than the mailbox do not reject receipts.
NobodyElseRejects == "rejected" \notin OperatorMoves

\* The stages that may find or make the recipient's copy.
OnCopy == {"persist", "compare", "confirm", "verify", "inInbox", "inArchive", "recheck",
           "reread"}

Rejections ==
  /\ \A m \in Msg, a \in Agent :
       receipt[<<m, a>>] \in {"created", "rejected"} => ~HasCopy(m, a)
  /\ \A m \in Msg, a \in Agent :
       send[m].at \in OnCopy /\ send[m].cur = a =>
         receipt[<<m, a>>] \notin {None, "created", "rejected"}
  /\ \A m \in Msg, a \in Agent : Rejecting(m, a) => ~HasCopy(m, a)

\* How send_message comes to a copy, and to rejecting a receipt.
LEMMA SendTurns ==
  ASSUME TypeOK, Shape, NEW m \in Msg, BeginSend(m) \/ SendStep(m) \/ CrashSend(m)
  PROVE  /\ send'[m].at \in OnCopy =>
              \/ send[m].at \in OnCopy /\ send'[m].cur = send[m].cur
              \/ receipt'[<<m, send'[m].cur>>] \in Proven \union {"routed"}
         /\ send'[m].at \in {"mark", "markall"} =>
              /\ send'[m].view = receipt[<<m, send'[m].cur>>]
              /\ send[m].at \in {"failing", "unwind"}
<1> DEFINE s == send[m]
           t == send'[m]
           Turns == /\ t.at \in OnCopy =>
                         \/ s.at \in OnCopy /\ t.cur = s.cur
                         \/ receipt'[<<m, send'[m].cur>>] \in Proven \union {"routed"}
                    /\ t.at \in {"mark", "markall"} =>
                         /\ t.view = receipt[<<m, send'[m].cur>>]
                         /\ s.at \in {"failing", "unwind"}
<1>0. /\ send \in [Msg -> SendState] /\ s \in SendState
      /\ receipt \in [Key -> State \union {None}]
      /\ s.at \in OnOne => s.cur \in Agent
  BY DEF TypeOK, Shape, SendState
<1>1. ASSUME NEW l, l \notin OnCopy, l \notin {"mark", "markall"}, NEW T, Loop(m, l, T) PROVE Turns
  BY <1>0, <1>1 DEF Loop, SendState
<1>2. ASSUME NEW l, l \notin {"mark", "markall"}, Goto(m, l), l \in OnCopy => s.at \in OnCopy
      PROVE  Turns
  BY <1>0, <1>2 DEF Goto, SendState
<1>3. ASSUME SendReturns(m) PROVE Turns
  BY <1>0, <1>3 DEF SendReturns, NoSend, OnCopy
<1>4. CASE BeginSend(m)
  BY <1>0, <1>4 DEF BeginSend, OnCopy, SendState
<1>5. CASE CreateReceipts(m)
  BY <1>1, <1>2, <1>3, <1>5 DEF CreateReceipts, OnCopy
<1>6. CASE WriteOutbox(m) \/ Accept(m) \/ Publish(m)
  BY <1>1, <1>2, <1>6 DEF WriteOutbox, Accept, Publish, OnCopy
<1>7. CASE AcceptNext(m)
  <2>1. \/ \E r \in s.todo : send' = [send EXCEPT ![m].at = "accepting", ![m].cur = r]
        \/ \E l \in {"accept", "publish", "route", "unwind"}, T \in SUBSET Agent : Loop(m, l, T)
    BY <1>0, <1>7 DEF AcceptNext, SendState
  <2>2. ASSUME NEW r, send' = [send EXCEPT ![m].at = "accepting", ![m].cur = r] PROVE Turns
    BY <1>0, <2>2 DEF OnCopy, SendState
  <2> QED
    BY <1>1, <2>1, <2>2 DEF OnCopy
<1>8. CASE RouteNext(m)
  <2>1. UNCHANGED receipt
    BY <1>8 DEF RouteNext, ledger
  <2>2. ASSUME NEW r, NEW l, l \notin {"mark", "markall"},
               send'[m].at = l, l \in OnCopy => send'[m].cur = r,
               l \in OnCopy => receipt[<<m, r>>] \in Proven \union {"routed"}
        PROVE  Turns
    BY <2>1, <2>2
  <2>3. PICK r \in s.todo :
          \/ send' = [send EXCEPT ![m].cur = r, ![m].view = receipt[<<m, r>>],
                                  ![m].at = CASE receipt[<<m, r>>] \in Selectable -> "select"
                                              [] receipt[<<m, r>>] = "routed"    -> "persist"
                                              [] receipt[<<m, r>>] \in Proven    -> "verify"
                                              [] OTHER           -> "failing"]
          \/ send' = [send EXCEPT ![m].cur = r, ![m].at = "failing"]
    BY <1>8 DEF RouteNext
  <2>4. \/ send'[m].at = "persist" /\ send'[m].cur = r /\ receipt[<<m, r>>] = "routed"
        \/ send'[m].at = "verify" /\ send'[m].cur = r /\ receipt[<<m, r>>] \in Proven
        \/ send'[m].at \in {"select", "failing"}
    <3>1. CASE send' = [send EXCEPT ![m].cur = r, ![m].at = "failing"]
      BY <1>0, <3>1 DEF SendState
    <3>2. ASSUME NEW l, send' = [send EXCEPT ![m].cur = r, ![m].view = receipt[<<m, r>>],
                                             ![m].at = l]
          PROVE  send'[m].at = l /\ send'[m].cur = r
      BY <1>0, <3>2 DEF SendState
    <3> QED
      BY <2>3, <3>1, <3>2
  <2> QED
    BY <2>2, <2>4 DEF OnCopy
<1>9. CASE Select(m)
  <2>1. CASE SetState(Here(m), "routed", "sender") /\ Goto(m, "persist")
    <3>1. t.cur = s.cur /\ t.at = "persist" /\ s.cur \in Agent
      BY <1>0, <1>9, <2>1 DEF Goto, SendState, Select, SendAt, OnOne
    <3>2. receipt'[<<m, s.cur>>] = "routed"
      BY <1>0, <2>1, <3>1 DEF SetState, Here, Key
    <3> QED
      BY <3>1, <3>2
  <2> QED
    BY <1>2, <1>9, <2>1 DEF Select, Record, OnCopy
<1>10. CASE Persist(m) \/ Compare(m) \/ Confirm(m)
  BY <1>2, <1>10 DEF Persist, Compare, Confirm, SendAt, OnCopy
<1>11. CASE Verify(m)
  BY <1>2, <1>11 DEF Verify, SendAt, OnCopy
<1>12. CASE Present(m) \/ Recheck(m) \/ Reread(m)
  BY <1>1, <1>2, <1>12 DEF Present, Recheck, Reread, SendAt, OnCopy
<1>13. CASE AfterRecipient(m)
  BY <1>2, <1>3, <1>13 DEF AfterRecipient, OnCopy
<1>14. CASE MarkNext(m)
  <2>1. ASSUME NEW r \in s.todo,
               NEW l \in {"mark", "markall", "routed", "unwind"}, NEW F, NEW T,
               send' = [send EXCEPT ![m].cur = r, ![m].view = receipt[<<m, r>>],
                                    ![m].failed = F, ![m].at = l, ![m].todo = T]
        PROVE  Turns
    <3>1. t.cur = r /\ t.view = receipt[<<m, r>>] /\ t.at = l
      BY <1>0, <2>1 DEF SendState
    <3>2. s.at \in {"failing", "unwind"}
      BY <1>14 DEF MarkNext, SendAt
    <3> QED
      BY <3>1, <3>2 DEF OnCopy
  <2> QED
    <3>1. CASE ~SendReturns(m)
      <4> DEFINE Unsure(r) == receipt[<<m, r>>] \in {"created", "accepted", "routed", "deferred"}
                 Next1 == IF SendAt(m, "failing") THEN "routed" ELSE "unwind"
      <4>1. PICK r \in s.todo :
              send' = [send EXCEPT ![m].cur = r, ![m].view = receipt[<<m, r>>],
                                   ![m].failed = @ \union {r},
                                   ![m].at = IF ~Unsure(r) THEN Next1
                                             ELSE IF Next1 = "routed" THEN "mark" ELSE "markall",
                                   ![m].todo = IF Unsure(r) THEN @ ELSE @ \ {r}]
        BY <1>14, <3>1 DEF MarkNext
      <4>2. (IF ~Unsure(r) THEN Next1 ELSE IF Next1 = "routed" THEN "mark" ELSE "markall")
              \in {"mark", "markall", "routed", "unwind"}
        OBVIOUS
      <4> HIDE DEF Unsure, Next1
      <4> QED
        BY <2>1, <4>1, <4>2
    <3> QED
      BY <1>3, <3>1
<1>15. CASE Mark(m)
  BY <1>1, <1>3, <1>15 DEF Mark, OnCopy
<1>16. CASE Unwound(m) \/ CrashSend(m)
  BY <1>3, <1>16 DEF Unwound, CrashSend
<1>17. Turns
  BY <1>4, <1>5, <1>6, <1>7, <1>8, <1>9, <1>10, <1>11, <1>12, <1>13, <1>14, <1>15, <1>16
     DEF SendStep
<1> QED
  BY <1>17

LEMMA RejectionsPreserved ==
  ASSUME OnlyMailboxDelivers, NobodyElseRejects, TypeOK, Shape, Copies, Handing, Rejections,
         [Next]_vars
  PROVE  Rejections'
<1>1. ASSUME NEW m \in Msg, NEW a \in Agent, HasCopy(m, a)', ~HasCopy(m, a)
      PROVE  send[m].at \in OnCopy /\ send[m].cur = a
  BY <1>1, NothingIsLost DEF Copying, SendAt, OnCopy
<1>2. ASSUME NEW m \in Msg, NEW a \in Agent, receipt[<<m, a>>] # None
      PROVE  \/ receipt'[<<m, a>>] = receipt[<<m, a>>]
             \/ receipt'[<<m, a>>] \notin {None, "created", "rejected"}
             \/ receipt'[<<m, a>>] = "rejected" /\ Rejecting(m, a)
  <2>1. receipt[<<m, a>>] \in State /\ receipt'[<<m, a>>] \in State
    BY <1>2, ReceiptFate
  <2>2. \/ receipt'[<<m, a>>] = receipt[<<m, a>>]
        \/ /\ Ledger!CanTransition(receipt[<<m, a>>], receipt'[<<m, a>>])
           /\ receipt'[<<m, a>>] = "rejected" => Rejecting(m, a)
    BY <1>2, ReceiptFate DEF NobodyElseRejects
  <2>3. \A x \in State : ~Ledger!CanTransition(x, "created")
    BY States DEF Ledger!CanTransition, Ledger!Allowed
  <2> QED
    BY <2>1, <2>2, <2>3, States
<1>3. ASSUME NEW m \in Msg, NEW a \in Agent, receipt'[<<m, a>>] \in {"created", "rejected"}
      PROVE  ~HasCopy(m, a)'
  <2>1. CASE receipt[<<m, a>>] = None
    <3>1. a \in Existing(m)' \ Existing(m)
      BY <1>3, <2>1, States DEF Existing
    <3>2. send[m].at = "create"
      BY <3>1, NothingIsLost DEF SendAt
    <3>3. ~Old(m)
      BY <3>2 DEF Copies, SendAt
    <3>4. ~HasCopy(m, a)
      BY <3>1, <3>3 DEF Handing, Old
    <3> QED
      BY <1>1, <3>2, <3>4 DEF OnCopy
  <2>2. CASE Rejecting(m, a)
    BY <1>1, <2>2 DEF Rejections, Rejecting, OnCopy
  <2>3. CASE receipt'[<<m, a>>] = receipt[<<m, a>>]
    BY <1>1, <1>3, <2>3 DEF Rejections
  <2> QED
    BY <1>2, <1>3, <2>1, <2>2, <2>3
<1>4. ASSUME NEW m \in Msg, NEW a \in Agent, send[m].at \in OnCopy, send[m].cur = a
      PROVE  receipt'[<<m, a>>] \notin {None, "created", "rejected"}
  BY <1>2, <1>4 DEF Rejections, Rejecting, OnCopy
<1>5. ASSUME NEW m \in Msg, NEW a \in Agent, send'[m].at \in OnCopy, send'[m].cur = a
      PROVE  receipt'[<<m, a>>] \notin {None, "created", "rejected"}
  <2>1. CASE send'[m] = send[m]
    BY <1>4, <1>5, <2>1
  <2>2. CASE send[m].at \in OnCopy /\ send[m].cur = a
    BY <1>4, <2>2
  <2>3. CASE receipt'[<<m, a>>] \in Proven \union {"routed"}
    BY <2>3, States
  <2> QED
    BY <1>5, <2>1, <2>2, <2>3, OwnSteps, SendTurns
<1>6. ASSUME NEW m \in Msg, NEW a \in Agent, send'[m].at \in {"mark", "markall"},
             send'[m].cur = a, send'[m].view = "created"
      PROVE  ~HasCopy(m, a)'
  <2>1. CASE send'[m] = send[m]
    BY <1>1, <1>6, <2>1 DEF Rejections, Rejecting, OnCopy
  <2>2. CASE receipt[<<m, a>>] = "created" /\ send[m].at \in {"failing", "unwind"}
    BY <1>1, <2>2 DEF Rejections, OnCopy
  <2> QED
    BY <1>6, <2>1, <2>2, OwnSteps, SendTurns
<1> QED
  BY <1>3, <1>5, <1>6 DEF Rejections, Rejecting

-----------------------------------------------------------------------------
(* What the receipts and a returned send_message prove.                     *)

LEMMA Initially ==
  Init => TypeOK /\ Shape /\ Copies /\ Recipients /\ Handing /\ Rejections
<1> SUFFICES ASSUME Init
             PROVE  TypeOK /\ Shape /\ Copies /\ Recipients /\ Handing /\ Rejections
  OBVIOUS
<1>1. TypeOK /\ Shape
  BY TypeInitially
<1>2. /\ \A m \in Msg : send[m].at = "idle" /\ Existing(m) = {}
      /\ \A a \in Agent : recv[a].at = "idle"
      /\ \A m \in Msg, a \in Agent : receipt[<<m, a>>] = None
      /\ confirmed = {}
      /\ \A m \in Msg : intended[m] = {}
  BY DEF Init, Existing, NoSend, NoRecv, Key
<1>3. \A m \in Msg, a \in Agent : HasCopy(m, a) => <<m, a>> \in Legacy /\ Old(m)
  BY DEF Init, HasCopy, Old
<1>4. Copies
  BY <1>2, <1>3, States DEF Copies, SendAt, RecvAt, ProvenHasCopy, PastOutbox
<1>5. Recipients
  BY <1>2 DEF Recipients, Reached, Settled, SendAt, Routing
<1>6. \A a \in Agent : handed[a] = {} /\ recv[a].batch = {}
  BY DEF Init, NoRecv
<1>7. Handing
  BY <1>2, <1>3, <1>6 DEF Handing, RecvAt
<1>8. Rejections
  BY <1>2, States DEF Rejections, Rejecting, OnCopy
<1> QED
  BY <1>1, <1>4, <1>5, <1>7, <1>8

\* A receipt that says delivered, or more, has its envelope in the recipient's
\* inbox or archive and in the sender's outbox, whatever crashed or failed.
THEOREM ProvenDeliveriesHaveCopies ==
  ASSUME OnlyMailboxDelivers PROVE Spec => []ProvenHasCopy
<1>1. Init => TypeOK /\ Shape /\ Copies
  BY Initially
<1>2. TypeOK /\ Shape /\ Copies /\ [Next]_vars => TypeOK' /\ Shape' /\ Copies'
  BY TypePreserved, CopiesPreserved
<1>3. Copies => ProvenHasCopy
  BY DEF Copies
<1> QED
  BY <1>1, <1>2, <1>3, PTL DEF Spec

\* Once a send_message of m has returned, every agent that holds a receipt for m
\* has the envelope, however often the send was interrupted before.
THEOREM ConfirmedMeansDelivered ==
  ASSUME OnlyMailboxDelivers PROVE Spec => []ConfirmedIsDelivered
<1>1. Init => TypeOK /\ Shape /\ Recipients
  BY Initially
<1>2. TypeOK /\ Shape /\ Recipients /\ [Next]_vars => TypeOK' /\ Shape' /\ Recipients'
  BY TypePreserved, RecipientsPreserved
<1>3. TypeOK /\ Recipients => ConfirmedIsDelivered
  BY DEF Recipients, Settled, ConfirmedIsDelivered, Existing, TypeOK
<1> QED
  BY <1>1, <1>2, <1>3, PTL DEF Spec

\* Only the recipients of the first send of a message ever hold a receipt for it.
THEOREM RecipientsAreFrozen ==
  ASSUME OnlyMailboxDelivers PROVE Spec => []RecipientsFrozen
<1>1. Init => TypeOK /\ Shape /\ Recipients
  BY Initially
<1>2. TypeOK /\ Shape /\ Recipients /\ [Next]_vars => TypeOK' /\ Shape' /\ Recipients'
  BY TypePreserved, RecipientsPreserved
<1>3. Recipients => RecipientsFrozen
  BY DEF Recipients, Settled, RecipientsFrozen, Existing
<1> QED
  BY <1>1, <1>2, <1>3, PTL DEF Spec

\* A message that receive_messages has handed over was observed before: its receipt
\* says so, or has moved on from there, however the sender's moves and failures
\* fell in between.
THEOREM HandedMeansObserved ==
  ASSUME OnlyMailboxDelivers PROVE Spec => []HandedIsObserved
<1> DEFINE Inv == TypeOK /\ Shape /\ Copies /\ Recipients /\ Handing
<1>1. Init => Inv
  BY Initially
<1>2. Inv /\ [Next]_vars => Inv'
  BY TypePreserved, CopiesPreserved, RecipientsPreserved, HandingPreserved
<1>3. Inv => HandedIsObserved
  BY DEF Handing, Seen, HandedIsObserved, TypeOK
<1> QED
  BY <1>1, <1>2, <1>3, PTL DEF Spec

\* As long as only the mailbox rejects receipts, a rejected receipt has no copy in
\* its recipient's mailbox, then or later.
THEOREM RejectedMeansNotReached ==
  ASSUME OnlyMailboxDelivers, NobodyElseRejects PROVE Spec => []RejectedNeverReached
<1> DEFINE Inv == TypeOK /\ Shape /\ Copies /\ Recipients /\ Handing /\ Rejections
<1>1. Init => Inv
  BY Initially
<1>2. Inv /\ [Next]_vars => Inv'
  BY TypePreserved, CopiesPreserved, RecipientsPreserved, HandingPreserved,
     RejectionsPreserved
<1>3. Inv => RejectedNeverReached
  BY DEF Rejections, RejectedNeverReached
<1> QED
  BY <1>1, <1>2, <1>3, PTL DEF Spec
=============================================================================
