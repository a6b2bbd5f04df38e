--------------------------- MODULE DeliveryLedger ---------------------------
(***************************************************************************)
(* The receipt ledger DeliveryLedger of delivery.py: one receipt for each  *)
(* message and recipient, created once and then moved along a fixed graph  *)
(* of delivery states, each move one locked and atomic replacement of the  *)
(* receipt file.  Mailbox moves its receipts with these transitions, and   *)
(* DeliveryTrail adds what their lists retain.                             *)
(***************************************************************************)
CONSTANTS
  Key,   \* (message_id, recipient) pairs
  None   \* no receipt file

VARIABLE receipt  \* current_state of each receipt, or None

\* ALLOWED_TRANSITIONS
Allowed ==
  [created          |-> {"accepted", "rejected", "revoked"},
   accepted         |-> {"routed", "deferred", "delivery_unknown", "expired",
                         "dead_lettered", "revoked", "rejected"},
   routed           |-> {"delivered", "deferred", "delivery_unknown", "expired",
                         "dead_lettered", "revoked"},
   deferred         |-> {"routed", "delivery_unknown", "expired",
                         "dead_lettered", "revoked"},
   delivered        |-> {"observed", "expired", "dead_lettered", "revoked"},
   observed         |-> {"acted", "revoked"},
   acted            |-> {"verified", "revoked"},
   delivery_unknown |-> {"routed", "deferred", "delivered", "observed",
                         "expired", "dead_lettered", "revoked"},
   verified         |-> {}, expired |-> {}, dead_lettered |-> {},
   revoked          |-> {}, rejected |-> {}]

State    == DOMAIN Allowed
ASSUME NoneAssumption == None \notin State

Terminal == {"verified", "expired", "dead_lettered", "revoked", "rejected"}

\* Delivery has been proven: the recipient's mailbox has, or had, its copy.
Proven == {"delivered", "observed", "acted", "verified"}

\* mutated form: a delivery already proven can fall back to unknown
CanDowngrade(from, to) ==
  to \in Allowed[from] \/ (from = "delivered" /\ to = "delivery_unknown")

\* mutated form: action can be recorded without an observation
CanSkipObserved(from, to) ==
  to \in Allowed[from] \/ (from = "delivered" /\ to = "acted")

\* transition() of a receipt to a state it is not in; to the state it is in it
\* either changes nothing or throws.
CanTransition(from, to) == to \in Allowed[from]

-----------------------------------------------------------------------------
Init == receipt = [k \in Key |-> None]

Create(k) ==
  /\ receipt[k] = None
  /\ receipt' = [receipt EXCEPT ![k] = "created"]

Transition(k, to) ==
  /\ receipt[k] # None
  /\ CanTransition(receipt[k], to)
  /\ receipt' = [receipt EXCEPT ![k] = to]
=============================================================================
