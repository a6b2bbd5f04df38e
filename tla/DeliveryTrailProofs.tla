------------------------ MODULE DeliveryTrailProofs -------------------------
(***************************************************************************)
(* The transition lists of the ledger, for any set of receipts and lists   *)
(* of any length.                                                          *)
(***************************************************************************)
EXTENDS DeliveryTrail, TLAPS

LedgerTypeOK ==
  /\ receipt \in [Key -> State \union {None}]
  /\ updated \in [Key -> Nat]
  /\ transitions \in [Key -> Seq(Entry)]

\* Every receipt that was ever written can be read.
ChainIntact ==
  \A k \in Key :
    IF receipt[k] = None THEN transitions[k] = <<>>
    ELSE AssertReceipt(receipt[k], updated[k], transitions[k])

\* The evidence a state rests on, for every state on the way to verified.
EvidenceSoFar ==
  \A k \in Key :
    /\ receipt[k] \notin {None, "created", "revoked", "rejected"} =>
         "accepted" \in Passed(k)
    /\ receipt[k] \in {"observed", "acted", "verified"} => "observed" \in Passed(k)
    /\ receipt[k] \in {"acted", "verified"} => "acted" \in Passed(k)

\* The inductive invariant.
TrailInv == LedgerTypeOK /\ ChainIntact /\ ProvenDeliveryKept /\ EvidenceSoFar

\* What the graph allows after a proven delivery.
LEMMA ProvenIsClosed ==
  ASSUME NEW from \in (Proven \union Terminal) \ {"rejected"}, NEW to,
         CanTransition(from, to)
  PROVE  to \in (Proven \union Terminal) \ {"rejected"}
  BY DEF Proven, Terminal, CanTransition, Allowed

LEMMA AllowedStates ==
  ASSUME NEW from \in State, NEW to, CanTransition(from, to)
  PROVE  to \in State /\ to # "created"
  BY DEF State, CanTransition, Allowed

\* The states that need no acceptance before them, and where they lead.
LEMMA AcceptedFirst ==
  ASSUME NEW from \in State, NEW to, CanTransition(from, to)
  PROVE  /\ from = "created" => to \in {"accepted", "rejected", "revoked"}
         /\ from \notin {"revoked", "rejected"}
         /\ to = "verified" => from = "acted"
         /\ to = "acted" => from = "observed"
  BY DEF State, CanTransition, Allowed

LEMMA NoneIsNoState == None \notin {"created", "observed", "acted", "verified"}
  BY NoneAssumption DEF State, Allowed

LEMMA TrailInitially == TrailInit => TrailInv
<1> SUFFICES ASSUME TrailInit PROVE TrailInv
  OBVIOUS
<1>1. LedgerTypeOK
  BY DEF TrailInit, Init, LedgerTypeOK, Entry
<1>2. ChainIntact
  <2>1. \A k \in Key : receipt[k] = None /\ transitions[k] = <<>>
    BY DEF TrailInit, Init
  <2>2. \A i \in 1 .. Len(<<>>) - 1 : FALSE
    OBVIOUS
  <2> QED
    BY <2>1, <2>2 DEF ChainIntact, AssertReceipt
<1>3. ProvenDeliveryKept
  BY DEF TrailInit, ProvenDeliveryKept
<1>4. EvidenceSoFar
  BY NoneIsNoState DEF TrailInit, Init, EvidenceSoFar
<1> QED
  BY <1>1, <1>2, <1>3, <1>4 DEF TrailInv

LEMMA TrailPreserved == TrailInv /\ [TrailNext]_trailVars => TrailInv'
<1> SUFFICES ASSUME TrailInv, [TrailNext]_trailVars PROVE TrailInv'
  OBVIOUS
<1> USE DEF TrailInv
<1>1. ASSUME NEW k \in Key, NEW at \in Time, CreateReceipt(k, at) PROVE TrailInv'
  <2> DEFINE e == [to |-> "created", at |-> at]
  <2>1. /\ receipt[k] = None
        /\ receipt' = [receipt EXCEPT ![k] = "created"]
        /\ updated' = [updated EXCEPT ![k] = at]
        /\ transitions' = [transitions EXCEPT ![k] = <<e>>]
    <3>1. transitions[k] = <<>> /\ Append(<<>>, e) = <<e>>
      BY <1>1 DEF CreateReceipt, Create, ChainIntact
    <3> QED
      BY <1>1, <3>1 DEF CreateReceipt, Record, Create
  <2>2. "created" \in State /\ "created" \notin Proven /\ e \in Entry /\ at \in Nat
    BY BoundAssumption DEF State, Allowed, Proven, Entry
  <2>3. LedgerTypeOK'
    BY <2>1, <2>2 DEF LedgerTypeOK
  <2>4. ChainIntact'
    <3>1. /\ transitions'[k] = <<e>> /\ receipt'[k] = "created" /\ updated'[k] = at
          /\ \A m \in Key : m # k => /\ transitions'[m] = transitions[m]
                                     /\ receipt'[m] = receipt[m]
                                     /\ updated'[m] = updated[m]
      BY <2>1 DEF LedgerTypeOK
    <3>2. /\ Len(<<e>>) = 1 /\ <<e>>[1] = e /\ <<e>> # <<>>
          /\ 1 .. Len(<<e>>) - 1 = {}
      OBVIOUS
    <3>3. AssertReceipt(receipt'[k], updated'[k], transitions'[k]) /\ receipt'[k] # None
      BY <3>1, <3>2, NoneIsNoState DEF AssertReceipt
    <3>4. ASSUME NEW m \in Key, m # k
          PROVE  IF receipt'[m] = None THEN transitions'[m] = <<>>
                 ELSE AssertReceipt(receipt'[m], updated'[m], transitions'[m])
      BY <3>1, <3>4 DEF ChainIntact, AssertReceipt
    <3> QED
      BY <3>3, <3>4 DEF ChainIntact, AssertReceipt
  <2>5. ProvenDeliveryKept'
    BY <2>1, <2>2 DEF ProvenDeliveryKept, LedgerTypeOK
  <2>6. EvidenceSoFar'
    BY <2>1 DEF EvidenceSoFar, Passed, LedgerTypeOK
  <2> QED
    BY <2>3, <2>4, <2>5, <2>6
<1>2. ASSUME NEW k \in Key, NEW at \in Time, NEW to \in State, AppendTransition(k, to, at)
      PROVE  TrailInv'
  <2> DEFINE t == transitions[k]
             e == [to |-> to, at |-> at]
             u == Append(t, e)
  <2>1. /\ receipt' = [receipt EXCEPT ![k] = to]
        /\ updated' = [updated EXCEPT ![k] = at]
        /\ transitions' = [transitions EXCEPT ![k] = u]
        /\ receipt[k] # None /\ CanTransition(receipt[k], to) /\ updated[k] <= at
    BY <1>2, BoundAssumption DEF AppendTransition, Checked, Transition, Record, LedgerTypeOK
  <2>2. /\ receipt[k] \in State /\ t \in Seq(Entry) /\ e \in Entry /\ at \in Nat
        /\ t # <<>> /\ t[1].to = "created"
        /\ t[Len(t)].to = receipt[k] /\ t[Len(t)].at = updated[k]
    BY <2>1, BoundAssumption DEF LedgerTypeOK, ChainIntact, AssertReceipt, Entry
  <2>3. Len(t) \in Nat /\ Len(t) >= 1 /\ DOMAIN t = 1 .. Len(t)
    BY <2>2
  <2>4. /\ u \in Seq(Entry) /\ Len(u) = Len(t) + 1 /\ u[Len(u)] = e
        /\ DOMAIN u = 1 .. Len(t) + 1
        /\ \A i \in 1 .. Len(t) : u[i] = t[i]
    BY <2>2, <2>3
  <2>5. /\ transitions'[k] = u /\ receipt'[k] = to /\ updated'[k] = at
        /\ \A m \in Key : m # k => /\ transitions'[m] = transitions[m]
                                   /\ receipt'[m] = receipt[m]
                                   /\ updated'[m] = updated[m]
    BY <2>1 DEF LedgerTypeOK
  <2> HIDE DEF u
  <2>6. LedgerTypeOK'
    BY <2>1, <2>2, <2>4 DEF LedgerTypeOK
  <2>7. ChainIntact'
    <3>1. \A i \in 1 .. Len(u) - 1 : CanTransition(u[i].to, u[i + 1].to) /\ u[i].at <= u[i + 1].at
      <4> TAKE i \in 1 .. Len(u) - 1
      <4>1. CASE i < Len(t)
        BY <2>1, <2>3, <2>4, <4>1 DEF ChainIntact, AssertReceipt
      <4>2. CASE i = Len(t)
        BY <2>1, <2>2, <2>3, <2>4, <4>2
      <4> QED
        BY <2>3, <2>4, <4>1, <4>2
    <3>2. u # <<>> /\ u[1].to = "created" /\ u[Len(u)].to = to /\ u[Len(u)].at = at /\ to # None
      BY <2>2, <2>3, <2>4, NoneAssumption
    <3>3. AssertReceipt(receipt'[k], updated'[k], transitions'[k]) /\ receipt'[k] # None
      BY <2>5, <3>1, <3>2 DEF AssertReceipt
    <3> QED
      BY <2>5, <3>3 DEF ChainIntact, AssertReceipt
  <2>8. ProvenDeliveryKept'
    <3> DEFINE Kept == (Proven \union Terminal) \ {"rejected"}
    <3>1. ASSUME NEW i \in DOMAIN u, NEW j \in DOMAIN u, i < j, u[i].to \in Proven
          PROVE  u[j].to \in Kept
      <4>1. CASE j <= Len(t)
        BY <2>3, <2>4, <3>1, <4>1 DEF ProvenDeliveryKept
      <4>2. CASE j = Len(t) + 1
        <5>1. t[Len(t)].to \in Kept
          <6>1. CASE i = Len(t)
            BY <2>3, <2>4, <3>1, <6>1 DEF Proven
          <6>2. CASE i < Len(t)
            BY <2>3, <2>4, <3>1, <6>2 DEF ProvenDeliveryKept
          <6> QED
            BY <2>3, <2>4, <3>1, <4>2, <6>1, <6>2
        <5> QED
          BY <2>1, <2>2, <2>4, <4>2, <5>1, ProvenIsClosed
      <4> QED
        BY <2>3, <2>4, <4>1, <4>2
    <3> QED
      BY <2>5, <3>1 DEF ProvenDeliveryKept
  <2>9. EvidenceSoFar'
    <3>1. \A m \in Key : Passed(m) \subseteq Passed(m)'
      BY <2>3, <2>4, <2>5 DEF Passed
    <3>2. to \in Passed(k)'
      BY <2>3, <2>4, <2>5 DEF Passed
    <3>3. \A m \in Key : m # k => Passed(m)' = Passed(m)
      BY <2>5 DEF Passed
    <3> QED
      BY <2>1, <2>2, <2>5, <3>1, <3>2, <3>3, AcceptedFirst, AllowedStates DEF EvidenceSoFar
  <2> QED
    BY <2>6, <2>7, <2>8, <2>9
<1>3. CASE UNCHANGED trailVars
  BY <1>3 DEF trailVars, LedgerTypeOK, ChainIntact, AssertReceipt,
              ProvenDeliveryKept,
              EvidenceSoFar, Passed
<1> QED
  BY <1>1, <1>2, <1>3 DEF TrailNext

THEOREM TrailInvariant == TrailSpec => []TrailInv
  BY TrailInitially, TrailPreserved, PTL DEF TrailSpec

\* transition() never gets as far as the write and is refused there: what its
\* checks let through is a receipt _receipt_from_value accepts.
THEOREM ChecksSuffice == TrailSpec => []CheckedIsWritable
<1>1. TrailInv => CheckedIsWritable
  <2> SUFFICES ASSUME TrailInv, NEW k \in Key, NEW to \in State, NEW at \in Time,
                      Checked(k, to, at)
               PROVE  Writable(k, to, at)
    BY DEF CheckedIsWritable
  <2> DEFINE t == transitions[k]
             e == [to |-> to, at |-> at]
             u == Append(t, e)
  <2>1. /\ receipt[k] # None /\ CanTransition(receipt[k], to) /\ updated[k] <= at
        /\ receipt[k] \in State /\ t \in Seq(Entry) /\ e \in Entry
        /\ t # <<>> /\ t[1].to = "created"
        /\ t[Len(t)].to = receipt[k] /\ t[Len(t)].at = updated[k]
        /\ \A i \in 1 .. Len(t) - 1 : CanTransition(t[i].to, t[i + 1].to) /\ t[i].at <= t[i + 1].at
    BY BoundAssumption DEF Checked, TrailInv, LedgerTypeOK, ChainIntact, AssertReceipt, Entry
  <2>2. /\ Len(t) \in Nat /\ Len(t) >= 1
        /\ u \in Seq(Entry) /\ Len(u) = Len(t) + 1 /\ u[Len(u)] = e
        /\ \A i \in 1 .. Len(t) : u[i] = t[i]
    BY <2>1
  <2> HIDE DEF u
  <2>3. ASSUME NEW i \in 1 .. Len(u) - 1
        PROVE  CanTransition(u[i].to, u[i + 1].to) /\ u[i].at <= u[i + 1].at
    <3>1. CASE i < Len(t)
      <4>1. i \in 1 .. Len(t) - 1 /\ u[i] = t[i] /\ u[i + 1] = t[i + 1]
        BY <2>2, <3>1
      <4> QED
        BY <2>1, <4>1
    <3>2. CASE i = Len(t)
      <4>1. u[i] = t[Len(t)] /\ u[i + 1] = e
        BY <2>2, <3>2
      <4>2. updated[k] <= at
        BY <2>1
      <4> QED
        BY <2>1, <4>1, <4>2
    <3>3. i < Len(t) \/ i = Len(t)
      BY <2>2
    <3> QED
      BY <3>1, <3>2, <3>3
  <2>4. u # <<>> /\ u[1].to = "created" /\ u[Len(u)].to = to /\ u[Len(u)].at = at
    BY <2>1, <2>2
  <2>5. AssertReceipt(to, at, u)
    BY <2>3, <2>4 DEF AssertReceipt
  <2> QED
    BY <2>5 DEF Writable, u
<1> QED
  BY <1>1, TrailInvariant, PTL

\* A proven delivery is never downgraded to unknown or refused, however long the
\* receipt lives on.
THEOREM ProvenStaysProven == TrailSpec => []ProvenDeliveryKept
<1>1. TrailInv => ProvenDeliveryKept
  BY DEF TrailInv
<1> QED
  BY <1>1, TrailInvariant, PTL

\* verified is reached only over accepted, observed and acted.
THEOREM VerifiedIsBacked == TrailSpec => []VerifiedHasEvidence
<1>1. TrailInv => VerifiedHasEvidence
  BY NoneIsNoState DEF TrailInv, EvidenceSoFar, VerifiedHasEvidence
<1> QED
  BY <1>1, TrailInvariant, PTL
=============================================================================
