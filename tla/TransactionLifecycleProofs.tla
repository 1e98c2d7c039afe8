----------------------- MODULE TransactionLifecycleProofs -----------------------
(***************************************************************************)
(* What a client may conclude from TransactionLifecycle alone.  It all     *)
(* rests on counting: an update is brought by a delivery, and the update   *)
(* that settled a transaction is not among those yet to write.             *)
(***************************************************************************)
EXTENDS TransactionLifecycle, TLAPS

\* The deliveries of a transaction, less the one that settled it, bound its writers.
LifecycleInv ==
  /\ status \in [Txns -> Statuses]
  /\ deliveries \in [Txns -> Nat]
  /\ writers \in [Txns -> Nat]
  /\ \A t \in Txns : writers[t] <= deliveries[t]
  /\ \A t \in Txns : status[t] \in Terminal => writers[t] < deliveries[t]

LEMMA InitLifecycleInv == Init => LifecycleInv
  BY DEF Init, LifecycleInv, Statuses, Terminal

LEMMA NextLifecycleInv == LifecycleInv /\ [Next]_vars => LifecycleInv'
<1> SUFFICES ASSUME LifecycleInv, [Next]_vars PROVE LifecycleInv'
  OBVIOUS
<1> USE DEF LifecycleInv, Statuses, Terminal
<1>1. ASSUME NEW t \in Txns, Create(t) PROVE LifecycleInv'
  BY <1>1 DEF Create
<1>2. ASSUME NEW t \in Txns, Deliver(t) PROVE LifecycleInv'
  BY <1>2 DEF Deliver
<1>3. ASSUME NEW t \in Txns, Begin(t) PROVE LifecycleInv'
  BY <1>3 DEF Begin
<1>4. ASSUME NEW t \in Txns, NEW s \in Terminal, Settle(t, s) PROVE LifecycleInv'
  BY <1>4 DEF Settle
<1>5. ASSUME NEW t \in Txns, NEW s \in Terminal, Announce(t, s) PROVE LifecycleInv'
  BY <1>5 DEF Announce
<1>6. CASE GiveUp
  BY <1>6 DEF GiveUp
<1>7. CASE UNCHANGED vars
  BY <1>7 DEF vars
<1>8. QED
  BY <1>1, <1>2, <1>3, <1>4, <1>5, <1>6, <1>7 DEF Next

LEMMA LifecycleInvariant == Spec => []LifecycleInv
  BY InitLifecycleInv, NextLifecycleInv, PTL DEF Spec

\* A transaction whose event was delivered at most once keeps the status it was
\* settled with.
THEOREM OnceFinal == Spec => OnceIsFinal
<1>1. ASSUME LifecycleInv, [Next]_vars, NEW t \in Txns,
             status[t] \in Terminal, deliveries[t] <= 1
      PROVE  status'[t] = status[t]
  <2>1. writers[t] = 0
    BY <1>1 DEF LifecycleInv
  <2>2. ASSUME NEW u \in Txns, NEW s \in Terminal, Settle(u, s)
        PROVE  status'[t] = status[t]
    BY <1>1, <2>1, <2>2 DEF Settle, LifecycleInv
  <2>3. ASSUME NEW u \in Txns, Create(u)
        PROVE  status'[t] = status[t]
    BY <1>1, <2>3 DEF Create, LifecycleInv, Terminal
  <2>4. QED
    BY <1>1, <2>2, <2>3 DEF Next, vars, Deliver, Begin, Announce, GiveUp
<1>2. LifecycleInv /\ [Next]_vars
      => [\A t \in Txns :
            status[t] \in Terminal /\ deliveries[t] <= 1 => status'[t] = status[t]]_vars
  BY <1>1
<1>3. QED
  BY <1>2, LifecycleInvariant, PTL DEF Spec, OnceIsFinal

\* What is announced is about a settled transaction, and of one that was delivered at
\* most once it is the status.
Announced ==
  \A t \in Txns, s \in Terminal :
    <<t, s>> \in announced => status[t] \in Terminal /\ (s = status[t] \/ deliveries[t] > 1)

LEMMA NextAnnounced == LifecycleInv /\ Announced /\ [Next]_vars => Announced'
<1> SUFFICES ASSUME LifecycleInv, Announced, [Next]_vars,
                    NEW t \in Txns, NEW s \in Terminal, <<t, s>> \in announced'
             PROVE  status'[t] \in Terminal /\ (s = status'[t] \/ deliveries'[t] > 1)
  BY DEF Announced
<1> USE DEF LifecycleInv
<1>1. ASSUME NEW u \in Txns, Create(u)
      PROVE  status'[t] \in Terminal /\ (s = status'[t] \/ deliveries'[t] > 1)
  BY <1>1 DEF Create, Announced, Terminal
<1>2. ASSUME NEW u \in Txns, Deliver(u)
      PROVE  status'[t] \in Terminal /\ (s = status'[t] \/ deliveries'[t] > 1)
  BY <1>2 DEF Deliver, Announced
<1>3. ASSUME NEW u \in Txns, NEW r \in Terminal, Settle(u, r)
      PROVE  status'[t] \in Terminal /\ (s = status'[t] \/ deliveries'[t] > 1)
  <2>1. status[t] \in Terminal /\ (s = status[t] \/ deliveries[t] > 1)
    BY <1>3 DEF Settle, Announced
  <2>2. CASE u = t
    <3>1. writers[t] > 0 /\ writers[t] < deliveries[t] /\ deliveries'[t] = deliveries[t]
      BY <1>3, <2>1, <2>2 DEF Settle
    <3>2. status'[t] = r
      BY <1>3, <2>2 DEF Settle
    <3>3. QED
      BY <3>1, <3>2
  <2>3. CASE u # t
    BY <1>3, <2>1, <2>3 DEF Settle
  <2>4. QED
    BY <2>2, <2>3
<1>4. ASSUME NEW u \in Txns, NEW r \in Terminal, Announce(u, r)
      PROVE  status'[t] \in Terminal /\ (s = status'[t] \/ deliveries'[t] > 1)
  BY <1>4 DEF Announce, Announced
<1>5. CASE UNCHANGED <<status, deliveries, announced>>
  BY <1>5 DEF Announced
<1>6. QED
  BY <1>1, <1>2, <1>3, <1>4, <1>5 DEF Next, Begin, GiveUp, vars

\* Whoever reads transaction.updated reads the status, unless the event that led to
\* it was delivered twice.
THEOREM OnceAnnounced == Spec => []OnceIsAnnounced
<1>1. Init => Announced
  BY DEF Init, Announced
<1>2. LifecycleInv /\ Announced => OnceIsAnnounced
  BY DEF LifecycleInv, Announced, OnceIsAnnounced
<1>3. QED
  BY <1>1, <1>2, NextAnnounced, LifecycleInvariant, PTL DEF Spec
===============================================================================
