------------------------- MODULE TransactionLifecycle -------------------------
(***************************************************************************)
(* What FinFlow promises about its transactions, without saying how.       *)
(*                                                                         *)
(* A transaction's status goes from PENDING to COMPLETED or FAILED         *)
(* (apps/transactions/models.py), and transaction.updated announces it.    *)
(* Every delivery of its event is one payment run and brings at most one   *)
(* update.  An update may begin only while the transaction is PENDING, but *)
(* nothing makes it write while that is still so: the updates that had     *)
(* begun when the first one wrote may overwrite it, and nobody else.       *)
(* Delivered once, a transaction is settled once.                          *)
(***************************************************************************)
EXTENDS Naturals

CONSTANT Txns          \* the transaction ids

VARIABLES
  status,              \* [Txns -> Statuses]: the row's status, "NONE" without a row
  deliveries,          \* [Txns -> Nat]: how often its event was handed to a payment run
  writers,             \* [Txns -> Nat]: updates that found it PENDING and have yet to write
  announced            \* the <<transaction, status>> pairs that were announced

vars == <<status, deliveries, writers, announced>>

\* Transaction.Status: the two members a transaction may end in, and all of them.
Terminal == {"COMPLETED", "FAILED"}
Statuses == {"NONE", "PENDING"} \cup Terminal

Init ==
  /\ status = [t \in Txns |-> "NONE"]
  /\ deliveries = [t \in Txns |-> 0]
  /\ writers = [t \in Txns |-> 0]
  /\ announced = {}

\* POST /api/transactions/ leaves a PENDING row.
Create(t) ==
  /\ status[t] = "NONE"
  /\ status' = [status EXCEPT ![t] = "PENDING"]
  /\ UNCHANGED <<deliveries, writers, announced>>

\* The consumer hands the event of an existing transaction to a payment run.
Deliver(t) ==
  /\ status[t] # "NONE"
  /\ deliveries' = [deliveries EXCEPT ![t] = @ + 1]
  /\ UNCHANGED <<status, writers, announced>>

\* The update of one of its runs finds the transaction PENDING.
Begin(t) ==
  /\ status[t] = "PENDING"
  /\ writers[t] < deliveries[t]
  /\ writers' = [writers EXCEPT ![t] = @ + 1]
  /\ UNCHANGED <<status, deliveries, announced>>

\* An update that had begun settles the transaction, or overwrites its status.
Settle(t, s) ==
  /\ writers[t] > 0
  /\ writers' = [writers EXCEPT ![t] = @ - 1]
  /\ status' = [status EXCEPT ![t] = s]
  /\ UNCHANGED <<deliveries, announced>>

\* Updates end without having written: an error, or a crash that takes them all.
GiveUp ==
  /\ writers' \in [Txns -> Nat]
  /\ \A t \in Txns : writers'[t] <= writers[t]
  /\ UNCHANGED <<status, deliveries, announced>>

\* transaction.updated carries the status the transaction has, or one that an
\* update of another run has overwritten.
Announce(t, s) ==
  /\ status[t] \in Terminal
  /\ s = status[t] \/ deliveries[t] > 1
  /\ announced' = announced \cup {<<t, s>>}
  /\ UNCHANGED <<status, deliveries, writers>>

Next ==
  \/ \E t \in Txns : Create(t) \/ Deliver(t) \/ Begin(t)
  \/ \E t \in Txns, s \in Terminal : Settle(t, s) \/ Announce(t, s)
  \/ GiveUp

Spec == Init /\ [][Next]_vars

-------------------------------------------------------------------------------
(* What follows from it *)

\* A transaction whose event was delivered at most once keeps the status it was
\* settled with: its runs, not the updates of anybody else, can change it.
OnceIsFinal ==
  [][\A t \in Txns :
       status[t] \in Terminal /\ deliveries[t] <= 1 => status'[t] = status[t]]_vars

\* What is announced of such a transaction is the status it has.
OnceIsAnnounced ==
  \A t \in Txns, s \in Terminal :
    <<t, s>> \in announced /\ deliveries[t] <= 1 => status[t] = s
===============================================================================
