------------------------------ MODULE PaymentFlow ------------------------------
(***************************************************************************)
(* FinFlow as a whole: the account service (TransactionApi) and the        *)
(* processing service (ProcessingService) share the topic                  *)
(* transaction.created, and every task of the second sends the first one   *)
(* PATCH, so that the d-th delivery is the d-th status update request.     *)
(***************************************************************************)
EXTENDS Integers, Sequences, FiniteSets

CONSTANTS
  Txns, Accounts, Users, Owner, Kinds, Amounts,  \* as in TransactionApi
  Deletable, AckLoss, MaxCrashes,
  MaxDeliveries, MaxResets,                      \* as in ProcessingService
  Nil

VARIABLES
  status, body, post, handler, updated, deleted, balance, crashes,  \* account service
  created,                                                          \* the shared topic
  position, committed, consumer, task, resets                       \* processing service

apiVars  == <<status, body, post, handler, updated, deleted, balance, crashes>>
procVars == <<position, committed, consumer, task, resets>>
vars     == <<apiVars, created, procVars>>

Deliveries == 1..MaxDeliveries

\* A POST publishes its event once, or twice when an acknowledgement is lost.
MaxEvents == IF AckLoss THEN 2 * Cardinality(Txns) ELSE Cardinality(Txns)

\* What either service assumes of its constants; the transactions are finitely many.
ASSUME FlowAssumption ==
  /\ IsFiniteSet(Txns)
  /\ Owner \in [Accounts -> Users]
  /\ Kinds \subseteq {"DEBIT", "CREDIT"}
  /\ Amounts \subseteq Int
  /\ AckLoss \in BOOLEAN
  /\ {MaxCrashes, MaxDeliveries, MaxResets} \subseteq Nat
  /\ Nil \notin Txns

Api  == INSTANCE TransactionApi WITH Requests <- Deliveries
Proc == INSTANCE ProcessingService

Init == Api!Init /\ Proc!Init

ApiStep  == Api!Local /\ UNCHANGED procVars
ProcStep == Proc!Local /\ UNCHANGED apiVars

\* Mutant: the PATCH reports COMPLETED whatever the payment run returned.
SendCompleted(d) ==
  /\ Proc!Send(d)
  /\ Api!Receive(d, task[d].txn, "COMPLETED")

\* The d-th task's PATCH arrives: the path names the transaction of its event, the
\* body the outcome of its payment run.
SendPatch(d) ==
  /\ Proc!Send(d)
  /\ Api!Receive(d, task[d].txn, task[d].outcome)

\* The answer to it arrives while the task still waits.
AnswerPatch(d) ==
  /\ handler[d].pc = "replied"
  /\ Proc!Answer(d, handler[d].code)
  /\ UNCHANGED apiVars

Next ==
  \/ ApiStep
  \/ ProcStep
  \/ \E d \in Deliveries : SendPatch(d) \/ AnswerPatch(d)

Spec == Init /\ [][Next]_vars

TaskStep(d) ==
  \/ Proc!TaskLocal(d) /\ UNCHANGED apiVars
  \/ SendPatch(d)
  \/ AnswerPatch(d)

\* Threads and the asyncio loop run what is ready; failures, restarts and new
\* requests are up to the environment.
Fairness ==
  /\ \A t \in Txns : WF_vars(Api!PostStep(t) /\ UNCHANGED procVars)
  /\ \A d \in Deliveries :
       /\ WF_vars(Api!HandlerStep(d) /\ UNCHANGED procVars)
       /\ WF_vars(TaskStep(d))
  /\ WF_vars(Proc!ConsumerStep /\ UNCHANGED apiVars)

FairSpec == Spec /\ Fairness

-------------------------------------------------------------------------------
(* Properties *)

Terminal == Api!Terminal

\* Both services are in a state of their own type, and the topic they share is.
TypeOK == Api!TypeOK /\ Proc!TypeOK

\* A PATCH never meets a missing transaction: the event it comes from was
\* published after the row was committed, and rows stay.
PatchFindsRow == \A d \in Deliveries : handler[d].code # 404

\* The payment runs made for a transaction, and those whose PATCH has read its row as
\* PENDING and has yet to write it.
RunsOf(t)    == {d \in Deliveries : task[d].txn = t}
WritersOf(t) == {d \in Deliveries : handler[d].pc = "save" /\ handler[d].txn = t}

\* A settled transaction carries the outcome of a payment run made for it.
SettledByPaymentRun ==
  \A t \in Txns : status[t] \in Terminal => \E d \in RunsOf(t) : task[d].outcome = status[t]

\* The processing service reports success ("Transaction status updated") only for
\* a transaction that is settled.
OkMeansSettled ==
  \A d \in Deliveries : task[d].pc = "ok" => status[task[d].txn] \in Terminal

\* The system does what TransactionLifecycle promises, through duplicates, crashes
\* and redeliveries: a delivery is a task, and a writer is a PATCH that has read the
\* row as PENDING.  So a settled transaction changes again only if its event was
\* delivered more than once and the updates of two runs overlapped.
Lifecycle ==
  INSTANCE TransactionLifecycle WITH
    deliveries <- [t \in Txns |-> Cardinality(RunsOf(t))],
    writers <- [t \in Txns |-> Cardinality(WritersOf(t))],
    announced <- {updated[i] : i \in DOMAIN updated}
ImplementsLifecycle == Lifecycle!Spec

\* A transaction whose POST gets as far as the INSERT is settled, or one of the
\* failures nobody repairs has hit it: no row, a lost POST, no event, an ended
\* consumer, or a task that ended without success.
SettledOrExcused ==
  \A t \in Txns :
    post[t] = "insert" ~>
      \/ status[t] \in Terminal
      \/ post[t] \in {"failed", "lost"}
      \/ post[t] = "created" /\ \A i \in DOMAIN created : created[i] # t
      \/ consumer \in {"dead", "stopped", "down"}
      \/ \E d \in Deliveries : task[d].txn = t /\ task[d].pc \in {"error", "killed"}

\* No task waits forever, even for an account service that died under its PATCH.
TasksEnd == \A d \in Deliveries : task[d].pc = "dag" ~> task[d].pc \in Proc!Ended

\* Every POST and PATCH that was taken up is answered or lost in a crash, whatever
\* Kafka, the database and the processing service do.
EveryRequestAnswered == Api!EveryRequestAnswered

(* What the documentation says and the code does not do. *)

\* API_CONTRACTS.md answers 400 to an update of a transaction in a terminal state,
\* and README.md:45 has the update hold the row's lock: no status changes twice.
TerminalIsFinal ==
  [][\A t \in Txns : status[t] \in Terminal => status'[t] = status[t]]_vars
===============================================================================
