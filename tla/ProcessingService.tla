--------------------------- MODULE ProcessingService ---------------------------
(***************************************************************************)
(* The processing service: a Kafka consumer that starts one asyncio task   *)
(* per event of transaction.created and does not wait for it (consumer.py),*)
(* inside a FastAPI process that starts and cancels it (main.py).          *)
(*                                                                         *)
(* The offset is committed automatically: what is committed is how far the *)
(* loop has read, whatever became of the tasks.  A task runs the payment   *)
(* stub, sends one PATCH and logs the answer; nothing is retried.          *)
(***************************************************************************)
EXTENDS Integers, Sequences, FiniteSets

CONSTANTS
  Txns,                \* transaction ids
  MaxEvents,           \* bound: events on the topic
  MaxDeliveries,       \* bound: events handed to a task
  MaxResets,           \* bound: rebalances, shutdowns and crashes
  Nil                  \* no value

ASSUME ProcessingAssumption ==
  /\ {MaxEvents, MaxDeliveries, MaxResets} \subseteq Nat
  /\ Nil \notin Txns

VARIABLES
  created,             \* topic transaction.created: the ids published, in order
  position,            \* events the running consumer has read
  committed,           \* the offset the group has committed
  consumer,            \* where the consumer task and its process stand
  task,                \* process_transaction, one per delivered event
  resets               \* rebalances, shutdowns and crashes so far

vars == <<created, position, committed, consumer, task, resets>>

Deliveries == 1..MaxDeliveries
Outcomes   == {"COMPLETED", "FAILED"}
Running    == {"dag", "send", "await"}
Ended      == {"ok", "error", "killed"}
TaskPc     == {"unused"} \cup Running \cup Ended

NoTask == [pc |-> "unused", txn |-> Nil, offset |-> 0, outcome |-> Nil]

Init ==
  /\ created = <<>>
  /\ position = 0
  /\ committed = 0
  /\ consumer = "starting"
  /\ task = [d \in Deliveries |-> NoTask]
  /\ resets = 0

\* The environment: the account service publishes an event.
Produce(t) ==
  /\ Len(created) < MaxEvents
  /\ created' = Append(created, t)
  /\ UNCHANGED <<position, committed, consumer, task, resets>>

-------------------------------------------------------------------------------
(* The consumer *)

\* Mutant: auto_offset_reset = "latest".
ConsumerStartLatest ==
  /\ consumer = "starting"
  /\ consumer' = "running"
  /\ position' = IF committed = 0 THEN Len(created) ELSE committed
  /\ UNCHANGED <<created, committed, task, resets>>

\* consumer.start() joins the group and resumes at the committed offset, or at
\* the earliest event when none is committed.
ConsumerStart ==
  /\ consumer = "starting"
  /\ consumer' = "running"
  /\ position' = committed
  /\ UNCHANGED <<created, committed, task, resets>>

\* start() raises before the try of start_consumer: the task ends with an
\* exception nobody awaits, and the process keeps answering /health with ok.
ConsumerStartFails ==
  /\ consumer = "starting"
  /\ consumer' = "dead"
  /\ UNCHANGED <<created, position, committed, task, resets>>

\* Mutant: the loop is restarted when it raises, at the committed offset.
ConsumerFailsRetried ==
  /\ consumer = "running"
  /\ position' = committed
  /\ UNCHANGED <<created, committed, consumer, task, resets>>

\* The loop raises: stop() in the finally block commits if it still can, and the
\* task is over.
ConsumerFails ==
  /\ consumer = "running"
  /\ consumer' = "dead"
  /\ committed' \in {committed, position}
  /\ UNCHANGED <<created, position, task, resets>>

NextFree(d) == task[d].pc = "unused" /\ \A e \in 1..(d - 1) : task[e].pc # "unused"

\* Mutant: the newest event is left for the next poll.
FetchBehind(d) ==
  /\ consumer = "running"
  /\ position + 1 < Len(created)
  /\ NextFree(d)
  /\ position' = position + 1
  /\ task' = [task EXCEPT ![d].pc = "dag", ![d].txn = created[position + 1],
                          ![d].offset = position + 1]
  /\ UNCHANGED <<created, committed, consumer, resets>>

\* The loop reads the next event and starts its task, the d-th one.
Fetch(d) ==
  /\ consumer = "running"
  /\ position < Len(created)
  /\ NextFree(d)
  /\ position' = position + 1
  /\ task' = [task EXCEPT ![d].pc = "dag", ![d].txn = created[position + 1],
                          ![d].offset = position + 1]
  /\ UNCHANGED <<created, committed, consumer, resets>>

\* Mutant: the commit is one event ahead of what the loop has read.
AutoCommitAhead ==
  /\ consumer = "running"
  /\ committed # position + 1
  /\ committed' = position + 1
  /\ UNCHANGED <<created, position, consumer, task, resets>>

\* aiokafka's background commit of what the loop has read.
AutoCommit ==
  /\ consumer = "running"
  /\ committed # position
  /\ committed' = position
  /\ UNCHANGED <<created, position, consumer, task, resets>>

\* The group rebalances without a commit: the consumer resumes where the group
\* stands and reads again what it had read since.
Rebalance ==
  /\ consumer = "running"
  /\ resets < MaxResets
  /\ resets' = resets + 1
  /\ position' = committed
  /\ UNCHANGED <<created, committed, consumer, task>>

-------------------------------------------------------------------------------
(* process_transaction *)

\* trigger_payment_dag returns an outcome; an exception counts as FAILED.
Dag(d) ==
  /\ task[d].pc = "dag"
  /\ \E o \in Outcomes :
       task' = [task EXCEPT ![d] = [@ EXCEPT !.pc = "send", !.outcome = o]]
  /\ UNCHANGED <<created, position, committed, consumer, resets>>

\* The signed PATCH reaches the account service.
Send(d) ==
  /\ task[d].pc = "send"
  /\ task' = [task EXCEPT ![d].pc = "await"]
  /\ UNCHANGED <<created, position, committed, consumer, resets>>

\* The PATCH does not reach it: logged, and the task ends.
SendFails(d) ==
  /\ task[d].pc = "send"
  /\ task' = [task EXCEPT ![d].pc = "error"]
  /\ UNCHANGED <<created, position, committed, consumer, resets>>

\* Mutant: every answer counts as success.
AnswerAnyOk(d, code) ==
  /\ task[d].pc = "await"
  /\ task' = [task EXCEPT ![d].pc = "ok"]
  /\ UNCHANGED <<created, position, committed, consumer, resets>>

\* An answer arrives: 200 is logged as success, any other as an error, and the task
\* ends.
Answer(d, code) ==
  /\ task[d].pc = "await"
  /\ task' = [task EXCEPT ![d].pc = IF code = 200 THEN "ok" ELSE "error"]
  /\ UNCHANGED <<created, position, committed, consumer, resets>>

\* Mutant: the client waits without a timeout.
NoAnswerNever(d) ==
  /\ task[d].pc = "awaiting"
  /\ task' = [task EXCEPT ![d].pc = "error"]
  /\ UNCHANGED <<created, position, committed, consumer, resets>>

\* No answer within httpx's ten seconds, or the connection breaks: logged.
NoAnswer(d) ==
  /\ task[d].pc = "await"
  /\ task' = [task EXCEPT ![d].pc = "error"]
  /\ UNCHANGED <<created, position, committed, consumer, resets>>

-------------------------------------------------------------------------------
(* The process *)

Kill == task' = [d \in Deliveries |->
                   IF task[d].pc \in Running THEN [task[d] EXCEPT !.pc = "killed"] ELSE task[d]]

\* shutdown_event cancels the consumer task, if it is not done, and waits for its
\* stop(), which commits if it still can.  The other tasks are left alone.
Shutdown ==
  /\ consumer \in {"starting", "running", "dead"}
  /\ resets < MaxResets
  /\ resets' = resets + 1
  /\ consumer' = "stopped"
  /\ committed' \in (IF consumer = "running" THEN {committed, position} ELSE {committed})
  /\ UNCHANGED <<created, position, task>>

\* The event loop closes and takes the tasks with it.
Exit ==
  /\ consumer = "stopped"
  /\ consumer' = "down"
  /\ Kill
  /\ UNCHANGED <<created, position, committed, resets>>

\* The process dies.
Crash ==
  /\ consumer # "down"
  /\ resets < MaxResets
  /\ resets' = resets + 1
  /\ consumer' = "down"
  /\ Kill
  /\ UNCHANGED <<created, position, committed>>

\* startup_event: somebody starts the service again.
Restart ==
  /\ consumer = "down"
  /\ consumer' = "starting"
  /\ UNCHANGED <<created, position, committed, task, resets>>

ConsumerStep ==
  \/ ConsumerStart \/ ConsumerStartFails \/ Exit \/ \E d \in Deliveries : Fetch(d)

\* What a task does without its PATCH being involved, and with it.
TaskLocal(d) == Dag(d) \/ SendFails(d) \/ NoAnswer(d)
TaskStep(d)  == TaskLocal(d) \/ Send(d) \/ \E code \in {200, 400} : Answer(d, code)

\* Everything but an event's arrival and the PATCH.
Local ==
  \/ ConsumerStep \/ ConsumerFails \/ AutoCommit \/ Rebalance
  \/ Shutdown \/ Crash \/ Restart
  \/ \E d \in Deliveries : TaskLocal(d)

Next ==
  \/ Local
  \/ \E t \in Txns : Produce(t)
  \/ \E d \in Deliveries : Send(d) \/ \E code \in {200, 400} : Answer(d, code)

Spec == Init /\ [][Next]_vars

\* The asyncio loop runs whatever is ready.  Nothing has to fail, to be shut
\* down or, docker-compose.yml having no restart policy, to be started again.
Fairness ==
  /\ WF_vars(ConsumerStep)
  /\ \A d \in Deliveries : WF_vars(TaskStep(d))

FairSpec == Spec /\ Fairness

-------------------------------------------------------------------------------
(* Properties *)

TypeOK ==
  /\ created \in Seq(Txns)
  /\ position \in 0..Len(created)
  /\ committed \in 0..Len(created)
  /\ consumer \in {"starting", "running", "dead", "stopped", "down"}
  /\ task \in [Deliveries -> [pc : TaskPc, txn : Txns \cup {Nil}, offset : Nat,
                              outcome : Outcomes \cup {Nil}]]
  /\ resets \in 0..MaxResets

Delivered(i) == \E d \in Deliveries : task[d].offset = i

\* No event is passed over: whatever the group has committed, and whatever a
\* running consumer has read, was handed to a task.
NoEventSkipped ==
  /\ \A i \in 1..committed : Delivered(i)
  /\ consumer = "running" => \A i \in 1..position : Delivered(i)

\* An event is delivered again only after a rebalance, a shutdown or a crash.
RedeliveryNeedsReset ==
  \A i \in 1..Len(created) :
    Cardinality({d \in Deliveries : task[d].offset = i}) <= resets + 1

\* Every event is delivered, unless the consumer has ended: it takes no task's
\* end for that, and no answer of the account service.
EventsDelivered ==
  \A i \in 1..MaxEvents :
    Len(created) >= i ~> Delivered(i) \/ consumer \in {"dead", "stopped", "down"}
===============================================================================
