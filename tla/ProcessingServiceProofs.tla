------------------------ MODULE ProcessingServiceProofs ------------------------
(***************************************************************************)
(* The consumer's offsets and the tasks it starts, for any number of       *)
(* events, deliveries and resets.                                          *)
(***************************************************************************)
EXTENDS ProcessingService, FiniteSetTheorems, TLAPS

TaskRecord == [pc : TaskPc, txn : Txns \cup {Nil}, offset : Nat, outcome : Outcomes \cup {Nil}]

\* A task that was not started has no event, and one whose payment run has ended
\* has its outcome.
Decided      == {"send", "await", "ok", "error"}
InShape(n)   == /\ n.pc = "unused" => n.offset = 0 /\ n.txn = Nil
                /\ n.pc \in Decided => n.outcome \in Outcomes
TasksInShape == \A d \in Deliveries : InShape(task[d])

TypeInv == TypeOK /\ TasksInShape

USE ProcessingAssumption

LEMMA InitTypeInv == Init => TypeInv
  BY DEF Init, TypeInv, TypeOK, TasksInShape, InShape, Decided, NoTask, TaskPc, Running, Ended

\* What a step that starts no task leaves of the tasks' events.
OffsetsStay == /\ task' \in [Deliveries -> TaskRecord]
               /\ \A d \in Deliveries : /\ task'[d].offset = task[d].offset
                                        /\ task'[d].txn = task[d].txn
                                        /\ task'[d].pc = "unused" <=> task[d].pc = "unused"
               /\ TasksInShape'

Moves(d, n) == task' = [task EXCEPT ![d] = n]

LEMMA MoveKeepsOffsets ==
  ASSUME TypeInv, NEW d \in Deliveries, NEW n \in TaskRecord,
         n.offset = task[d].offset, n.txn = task[d].txn,
         task[d].pc # "unused", n.pc # "unused", InShape(n), Moves(d, n)
  PROVE  OffsetsStay
  BY DEF Moves, OffsetsStay, TasksInShape, TypeInv, TypeOK, TaskRecord

LEMMA TaskKeepsOffsets ==
  ASSUME TypeInv, NEW d \in Deliveries,
         Dag(d) \/ SendFails(d) \/ NoAnswer(d) \/ Send(d) \/ \E code \in {200, 400} : Answer(d, code)
  PROVE  OffsetsStay
<1>0. task \in [Deliveries -> TaskRecord] /\ task[d] \in TaskRecord
  BY DEF TypeInv, TypeOK, TaskRecord
<1>1. ASSUME NEW pc \in TaskPc \ {"unused"}, task[d].pc \in Decided,
             task' = [task EXCEPT ![d].pc = pc]
      PROVE  OffsetsStay
  <2> DEFINE n == [task[d] EXCEPT !.pc = pc]
  <2>1. /\ n \in TaskRecord /\ n.offset = task[d].offset /\ n.txn = task[d].txn
        /\ task[d].pc # "unused" /\ n.pc # "unused" /\ InShape(n)
    BY <1>0, <1>1 DEF TaskRecord, TypeInv, TasksInShape, InShape, Decided
  <2>2. Moves(d, n)
    BY <1>0, <1>1 DEF Moves
  <2> HIDE DEF n
  <2>3. QED
    BY <2>1, <2>2, MoveKeepsOffsets
<1>2. CASE Dag(d)
  <2>1. PICK o \in Outcomes : Moves(d, [task[d] EXCEPT !.pc = "send", !.outcome = o])
    BY <1>0, <1>2 DEF Dag, Moves
  <2> DEFINE g == [task[d] EXCEPT !.pc = "send"]
             n == [g EXCEPT !.outcome = o]
  <2>2. /\ g \in TaskRecord /\ g.pc = "send"
        /\ g.offset = task[d].offset /\ g.txn = task[d].txn
    BY <1>0 DEF TaskRecord, TaskPc, Running
  <2>3. Moves(d, n)
    BY <2>1
  <2> HIDE DEF g
  <2>4. /\ n \in TaskRecord /\ n.offset = task[d].offset /\ n.txn = task[d].txn
        /\ task[d].pc # "unused" /\ n.pc # "unused" /\ InShape(n)
    BY <1>2, <2>2 DEF Dag, TaskRecord, InShape
  <2> HIDE DEF n
  <2>5. QED
    BY <2>3, <2>4, MoveKeepsOffsets
<1>3. CASE SendFails(d)
  BY <1>1, <1>3 DEF SendFails, TaskPc, Ended, Decided
<1>4. CASE NoAnswer(d)
  BY <1>1, <1>4 DEF NoAnswer, TaskPc, Ended, Decided
<1>5. CASE Send(d)
  BY <1>1, <1>5 DEF Send, TaskPc, Running, Decided
<1>6. ASSUME NEW code \in {200, 400}, Answer(d, code) PROVE OffsetsStay
  <2>0. task[d].pc \in Decided /\ {"ok", "error"} \subseteq TaskPc \ {"unused"}
    BY <1>6 DEF Answer, Decided, TaskPc, Ended
  <2>1. CASE code = 200
    <3>1. task' = [task EXCEPT ![d].pc = "ok"]
      BY <1>6, <2>1 DEF Answer
    <3>2. QED
      BY <1>1, <2>0, <3>1
  <2>2. CASE code # 200
    <3>1. task' = [task EXCEPT ![d].pc = "error"]
      BY <1>6, <2>2 DEF Answer
    <3>2. QED
      BY <1>1, <2>0, <3>1
  <2>3. QED
    BY <2>1, <2>2
<1>7. QED
  BY <1>2, <1>3, <1>4, <1>5, <1>6

LEMMA KillKeepsOffsets ==
  ASSUME TypeInv, Kill
  PROVE  OffsetsStay
<1>0. task \in [Deliveries -> TaskRecord]
  BY DEF TypeInv, TypeOK, TaskRecord
<1> DEFINE n(d) == IF task[d].pc \in Running THEN [task[d] EXCEPT !.pc = "killed"] ELSE task[d]
<1>1. ASSUME NEW d \in Deliveries
      PROVE  /\ n(d) \in TaskRecord /\ n(d).offset = task[d].offset /\ n(d).txn = task[d].txn
             /\ n(d).pc = "unused" <=> task[d].pc = "unused"
             /\ InShape(n(d))
  BY <1>0 DEF TaskRecord, TaskPc, Running, Ended, TypeInv, TasksInShape, InShape, Decided
<1>2. task' = [d \in Deliveries |-> n(d)]
  BY DEF Kill
<1> HIDE DEF n
<1>3. QED
  BY <1>1, <1>2 DEF OffsetsStay, TasksInShape

\* Fetch: the d-th task gets the event after the position.
LEMMA FetchStarts ==
  ASSUME TypeInv, NEW d \in Deliveries, Fetch(d)
  PROVE  /\ task' \in [Deliveries -> TaskRecord]
         /\ task[d].offset = 0 /\ task[d].txn = Nil
         /\ task'[d].offset = position + 1 /\ task'[d].txn = created[position + 1]
         /\ task'[d].pc = "dag"
         /\ \A e \in Deliveries : e # d => task'[e] = task[e]
         /\ TasksInShape'
<1>0. task \in [Deliveries -> TaskRecord] /\ task[d] \in TaskRecord
  BY DEF TypeInv, TypeOK, TaskRecord
<1>1. position + 1 \in 1..Len(created) /\ position + 1 \in Nat /\ created \in Seq(Txns)
  BY DEF Fetch, TypeInv, TypeOK
<1>2. created[position + 1] \in Txns
  BY <1>1
<1> DEFINE n == [task[d] EXCEPT !.pc = "dag", !.txn = created[position + 1],
                                !.offset = position + 1]
<1>3. /\ n \in TaskRecord /\ n.pc = "dag"
      /\ n.offset = position + 1 /\ n.txn = created[position + 1]
  BY <1>0, <1>1, <1>2 DEF TaskRecord, TaskPc, Running
<1>4. task' = [task EXCEPT ![d] = n]
  BY <1>0 DEF Fetch
<1> HIDE DEF n
<1>5. task[d].pc = "unused"
  BY DEF Fetch, NextFree
<1>6. QED
  BY <1>0, <1>3, <1>4, <1>5 DEF TasksInShape, InShape, Decided, TypeInv

\* Every step by what it does to the tasks' events: the consumer starts one, or
\* they stay.
LEMMA StepKinds ==
  ASSUME TypeInv, [Next]_vars
  PROVE  (\E d \in Deliveries : Fetch(d)) \/ OffsetsStay
<1>0. ASSUME UNCHANGED task PROVE OffsetsStay
  BY <1>0 DEF OffsetsStay, TypeInv, TypeOK, TasksInShape, TaskRecord
<1>2. CASE Kill
  BY <1>2, KillKeepsOffsets
<1>3. CASE UNCHANGED vars
  BY <1>0, <1>3 DEF vars
<1>4. CASE ConsumerStep
  BY <1>0, <1>2, <1>4 DEF ConsumerStep, ConsumerStart, ConsumerStartFails, Exit
<1>5. CASE ConsumerFails \/ AutoCommit \/ Rebalance \/ Shutdown \/ Crash \/ Restart
  BY <1>0, <1>2, <1>5 DEF ConsumerFails, AutoCommit, Rebalance, Shutdown, Crash, Restart
<1>6. CASE \E t \in Txns : Produce(t)
  BY <1>0, <1>6 DEF Produce
<1>7. ASSUME NEW d \in Deliveries,
             TaskLocal(d) \/ Send(d) \/ \E code \in {200, 400} : Answer(d, code)
      PROVE  OffsetsStay
  BY <1>7, TaskKeepsOffsets DEF TaskLocal
<1>8. QED
  BY <1>3, <1>4, <1>5, <1>6, <1>7 DEF Next, Local

\* How far one step of the service takes a task: it starts, its payment run ends, or
\* the task ends without success.
LEMMA LocalTaskStep ==
  ASSUME TypeInv, Local, NEW d \in Deliveries
  PROVE  \/ task'[d] = task[d]
         \/ Fetch(d)
         \/ task[d].pc = "dag" /\ task'[d].pc = "send"
         \/ /\ task'[d].pc \in {"error", "killed"}
            /\ task'[d].outcome = task[d].outcome
<1>0. task \in [Deliveries -> TaskRecord]
  BY DEF TypeInv, TypeOK, TaskRecord
<1>1. ASSUME NEW e \in Deliveries, Fetch(e), e # d PROVE task'[d] = task[d]
  BY <1>1, FetchStarts
<1>2. ASSUME NEW e \in Deliveries, TaskLocal(e), e # d PROVE task'[d] = task[d]
  BY <1>0, <1>2 DEF TaskLocal, Dag, SendFails, NoAnswer
<1>3. CASE Dag(d)
  <2>1. PICK o \in Outcomes : task' = [task EXCEPT ![d] = [task[d] EXCEPT !.pc = "send", !.outcome = o]]
    BY <1>0, <1>3 DEF Dag
  <2>2. QED
    BY <1>0, <1>3, <2>1 DEF Dag, TaskRecord
<1>4. CASE SendFails(d) \/ NoAnswer(d)
  BY <1>0, <1>4 DEF SendFails, NoAnswer, TaskRecord
<1>5. CASE Kill
  BY <1>0, <1>5 DEF Kill, TaskRecord
<1>6. CASE UNCHANGED task
  BY <1>6
<1>7. QED
  BY <1>1, <1>2, <1>3, <1>4, <1>5, <1>6
     DEF Local, ConsumerStep, ConsumerStart, ConsumerStartFails, Exit, ConsumerFails, AutoCommit,
         Rebalance, Shutdown, Crash, Restart, TaskLocal

-------------------------------------------------------------------------------
(* Type correctness *)

LEMMA NextTypeInv == TypeInv /\ [Next]_vars => TypeInv'
<1> SUFFICES ASSUME TypeInv, [Next]_vars PROVE TypeInv'
  OBVIOUS
<1>1. task' \in [Deliveries -> TaskRecord] /\ TasksInShape'
  BY StepKinds, FetchStarts DEF OffsetsStay
<1>2. /\ created' \in Seq(Txns)
      /\ position' \in 0..Len(created') /\ committed' \in 0..Len(created')
      /\ consumer' \in {"starting", "running", "dead", "stopped", "down"}
      /\ resets' \in 0..MaxResets
  <2> USE DEF TypeInv, TypeOK
  <2>1. CASE UNCHANGED vars
    BY <2>1 DEF vars
  <2>2. CASE ConsumerStart \/ ConsumerStartFails \/ Exit
    BY <2>2 DEF ConsumerStart, ConsumerStartFails, Exit
  <2>7. CASE \E d \in Deliveries : Fetch(d)
    <3>1. Len(created) \in Nat
      OBVIOUS
    <3>2. QED
      BY <2>7, <3>1 DEF Fetch
  <2>3. CASE ConsumerFails \/ AutoCommit
    BY <2>3 DEF ConsumerFails, AutoCommit
  <2>4. CASE Rebalance \/ Shutdown \/ Crash \/ Restart
    BY <2>4 DEF Rebalance, Shutdown, Crash, Restart
  <2>5. ASSUME NEW t \in Txns, Produce(t)
        PROVE  /\ created' \in Seq(Txns)
               /\ position' \in 0..Len(created') /\ committed' \in 0..Len(created')
               /\ UNCHANGED <<consumer, resets>>
    <3>1. created' \in Seq(Txns) /\ Len(created') = Len(created) + 1
      BY <2>5 DEF Produce
    <3>2. QED
      BY <2>5, <3>1 DEF Produce
  <2>6. CASE \E d \in Deliveries : TaskLocal(d) \/ Send(d) \/ \E code \in {200, 400} : Answer(d, code)
    <3>1. UNCHANGED <<created, position, committed, consumer, resets>>
      BY <2>6 DEF TaskLocal, Dag, SendFails, NoAnswer, Send, Answer
    <3>2. QED
      BY <3>1
  <2>8. QED
    BY <2>1, <2>2, <2>3, <2>4, <2>5, <2>6, <2>7 DEF Next, Local, ConsumerStep
<1>3. QED
  BY <1>1, <1>2 DEF TypeInv, TypeOK, TaskRecord

LEMMA TypeInvariant == Spec => []TypeInv
  BY InitTypeInv, NextTypeInv, PTL DEF Spec

\* Type correctness of the processing service.
THEOREM TypeCorrect == Spec => []TypeOK
  BY TypeInvariant, PTL DEF TypeInv

-------------------------------------------------------------------------------
(* Tasks and events *)

\* A task works on the event it was started for.
TasksFollowEvents ==
  \A d \in Deliveries : task[d].pc # "unused" =>
    task[d].offset \in DOMAIN created /\ task[d].txn = created[task[d].offset]

LEMMA InitTasksFollowEvents == Init => TasksFollowEvents
  BY DEF Init, TasksFollowEvents, NoTask

LEMMA NextTasksFollowEvents == TypeInv /\ TasksFollowEvents /\ [Next]_vars => TasksFollowEvents'
<1> SUFFICES ASSUME TypeInv, TasksFollowEvents, [Next]_vars,
                    NEW d \in Deliveries, task'[d].pc # "unused"
             PROVE  task'[d].offset \in DOMAIN created' /\ task'[d].txn = created'[task'[d].offset]
  BY DEF TasksFollowEvents
<1>1. created \in Seq(Txns) /\ Len(created) \in Nat /\ DOMAIN created = 1..Len(created)
  BY DEF TypeInv, TypeOK
<1>2. \A i \in DOMAIN created : i \in DOMAIN created' /\ created'[i] = created[i]
  <2>1. CASE \E t \in Txns : Produce(t)
    BY <1>1, <2>1 DEF Produce
  <2>2. CASE UNCHANGED created
    BY <2>2
  <2>3. QED
    BY <2>1, <2>2 DEF Next, Local, ConsumerStep, ConsumerStart, ConsumerStartFails, ConsumerFails,
       Fetch, AutoCommit, Rebalance, Shutdown, Exit, Crash, Restart, TaskLocal, Dag, Send,
       SendFails, Answer, NoAnswer, vars
<1>3. CASE OffsetsStay
  BY <1>2, <1>3 DEF OffsetsStay, TasksFollowEvents
<1>4. ASSUME NEW e \in Deliveries, Fetch(e)
      PROVE  task'[d].offset \in DOMAIN created' /\ task'[d].txn = created'[task'[d].offset]
  <2>1. CASE d = e
    <3>1. position + 1 \in DOMAIN created
      BY <1>1, <1>4 DEF Fetch, TypeInv, TypeOK
    <3>2. QED
      BY <1>2, <1>4, <2>1, <3>1, FetchStarts
  <2>2. CASE d # e
    BY <1>2, <1>4, <2>2, FetchStarts DEF TasksFollowEvents
  <2>3. QED
    BY <2>1, <2>2
<1>5. QED
  BY <1>3, <1>4, StepKinds

-------------------------------------------------------------------------------
(* No event is skipped *)

\* What was delivered stays so: a task keeps its event.
LEMMA DeliveredStays ==
  ASSUME TypeInv, [Next]_vars, NEW i \in Nat \ {0}, Delivered(i)
  PROVE  Delivered(i)'
  BY StepKinds, FetchStarts DEF Delivered, OffsetsStay

\* Whatever the offsets say was read was handed to a task: they follow the loop,
\* which starts a task for everything it reads, through commits, resets and crashes.
THEOREM EventsAreNotSkipped == Spec => []NoEventSkipped
<1>1. Init => NoEventSkipped
  BY DEF Init, NoEventSkipped
<1>2. TypeInv /\ NoEventSkipped /\ [Next]_vars => NoEventSkipped'
  <2> SUFFICES ASSUME TypeInv, NoEventSkipped, [Next]_vars PROVE NoEventSkipped'
    OBVIOUS
  <2>0. position \in Nat /\ committed \in Nat
    BY DEF TypeInv, TypeOK
  <2>1. ASSUME NEW n \in Nat, \A i \in 1..n : Delivered(i) PROVE \A i \in 1..n : Delivered(i)'
    BY <2>1, DeliveredStays
  <2>2. (\A i \in 1..committed : Delivered(i)') /\ (consumer = "running" => \A i \in 1..position : Delivered(i)')
    BY <2>0, <2>1 DEF NoEventSkipped
  <2>3. ASSUME NEW d \in Deliveries, Fetch(d) PROVE NoEventSkipped'
    <3>1. ASSUME NEW i \in 1..(position + 1) PROVE Delivered(i)'
      <4>1. CASE i = position + 1
        BY <2>3, <4>1, FetchStarts DEF Delivered
      <4>2. CASE i # position + 1
        BY <2>0, <2>2, <2>3, <4>2 DEF Fetch
      <4>3. QED
        BY <4>1, <4>2
    <3>2. QED
      BY <2>2, <2>3, <3>1 DEF Fetch, NoEventSkipped
  <2>4. ASSUME /\ committed' \in {committed} \cup (IF consumer = "running" THEN {position} ELSE {})
               /\ consumer' = "running" =>
                    position' \in {committed} \cup (IF consumer = "running" THEN {position} ELSE {})
        PROVE  NoEventSkipped'
    BY <2>2, <2>4 DEF NoEventSkipped
  <2>5. CASE UNCHANGED vars
    BY <2>4, <2>5 DEF vars
  <2>6. CASE ConsumerStart \/ ConsumerStartFails \/ Exit
    BY <2>4, <2>6 DEF ConsumerStart, ConsumerStartFails, Exit
  <2>7. CASE ConsumerFails \/ AutoCommit \/ Rebalance
    BY <2>4, <2>7 DEF ConsumerFails, AutoCommit, Rebalance
  <2>8. CASE Shutdown \/ Crash \/ Restart
    BY <2>4, <2>8 DEF Shutdown, Crash, Restart
  <2>9. CASE \E t \in Txns : Produce(t)
    BY <2>4, <2>9 DEF Produce
  <2>10. CASE \E d \in Deliveries : TaskLocal(d) \/ Send(d) \/ \E code \in {200, 400} : Answer(d, code)
    BY <2>4, <2>10 DEF TaskLocal, Dag, SendFails, NoAnswer, Send, Answer
  <2>11. QED
    BY <2>3, <2>5, <2>6, <2>7, <2>8, <2>9, <2>10 DEF Next, Local, ConsumerStep
<1>3. QED
  BY <1>1, <1>2, TypeInvariant, PTL DEF Spec

-------------------------------------------------------------------------------
(* Redelivery *)

DeliveriesOf(i) == {d \in Deliveries : task[d].offset = i}
Count(i)        == Cardinality(DeliveriesOf(i))

\* A running consumer has delivered what is ahead of its position at most once per
\* reset, and what it has read once more; one that is not running has had the reset
\* that ended it, unless it ended by itself.
CountsFollowResets ==
  \A i \in Nat \ {0} :
    /\ Count(i) <= resets + 1
    /\ consumer \in {"starting", "stopped", "down"} => Count(i) <= resets
    /\ consumer = "running" /\ i > position => Count(i) <= resets

LEMMA CountsAreNumbers == \A i : IsFiniteSet(DeliveriesOf(i)) /\ Count(i) \in Nat
<1> SUFFICES ASSUME NEW i PROVE IsFiniteSet(DeliveriesOf(i)) /\ Count(i) \in Nat
  OBVIOUS
<1>1. IsFiniteSet(Deliveries)
  BY FS_Interval DEF Deliveries
<1>2. DeliveriesOf(i) \subseteq Deliveries
  BY DEF DeliveriesOf
<1>3. QED
  BY <1>1, <1>2, FS_Subset, FS_CardinalityType DEF Count

LEMMA CountsStay ==
  ASSUME OffsetsStay
  PROVE  \A i : Count(i)' = Count(i)
<1> SUFFICES ASSUME NEW i PROVE Count(i)' = Count(i)
  OBVIOUS
<1>1. DeliveriesOf(i)' = DeliveriesOf(i)
  BY DEF DeliveriesOf, OffsetsStay
<1>2. QED
  BY <1>1 DEF Count

LEMMA FetchCounts ==
  ASSUME TypeInv, NEW d \in Deliveries, Fetch(d)
  PROVE  \A i \in Nat \ {0} :
           Count(i)' = IF i = position + 1 THEN Count(i) + 1 ELSE Count(i)
<1> SUFFICES ASSUME NEW i \in Nat \ {0}
             PROVE  Count(i)' = IF i = position + 1 THEN Count(i) + 1 ELSE Count(i)
  OBVIOUS
<1>1. /\ task[d].offset = 0 /\ task'[d].offset = position + 1
      /\ \A e \in Deliveries : e # d => task'[e] = task[e]
  BY FetchStarts
<1>2. CASE i = position + 1
  <2>1. DeliveriesOf(i)' = DeliveriesOf(i) \cup {d} /\ d \notin DeliveriesOf(i)
    BY <1>1, <1>2 DEF DeliveriesOf
  <2>2. QED
    BY <1>2, <2>1, CountsAreNumbers, FS_AddElement DEF Count
<1>3. CASE i # position + 1
  <2>1. DeliveriesOf(i)' = DeliveriesOf(i)
    BY <1>1, <1>3 DEF DeliveriesOf
  <2>2. QED
    BY <1>3, <2>1 DEF Count
<1>4. QED
  BY <1>2, <1>3

\* An event is handed to a task once more than there were resets at most.
THEOREM RedeliveriesNeedResets == Spec => []RedeliveryNeedsReset
<1>1. Init => CountsFollowResets
  <2> SUFFICES ASSUME Init, NEW i \in Nat \ {0} PROVE Count(i) = 0 /\ resets = 0 /\ consumer = "starting"
    BY DEF CountsFollowResets
  <2>1. DeliveriesOf(i) = {}
    BY DEF Init, DeliveriesOf, NoTask
  <2>2. QED
    BY <2>1, FS_EmptySet DEF Count, Init
<1>2. TypeInv /\ CountsFollowResets /\ [Next]_vars => CountsFollowResets'
  <2> SUFFICES ASSUME TypeInv, CountsFollowResets, [Next]_vars PROVE CountsFollowResets'
    OBVIOUS
  <2>0. position \in Nat /\ resets \in Nat /\ \A i : Count(i) \in Nat
    BY CountsAreNumbers DEF TypeInv, TypeOK
  <2>1. ASSUME NEW d \in Deliveries, Fetch(d) PROVE CountsFollowResets'
    <3> SUFFICES ASSUME NEW i \in Nat \ {0}
                 PROVE  Count(i)' <= resets' + 1 /\ (i > position' => Count(i)' <= resets')
      BY <2>1 DEF CountsFollowResets, Fetch
    <3>1. Count(i)' = IF i = position + 1 THEN Count(i) + 1 ELSE Count(i)
      BY <2>1, FetchCounts
    <3>2. consumer = "running" /\ resets' = resets /\ position' = position + 1
      BY <2>1 DEF Fetch
    <3>3. CASE i = position + 1
      BY <2>0, <3>1, <3>2, <3>3 DEF CountsFollowResets
    <3>4. CASE i # position + 1
      BY <2>0, <3>1, <3>2, <3>4 DEF CountsFollowResets
    <3>5. QED
      BY <3>3, <3>4
  <2>2. ASSUME OffsetsStay, ~\E d \in Deliveries : Fetch(d) PROVE CountsFollowResets'
    <3>0. \A i : Count(i)' = Count(i)
      BY <2>2, CountsStay
    <3>1. CASE UNCHANGED <<position, consumer, resets>>
      BY <3>0, <3>1 DEF CountsFollowResets
    <3>2. CASE resets' = resets + 1
      BY <2>0, <3>0, <3>2 DEF CountsFollowResets
    <3>3. CASE resets' = resets /\ (consumer' = "dead" \/ consumer \in {"starting", "stopped", "down"})
      BY <2>0, <3>0, <3>3 DEF CountsFollowResets
    <3>4. QED
      BY <2>2, <3>1, <3>2, <3>3
      DEF Next, Local, ConsumerStep, ConsumerStart, ConsumerStartFails, ConsumerFails, AutoCommit,
          Rebalance, Shutdown, Exit, Crash, Restart, Produce, TaskLocal, Dag, Send, SendFails,
          Answer, NoAnswer, vars
  <2>3. QED
    BY <2>1, <2>2, StepKinds
<1>3. CountsFollowResets => RedeliveryNeedsReset
  BY DEF CountsFollowResets, RedeliveryNeedsReset, Count, DeliveriesOf
<1>4. QED
  BY <1>1, <1>2, <1>3, TypeInvariant, PTL DEF Spec
===============================================================================
