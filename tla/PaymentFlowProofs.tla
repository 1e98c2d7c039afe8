--------------------------- MODULE PaymentFlowProofs ---------------------------
(***************************************************************************)
(* The whole system, for any number of transactions, deliveries, crashes   *)
(* and resets.  The payment flow is shown to behave as either service      *)
(* alone may behave, so that what is proved of the services holds of it;   *)
(* what remains is the link between a task and its PATCH, and the          *)
(* refinement of TransactionLifecycle rests on it.                         *)
(***************************************************************************)
EXTENDS PaymentFlow, FiniteSetTheorems, TLAPS

ApiFacts  == INSTANCE TransactionApiProofs WITH Requests <- Deliveries
ProcFacts == INSTANCE ProcessingServiceProofs

\* What the services assume of their constants, the composition gives them.
LEMMA ServiceAssumptions == ApiFacts!ApiAssumption /\ ProcFacts!ProcessingAssumption
<1>1. Cardinality(Txns) \in Nat
  BY FlowAssumption, FS_CardinalityType
<1>2. MaxEvents \in Nat
  BY <1>1 DEF MaxEvents
<1>3. QED
  BY <1>2, FlowAssumption DEF ApiFacts!ApiAssumption, ProcFacts!ProcessingAssumption

-------------------------------------------------------------------------------
(* The services as PaymentFlow composes them are the services the facts are about. *)

LEMMA SameCounts ==
  /\ \A S : ApiFacts!IsFiniteSet(S) <=> IsFiniteSet(S)
  /\ \A S : ApiFacts!Cardinality(S) = Cardinality(S) /\ ProcFacts!Cardinality(S) = Cardinality(S)
  BY DEF ApiFacts!IsFiniteSet, IsFiniteSet, ApiFacts!Cardinality, ProcFacts!Cardinality, Cardinality

LEMMA SameApiLocal == Api!Local <=> ApiFacts!Local
  BY DEF Api!Local, Api!PostStep, Api!HandlerStep, Api!UpdateStep, Api!PostRejected,
         Api!PostValidated, Api!ValidBody, Api!Bodies, Api!Insert, Api!PostError,
         Api!PublishCreated, Api!RepublishCreated, Api!FinishCreated, Api!Publishing,
         Api!DeleteAccount, Api!RestoreAccount, Api!Goto, Api!Reply, Api!Verify,
         Api!LoadRefused, Api!LoadPending, Api!Save, Api!PublishUpdated,
         Api!RepublishUpdated, Api!FinishUpdated, Api!HandlerError, Api!ApiCrash,
         Api!Working, Api!Terminal,
         ApiFacts!Local, ApiFacts!PostStep, ApiFacts!HandlerStep, ApiFacts!UpdateStep,
         ApiFacts!PostRejected, ApiFacts!PostValidated, ApiFacts!ValidBody,
         ApiFacts!Bodies, ApiFacts!Insert, ApiFacts!PostError, ApiFacts!PublishCreated,
         ApiFacts!RepublishCreated, ApiFacts!FinishCreated, ApiFacts!Publishing,
         ApiFacts!DeleteAccount, ApiFacts!RestoreAccount, ApiFacts!Goto, ApiFacts!Reply,
         ApiFacts!Verify, ApiFacts!LoadRefused, ApiFacts!LoadPending, ApiFacts!Save,
         ApiFacts!PublishUpdated, ApiFacts!RepublishUpdated, ApiFacts!FinishUpdated,
         ApiFacts!HandlerError, ApiFacts!ApiCrash, ApiFacts!Working, ApiFacts!Terminal

LEMMA SameApi ==
  /\ Api!Init <=> ApiFacts!Init
  /\ [Api!Next]_Api!vars <=> [ApiFacts!Next]_ApiFacts!vars
<1>1. Api!Init <=> ApiFacts!Init
  BY DEF Api!Init, ApiFacts!Init
<1>2. [Api!Next]_Api!vars <=> [ApiFacts!Next]_ApiFacts!vars
  BY SameApiLocal DEF Api!Next, Api!vars, Api!Receive, Api!Wire, Api!Terminal,
     ApiFacts!Next, ApiFacts!vars, ApiFacts!Receive, ApiFacts!Wire, ApiFacts!Terminal
<1>3. QED
  BY <1>1, <1>2

LEMMA SameProcLocal == Proc!Local <=> ProcFacts!Local
  BY DEF Proc!Local, Proc!ConsumerStep, Proc!ConsumerStart, Proc!ConsumerStartFails,
         Proc!ConsumerFails, Proc!Fetch, Proc!NextFree, Proc!AutoCommit, Proc!Rebalance,
         Proc!Shutdown, Proc!Exit, Proc!Crash, Proc!Restart, Proc!Kill, Proc!TaskLocal,
         Proc!Dag, Proc!SendFails, Proc!NoAnswer, Proc!Deliveries, Proc!Outcomes,
         Proc!Running,
         ProcFacts!Local, ProcFacts!ConsumerStep, ProcFacts!ConsumerStart,
         ProcFacts!ConsumerStartFails, ProcFacts!ConsumerFails, ProcFacts!Fetch,
         ProcFacts!NextFree, ProcFacts!AutoCommit, ProcFacts!Rebalance,
         ProcFacts!Shutdown, ProcFacts!Exit, ProcFacts!Crash, ProcFacts!Restart,
         ProcFacts!Kill, ProcFacts!TaskLocal, ProcFacts!Dag, ProcFacts!SendFails,
         ProcFacts!NoAnswer, ProcFacts!Deliveries, ProcFacts!Outcomes, ProcFacts!Running

LEMMA SameProc ==
  /\ Proc!Init <=> ProcFacts!Init
  /\ [Proc!Next]_Proc!vars <=> [ProcFacts!Next]_ProcFacts!vars
<1>1. Proc!Init <=> ProcFacts!Init
  BY DEF Proc!Init, Proc!NoTask, Proc!Deliveries,
         ProcFacts!Init, ProcFacts!NoTask, ProcFacts!Deliveries
<1>2. [Proc!Next]_Proc!vars <=> [ProcFacts!Next]_ProcFacts!vars
  BY SameProcLocal DEF Proc!Next, Proc!vars, Proc!Produce, Proc!Send, Proc!Answer,
     Proc!Deliveries, ProcFacts!Next, ProcFacts!vars, ProcFacts!Produce,
     ProcFacts!Send, ProcFacts!Answer, ProcFacts!Deliveries
<1>3. QED
  BY <1>1, <1>2

-------------------------------------------------------------------------------
(* The flow behaves as either service may. *)

SendingPatch(d) ==
  ProcFacts!Send(d) /\ ApiFacts!Receive(d, task[d].txn, task[d].outcome)
AnsweringPatch(d) ==
  handler[d].pc = "replied" /\ ProcFacts!Answer(d, handler[d].code) /\ UNCHANGED apiVars

\* The steps of the flow, by the services that take them.
LEMMA FlowSteps ==
  ASSUME [Next]_vars
  PROVE  \/ UNCHANGED vars
         \/ ApiFacts!Local /\ UNCHANGED procVars
         \/ ProcFacts!Local /\ UNCHANGED apiVars
         \/ \E d \in Deliveries : SendingPatch(d) \/ AnsweringPatch(d)
<1>1. ASSUME NEW d \in Deliveries
      PROVE  (SendPatch(d) <=> SendingPatch(d)) /\ (AnswerPatch(d) <=> AnsweringPatch(d))
  BY DEF SendPatch, AnswerPatch, SendingPatch, AnsweringPatch, Proc!Send, Proc!Answer,
     Api!Receive, ProcFacts!Send, ProcFacts!Answer, ApiFacts!Receive
<1>2. QED
  BY <1>1, SameApiLocal, SameProcLocal DEF Next, ApiStep, ProcStep

\* What the services' own proofs know, and that a task works on a published event.
ServicesInv ==
  /\ ApiFacts!TypeInv /\ ApiFacts!RowInv /\ ApiFacts!TopicInv
  /\ ProcFacts!TypeInv /\ ProcFacts!TasksFollowEvents

\* A task has a transaction, one with a row.
LEMMA TaskHasRow ==
  ASSUME ServicesInv, NEW d \in Deliveries, task[d].pc # "unused"
  PROVE  task[d].txn \in Txns /\ status[task[d].txn] # "NONE"
<1>1. created \in Seq(Txns) /\ ApiFacts!EventHasRow
  BY DEF ServicesInv, ApiFacts!TypeInv, ApiFacts!TypeOK, ApiFacts!RowInv
<1>2. task[d].offset \in DOMAIN created /\ task[d].txn = created[task[d].offset]
  BY DEF ServicesInv, ProcFacts!TasksFollowEvents, ProcFacts!Deliveries, Deliveries
<1>3. QED
  BY <1>1, <1>2 DEF ApiFacts!EventHasRow

LEMMA ApiSteps == ServicesInv /\ [Next]_vars => [ApiFacts!Next]_ApiFacts!vars
<1> SUFFICES ASSUME ServicesInv, [Next]_vars PROVE [ApiFacts!Next]_ApiFacts!vars
  OBVIOUS
<1>1. CASE UNCHANGED vars
  BY <1>1 DEF vars, apiVars, ApiFacts!vars
<1>2. CASE ApiFacts!Local
  BY <1>2 DEF ApiFacts!Next
<1>3. CASE ProcFacts!Local /\ UNCHANGED apiVars
  <2>1. UNCHANGED created
    BY <1>3 DEF ProcFacts!Local, ProcFacts!ConsumerStep, ProcFacts!ConsumerStart,
       ProcFacts!ConsumerStartFails, ProcFacts!ConsumerFails, ProcFacts!Fetch,
       ProcFacts!AutoCommit, ProcFacts!Rebalance, ProcFacts!Shutdown, ProcFacts!Exit,
       ProcFacts!Crash, ProcFacts!Restart, ProcFacts!TaskLocal, ProcFacts!Dag,
       ProcFacts!SendFails, ProcFacts!NoAnswer
  <2>2. QED
    BY <1>3, <2>1 DEF apiVars, ApiFacts!vars
<1>4. ASSUME NEW d \in Deliveries, SendingPatch(d) PROVE ApiFacts!Next
  <2>1. task[d].pc = "send"
    BY <1>4 DEF SendingPatch, ProcFacts!Send
  <2>2. task[d].txn \in Txns
    BY <2>1, TaskHasRow
  <2>3. task[d].outcome \in ApiFacts!Wire
    BY <2>1 DEF ServicesInv, ProcFacts!TypeInv, ProcFacts!TasksInShape, ProcFacts!InShape,
       ProcFacts!Decided, ProcFacts!Outcomes, ProcFacts!Deliveries, Deliveries,
       ApiFacts!Wire, ApiFacts!Terminal
  <2>4. QED
    BY <1>4, <2>2, <2>3 DEF SendingPatch, ApiFacts!Next
<1>5. ASSUME NEW d \in Deliveries, AnsweringPatch(d) PROVE UNCHANGED ApiFacts!vars
  BY <1>5 DEF AnsweringPatch, ProcFacts!Answer, apiVars, ApiFacts!vars
<1>6. QED
  BY <1>1, <1>2, <1>3, <1>4, <1>5, FlowSteps

\* The topic has room for what POSTs publish.
LEMMA TopicHasRoom == ApiFacts!TypeInv /\ ApiFacts!TopicInv => Len(created) <= MaxEvents
  BY FlowAssumption, ServiceAssumptions, SameCounts, ApiFacts!TopicIsBounded DEF MaxEvents

LEMMA ProcSteps ==
  /\ ServicesInv /\ [Next]_vars
  /\ Len(created') <= MaxEvents
  => [ProcFacts!Next]_ProcFacts!vars
<1> SUFFICES ASSUME ServicesInv, [Next]_vars, Len(created') <= MaxEvents
             PROVE  [ProcFacts!Next]_ProcFacts!vars
  OBVIOUS
<1>1. CASE UNCHANGED vars
  BY <1>1 DEF vars, procVars, ProcFacts!vars
<1>2. CASE ApiFacts!Local /\ UNCHANGED procVars
  <2>1. CASE UNCHANGED created
    BY <1>2, <2>1 DEF procVars, ProcFacts!vars
  <2>2. ASSUME NEW t \in Txns, created' = Append(created, t) PROVE ProcFacts!Produce(t)
    <3>1. created \in Seq(Txns)
      BY DEF ServicesInv, ApiFacts!TypeInv, ApiFacts!TypeOK
    <3>2. Len(created) \in Nat /\ Len(created') = Len(created) + 1
      BY <2>2, <3>1
    <3>3. MaxEvents \in Nat
      BY ServiceAssumptions DEF ProcFacts!ProcessingAssumption
    <3>4. QED
      BY <1>2, <2>2, <3>2, <3>3 DEF procVars, ProcFacts!Produce
  <2>3. UNCHANGED created \/ \E t \in Txns : created' = Append(created, t)
    BY <1>2 DEF ApiFacts!Local, ApiFacts!PostStep, ApiFacts!HandlerStep,
       ApiFacts!UpdateStep, ApiFacts!PostRejected, ApiFacts!PostValidated,
       ApiFacts!Insert, ApiFacts!PostError, ApiFacts!PublishCreated,
       ApiFacts!RepublishCreated, ApiFacts!FinishCreated, ApiFacts!DeleteAccount,
       ApiFacts!RestoreAccount, ApiFacts!Verify, ApiFacts!LoadRefused,
       ApiFacts!LoadPending, ApiFacts!Save, ApiFacts!PublishUpdated,
       ApiFacts!RepublishUpdated, ApiFacts!FinishUpdated, ApiFacts!HandlerError,
       ApiFacts!ApiCrash
  <2>4. QED
    BY <2>1, <2>2, <2>3 DEF ProcFacts!Next
<1>3. CASE ProcFacts!Local
  BY <1>3 DEF ProcFacts!Next
<1>4. ASSUME NEW d \in Deliveries, SendingPatch(d) PROVE ProcFacts!Next
  BY <1>4 DEF SendingPatch, ProcFacts!Next, ProcFacts!Deliveries, Deliveries
<1>5. ASSUME NEW d \in Deliveries, AnsweringPatch(d) PROVE ProcFacts!Next
  <2>1. CASE handler[d].code = 200
    <3>1. ProcFacts!Answer(d, 200)
      BY <1>5, <2>1 DEF AnsweringPatch
    <3>2. QED
      BY <3>1 DEF ProcFacts!Next, ProcFacts!Deliveries, Deliveries
  <2>2. CASE handler[d].code # 200
    <3>1. ProcFacts!Answer(d, 400)
      BY <1>5, <2>2 DEF AnsweringPatch, ProcFacts!Answer
    <3>2. QED
      BY <3>1 DEF ProcFacts!Next, ProcFacts!Deliveries, Deliveries
  <2>3. QED
    BY <2>1, <2>2
<1>6. QED
  BY <1>1, <1>2, <1>3, <1>4, <1>5, FlowSteps

LEMMA FlowInit == Init => ApiFacts!Init /\ ProcFacts!Init
  BY SameApi, SameProc DEF Init

LEMMA ServicesInvariant == Spec => []ServicesInv
<1>1. Init => ServicesInv
  <2> SUFFICES ASSUME Init PROVE ServicesInv
    OBVIOUS
  <2>1. ApiFacts!TypeInv /\ ApiFacts!RowInv /\ ApiFacts!TopicInv
    BY FlowInit, ServiceAssumptions, ApiFacts!InitTypeInv, ApiFacts!InitRowInv,
       ApiFacts!InitTopicInv
  <2>2. ProcFacts!TypeInv
    BY FlowInit, ServiceAssumptions, ProcFacts!InitTypeInv
  <2>3. ProcFacts!TasksFollowEvents
    BY FlowInit, ServiceAssumptions, ProcFacts!InitTasksFollowEvents
  <2>4. QED
    BY <2>1, <2>2, <2>3 DEF ServicesInv
<1>2. ServicesInv /\ [Next]_vars
      => ApiFacts!TypeInv' /\ ApiFacts!RowInv' /\ ApiFacts!TopicInv'
  BY ServiceAssumptions, ApiSteps, ApiFacts!NextTypeInv, ApiFacts!NextRowInv,
     ApiFacts!NextTopicInv DEF ServicesInv
<1>3. (ApiFacts!TypeInv /\ ApiFacts!TopicInv => Len(created) <= MaxEvents)'
  BY TopicHasRoom, PTL
<1>4. ServicesInv /\ [Next]_vars => ProcFacts!TypeInv' /\ ProcFacts!TasksFollowEvents'
  BY <1>2, <1>3, ServiceAssumptions, ProcSteps, ProcFacts!NextTypeInv,
     ProcFacts!NextTasksFollowEvents DEF ServicesInv
<1>5. ServicesInv /\ [Next]_vars => ServicesInv'
  BY <1>2, <1>4 DEF ServicesInv
<1>6. QED
  BY <1>1, <1>5, PTL DEF Spec

\* Seen from the account service, the rest of the system only sends status updates:
\* whatever is proved of TransactionApi holds of the flow.
LEMMA FlowIsApi == Spec => ApiFacts!Spec
  BY FlowInit, ApiSteps, ServicesInvariant, PTL DEF Spec, ApiFacts!Spec

\* Seen from the processing service, the rest of the system only publishes events, no
\* more of them than two to a transaction, and answers.
LEMMA FlowIsProc == Spec => ProcFacts!Spec
<1>1. ServicesInv /\ ServicesInv' /\ [Next]_vars => [ProcFacts!Next]_ProcFacts!vars
  <2>1. (ApiFacts!TypeInv /\ ApiFacts!TopicInv => Len(created) <= MaxEvents)'
    BY TopicHasRoom, PTL
  <2>2. QED
    BY <2>1, ProcSteps DEF ServicesInv
<1>2. QED
  BY <1>1, FlowInit, ServicesInvariant, PTL DEF Spec, ProcFacts!Spec

\* Seen from the account service the processing service is a source of requests, no
\* more: the flow does nothing to it that TransactionApi does not allow.
THEOREM FlowImplementsApi == Spec => Api!Spec
  BY FlowIsApi, SameApi, PTL DEF Api!Spec, ApiFacts!Spec

\* Seen from the processing service the account service is a source of events and
\* answers, and never publishes more of them than MaxEvents.
THEOREM FlowImplementsProcessing == Spec => Proc!Spec
  BY FlowIsProc, SameProc, PTL DEF Proc!Spec, ProcFacts!Spec

\* Both services are in a state of their type.
THEOREM TypeCorrect == Spec => []TypeOK
<1>1. Api!TypeOK <=> ApiFacts!TypeOK
  BY DEF Api!TypeOK, Api!Statuses, Api!Terminal, Api!Bodies, Api!PostPc, Api!Publishing,
         Api!HandlerRecord, Api!HandlerPc, Api!Wire, Api!Codes,
         ApiFacts!TypeOK, ApiFacts!Statuses, ApiFacts!Terminal, ApiFacts!Bodies,
         ApiFacts!PostPc, ApiFacts!Publishing, ApiFacts!HandlerRecord,
         ApiFacts!HandlerPc, ApiFacts!Wire, ApiFacts!Codes
<1>2. Proc!TypeOK <=> ProcFacts!TypeOK
  BY DEF Proc!TypeOK, Proc!Deliveries, Proc!TaskPc, Proc!Running, Proc!Ended, Proc!Outcomes,
         ProcFacts!TypeOK, ProcFacts!Deliveries, ProcFacts!TaskPc, ProcFacts!Running,
         ProcFacts!Ended, ProcFacts!Outcomes
<1>3. ServicesInv => TypeOK
  BY <1>1, <1>2 DEF ServicesInv, ApiFacts!TypeInv, ProcFacts!TypeInv, TypeOK
<1>4. QED
  BY <1>3, ServicesInvariant, PTL

-------------------------------------------------------------------------------
(* A task and its PATCH *)

\* A PATCH that arrived asks for what the payment run of its task returned; the task
\* reports success only for a 200; and nobody is answered that there is no row.
PatchInv ==
  \A d \in Deliveries :
    /\ handler[d].pc # "idle" => /\ task[d].pc \notin {"unused", "dag", "send"}
                                 /\ handler[d].txn = task[d].txn
                                 /\ handler[d].new = task[d].outcome
    /\ task[d].pc = "ok" => handler[d].code = 200
    /\ handler[d].code # 404

\* A task that waits or has ended keeps its transaction and its outcome, and comes to
\* report success by a 200.
LEMMA LateTaskStep ==
  ASSUME ServicesInv, NEW d \in Deliveries, task[d].pc \notin {"unused", "dag", "send"},
         ProcFacts!Local \/ AnsweringPatch(d)
  PROVE  /\ task'[d].pc \notin {"unused", "dag", "send"}
         /\ task'[d].txn = task[d].txn
         /\ task'[d].outcome = task[d].outcome
         /\ task'[d].pc = "ok" => task[d].pc = "ok" \/ handler[d].code = 200
<1>0. d \in ProcFacts!Deliveries /\ ProcFacts!TypeInv
  BY DEF Deliveries, ProcFacts!Deliveries, ServicesInv
<1>1. CASE ProcFacts!Local
  <2>1. \/ task'[d] = task[d]
        \/ task'[d].pc \in {"error", "killed"} /\ task'[d].outcome = task[d].outcome
    BY <1>0, <1>1, ServiceAssumptions, ProcFacts!LocalTaskStep
       DEF ProcFacts!Fetch, ProcFacts!NextFree
  <2>2. task'[d].txn = task[d].txn
    BY <1>0, <1>1, ServiceAssumptions, ProcFacts!StepKinds, ProcFacts!FetchStarts
       DEF ProcFacts!Next, ProcFacts!OffsetsStay, ProcFacts!Fetch, ProcFacts!NextFree
  <2>3. QED
    BY <2>1, <2>2
<1>2. CASE AnsweringPatch(d)
  BY <1>0, <1>2 DEF AnsweringPatch, ProcFacts!Answer, ProcFacts!TypeInv, ProcFacts!TypeOK
<1>3. QED
  BY <1>1, <1>2

LEMMA NextPatchInv == ServicesInv /\ PatchInv /\ [Next]_vars => PatchInv'
<1> SUFFICES ASSUME ServicesInv, PatchInv, [Next]_vars, NEW d \in Deliveries
             PROVE  /\ handler'[d].pc # "idle" => /\ task'[d].pc \notin {"unused", "dag", "send"}
                                                  /\ handler'[d].txn = task'[d].txn
                                                  /\ handler'[d].new = task'[d].outcome
                    /\ task'[d].pc = "ok" => handler'[d].code = 200
                    /\ handler'[d].code # 404
  BY DEF PatchInv
<1>0. /\ d \in ProcFacts!Deliveries
      /\ handler \in [Deliveries -> ApiFacts!HandlerRecord]
      /\ task \in [Deliveries -> ProcFacts!TaskRecord]
  BY DEF Deliveries, ProcFacts!Deliveries, ServicesInv, ApiFacts!TypeInv, ApiFacts!TypeOK,
         ProcFacts!TypeInv, ProcFacts!TypeOK, ProcFacts!TaskRecord
<1>1. CASE handler'[d] = handler[d] /\ task'[d] = task[d]
  BY <1>1 DEF PatchInv
<1>2. CASE ApiFacts!Local /\ UNCHANGED procVars
  <2>1. task'[d] = task[d]
    BY <1>2 DEF procVars
  <2>2. CASE ApiFacts!HandlerStep(d)
    <3>1. /\ handler'[d].txn = handler[d].txn /\ handler'[d].new = handler[d].new
          /\ handler[d].pc \in ApiFacts!Working /\ handler'[d].pc # "idle"
          /\ handler'[d].code = 404 => status[handler[d].txn] = "NONE"
      BY <2>2, ServiceAssumptions, ApiFacts!RequestStep DEF ServicesInv
    <3>2. handler[d].pc \notin {"idle", "replied"}
      BY <3>1 DEF ApiFacts!Working, ApiFacts!Publishing
    <3>3. task[d].pc # "ok"
      BY <3>2 DEF PatchInv, ServicesInv, ApiFacts!TypeInv, ApiFacts!RequestOK
    <3>4. status[handler[d].txn] # "NONE"
      BY <3>2, TaskHasRow DEF PatchInv
    <3>5. QED
      BY <2>1, <3>1, <3>2, <3>3, <3>4 DEF PatchInv
  <2>3. CASE /\ handler[d].pc \in ApiFacts!Working
             /\ handler'[d] = [handler[d] EXCEPT !.pc = "lost"]
    BY <1>0, <2>1, <2>3 DEF PatchInv, ApiFacts!HandlerRecord, ApiFacts!Working,
       ApiFacts!Publishing
  <2>4. QED
    BY <1>1, <1>2, <2>1, <2>2, <2>3, ServiceAssumptions, ApiFacts!LocalRecordStep
       DEF ServicesInv
<1>3. CASE ProcFacts!Local /\ UNCHANGED apiVars
  <2>1. handler'[d] = handler[d]
    BY <1>3 DEF apiVars
  <2>2. CASE handler[d].pc # "idle"
    BY <1>3, <2>1, <2>2, LateTaskStep DEF PatchInv
  <2>3. CASE handler[d].pc = "idle"
    <3>1. handler[d].code = 0
      BY <2>3 DEF ServicesInv, ApiFacts!TypeInv, ApiFacts!RequestOK
    <3>2. task[d].pc # "ok"
      BY <3>1 DEF PatchInv
    <3>3. task'[d].pc # "ok"
      BY <1>0, <1>3, <3>2, ServiceAssumptions, ProcFacts!LocalTaskStep, ProcFacts!FetchStarts
         DEF ServicesInv
    <3>4. QED
      BY <2>1, <2>3, <3>1, <3>3
  <2>4. QED
    BY <2>2, <2>3
<1>4. ASSUME NEW e \in Deliveries, e # d, SendingPatch(e) \/ AnsweringPatch(e)
      PROVE  handler'[d] = handler[d] /\ task'[d] = task[d]
  BY <1>0, <1>4 DEF SendingPatch, AnsweringPatch, ProcFacts!Send, ProcFacts!Answer,
     ApiFacts!Receive, apiVars
<1>5. CASE SendingPatch(d)
  BY <1>0, <1>5 DEF SendingPatch, ProcFacts!Send, ApiFacts!Receive, ProcFacts!TaskRecord
<1>6. CASE AnsweringPatch(d)
  <2>1. handler'[d] = handler[d] /\ handler[d].pc = "replied"
    BY <1>6 DEF AnsweringPatch, apiVars
  <2>2. QED
    BY <1>6, <2>1, LateTaskStep DEF PatchInv
<1>7. QED
  BY <1>1, <1>2, <1>3, <1>4, <1>5, <1>6, FlowSteps DEF vars, apiVars, procVars

LEMMA PatchInvariant == Spec => [](ServicesInv /\ PatchInv)
<1>1. Init => PatchInv
  BY FlowInit DEF PatchInv, ApiFacts!Init, ProcFacts!Init, ProcFacts!NoTask,
     ProcFacts!Deliveries, Deliveries
<1>2. QED
  BY <1>1, NextPatchInv, ServicesInvariant, PTL DEF Spec

\* No PATCH is answered 404: the event a task was started for was published after its
\* row, whatever is redelivered.
THEOREM PatchesFindRows == Spec => []PatchFindsRow
<1>1. PatchInv => PatchFindsRow
  BY DEF PatchInv, PatchFindsRow
<1>2. QED
  BY <1>1, PatchInvariant, PTL

\* The account service's part, inherited: the 200 tells the truth, and a terminal
\* status has a request behind it that may have saved it.
LEMMA ApiPromises == Spec => []ApiFacts!AnswerMeansSettled /\ []ApiFacts!StatusHasWriter
  BY FlowIsApi, ServiceAssumptions, ApiFacts!AnswersTellTheTruth,
     ApiFacts!StatusesHaveWriters, PTL

\* "Transaction status updated" is logged only of a transaction that is settled, and
\* it stays so.
THEOREM SuccessMeansSettled == Spec => []OkMeansSettled
<1>1. ServicesInv /\ PatchInv /\ ApiFacts!AnswerMeansSettled => OkMeansSettled
  <2> SUFFICES ASSUME ServicesInv, PatchInv, ApiFacts!AnswerMeansSettled,
                      NEW d \in Deliveries, task[d].pc = "ok"
               PROVE  status[task[d].txn] \in Terminal
    BY DEF OkMeansSettled
  <2>1. handler[d].code = 200 /\ handler[d].pc # "idle"
    BY DEF PatchInv, ServicesInv, ApiFacts!TypeInv, ApiFacts!RequestOK
  <2>2. status[handler[d].txn] \in ApiFacts!Terminal
    BY <2>1 DEF ApiFacts!AnswerMeansSettled, ApiFacts!SaysSettled, ApiFacts!Saved
  <2>3. QED
    BY <2>1, <2>2 DEF PatchInv, Terminal, Api!Terminal, ApiFacts!Terminal
<1>2. QED
  BY <1>1, PatchInvariant, ApiPromises, PTL

\* A settled transaction has the outcome of one of its own payment runs.
THEOREM PaymentRunsSettle == Spec => []SettledByPaymentRun
<1>1. ServicesInv /\ PatchInv /\ ApiFacts!StatusHasWriter => SettledByPaymentRun
  <2> SUFFICES ASSUME ServicesInv, PatchInv, ApiFacts!StatusHasWriter,
                      NEW t \in Txns, status[t] \in Terminal
               PROVE  \E d \in RunsOf(t) : task[d].outcome = status[t]
    BY DEF SettledByPaymentRun
  <2>1. PICK d \in Deliveries : /\ ApiFacts!MaybeSaved(d)
                                /\ handler[d].txn = t /\ handler[d].new = status[t]
    BY DEF ApiFacts!StatusHasWriter, Terminal, Api!Terminal, ApiFacts!Terminal
  <2>2. handler[d].pc # "idle"
    BY <2>1 DEF ApiFacts!MaybeSaved, ApiFacts!Saved, ApiFacts!Publishing, ServicesInv,
       ApiFacts!TypeInv, ApiFacts!RequestOK
  <2>3. QED
    BY <2>1, <2>2 DEF PatchInv, RunsOf
<1>2. QED
  BY <1>1, PatchInvariant, ApiPromises, PTL

-------------------------------------------------------------------------------
(* The flow implements TransactionLifecycle. *)

\* What the refinement rests on.
FlowInv == ServicesInv /\ PatchInv /\ ApiFacts!AnswerMeansSettled /\ ApiFacts!StatusHasWriter

LEMMA FlowInvariant == Spec => []FlowInv
  BY PatchInvariant, ApiPromises, PTL DEF FlowInv

\* Runs and writers can be counted, and every writer is one of the runs.
LEMMA Counts ==
  ASSUME NEW t
  PROVE  /\ IsFiniteSet(RunsOf(t)) /\ Cardinality(RunsOf(t)) \in Nat
         /\ IsFiniteSet(WritersOf(t)) /\ Cardinality(WritersOf(t)) \in Nat
<1>1. IsFiniteSet(Deliveries)
  BY FlowAssumption, FS_Interval DEF Deliveries
<1>2. RunsOf(t) \subseteq Deliveries /\ WritersOf(t) \subseteq Deliveries
  BY DEF RunsOf, WritersOf
<1>3. IsFiniteSet(RunsOf(t)) /\ IsFiniteSet(WritersOf(t))
  BY <1>1, <1>2, FS_Subset
<1>4. QED
  BY <1>3, FS_CardinalityType

LEMMA WritersAreRuns == PatchInv => \A t : WritersOf(t) \subseteq RunsOf(t)
  BY DEF PatchInv, WritersOf, RunsOf

\* Two members of a set count for more than one.
LEMMA TwoMembers ==
  ASSUME NEW S, IsFiniteSet(S), NEW x \in S, NEW y \in S, x # y
  PROVE  Cardinality(S) > 1
<1>1. IsFiniteSet(S \ {x}) /\ Cardinality(S \ {x}) = Cardinality(S) - 1
  BY FS_RemoveElement
<1>2. S \ {x} # {} /\ Cardinality(S \ {x}) # 0
  BY <1>1, FS_EmptySet
<1>3. Cardinality(S) \in Nat /\ Cardinality(S \ {x}) \in Nat
  BY <1>1, FS_CardinalityType
<1>4. QED
  BY <1>1, <1>2, <1>3

\* A step that writes nothing, announces nothing, starts no run and makes nobody a
\* writer is one in which updates end at most.
LEMMA QuietStep ==
  ASSUME UNCHANGED <<status, updated>>,
         \A t \in Txns : RunsOf(t)' = RunsOf(t) /\ WritersOf(t)' \subseteq WritersOf(t)
  PROVE  Lifecycle!GiveUp
<1>1. \A t \in Txns : Cardinality(RunsOf(t)') = Cardinality(RunsOf(t))
  OBVIOUS
<1>2. ASSUME NEW t \in Txns
      PROVE  /\ Cardinality(WritersOf(t)') \in Nat
             /\ Cardinality(WritersOf(t)') <= Cardinality(WritersOf(t))
  <2>1. IsFiniteSet(WritersOf(t)') /\ Cardinality(WritersOf(t)') <= Cardinality(WritersOf(t))
    BY Counts, FS_Subset
  <2>2. QED
    BY <2>1, FS_CardinalityType
<1>3. QED
  BY <1>1, <1>2 DEF Lifecycle!GiveUp

\* The counts as functions: one transaction's changes, and the others' do not.
LEMMA OneMoreRun ==
  ASSUME NEW t \in Txns, \A u \in Txns : u # t => RunsOf(u)' = RunsOf(u),
         Cardinality(RunsOf(t)') = Cardinality(RunsOf(t)) + 1
  PROVE  [u \in Txns |-> Cardinality(RunsOf(u))]' =
           [[u \in Txns |-> Cardinality(RunsOf(u))] EXCEPT ![t] = @ + 1]
<1> DEFINE F == [u \in Txns |-> Cardinality(RunsOf(u))]
           G == [u \in Txns |-> Cardinality(RunsOf(u)')]
<1>1. G = [F EXCEPT ![t] = F[t] + 1]
  <2>1. \A u \in Txns : G[u] = IF u = t THEN F[t] + 1 ELSE F[u]
    OBVIOUS
  <2>2. F = [u \in Txns |-> F[u]] /\ G = [u \in Txns |-> G[u]]
    OBVIOUS
  <2> HIDE DEF F, G
  <2>3. QED
    BY <2>1, <2>2
<1>2. QED
  BY <1>1

LEMMA OneMoreWriter ==
  ASSUME NEW t \in Txns, \A u \in Txns : u # t => WritersOf(u)' = WritersOf(u),
         Cardinality(WritersOf(t)') = Cardinality(WritersOf(t)) + 1
  PROVE  [u \in Txns |-> Cardinality(WritersOf(u))]' =
           [[u \in Txns |-> Cardinality(WritersOf(u))] EXCEPT ![t] = @ + 1]
<1> DEFINE F == [u \in Txns |-> Cardinality(WritersOf(u))]
           G == [u \in Txns |-> Cardinality(WritersOf(u)')]
<1>1. G = [F EXCEPT ![t] = F[t] + 1]
  <2>1. \A u \in Txns : G[u] = IF u = t THEN F[t] + 1 ELSE F[u]
    OBVIOUS
  <2>2. F = [u \in Txns |-> F[u]] /\ G = [u \in Txns |-> G[u]]
    OBVIOUS
  <2> HIDE DEF F, G
  <2>3. QED
    BY <2>1, <2>2
<1>2. QED
  BY <1>1

LEMMA OneLessWriter ==
  ASSUME NEW t \in Txns, \A u \in Txns : u # t => WritersOf(u)' = WritersOf(u),
         Cardinality(WritersOf(t)') = Cardinality(WritersOf(t)) - 1
  PROVE  [u \in Txns |-> Cardinality(WritersOf(u))]' =
           [[u \in Txns |-> Cardinality(WritersOf(u))] EXCEPT ![t] = @ - 1]
<1> DEFINE F == [u \in Txns |-> Cardinality(WritersOf(u))]
           G == [u \in Txns |-> Cardinality(WritersOf(u)')]
<1>1. G = [F EXCEPT ![t] = F[t] - 1]
  <2>1. \A u \in Txns : G[u] = IF u = t THEN F[t] - 1 ELSE F[u]
    OBVIOUS
  <2>2. F = [u \in Txns |-> F[u]] /\ G = [u \in Txns |-> G[u]]
    OBVIOUS
  <2> HIDE DEF F, G
  <2>3. QED
    BY <2>1, <2>2
<1>2. QED
  BY <1>1

LEMMA CreateStep ==
  ASSUME FlowInv, NEW t \in Txns, ApiFacts!Insert(t), UNCHANGED procVars
  PROVE  Lifecycle!Create(t)
<1>1. status[t] = "NONE"
  BY DEF FlowInv, ServicesInv, ApiFacts!RowInv, ApiFacts!Insert
<1>2. /\ status' = [status EXCEPT ![t] = "PENDING"]
      /\ UNCHANGED <<handler, updated, task>>
  BY DEF ApiFacts!Insert, procVars
<1>3. \A u : RunsOf(u)' = RunsOf(u) /\ WritersOf(u)' = WritersOf(u)
  BY <1>2 DEF RunsOf, WritersOf
<1>4. QED
  BY <1>1, <1>2, <1>3 DEF Lifecycle!Create

LEMMA DeliverStep ==
  ASSUME FlowInv, NEW d \in Deliveries, ProcFacts!Fetch(d), UNCHANGED apiVars
  PROVE  \E t \in Txns : Lifecycle!Deliver(t)
<1>0. d \in ProcFacts!Deliveries
  BY DEF Deliveries, ProcFacts!Deliveries
<1>1. PICK t \in Txns : t = created[position + 1] /\ status[t] # "NONE"
  <2>1. created \in Seq(Txns) /\ position \in Nat /\ position < Len(created)
    BY DEF FlowInv, ServicesInv, ProcFacts!TypeInv, ProcFacts!TypeOK, ProcFacts!Fetch
  <2>2. position + 1 \in DOMAIN created
    BY <2>1
  <2>3. QED
    BY <2>1, <2>2 DEF FlowInv, ServicesInv, ApiFacts!RowInv, ApiFacts!EventHasRow
<1>2. /\ task[d].txn = Nil /\ task'[d].txn = t
      /\ \A e \in Deliveries : e # d => task'[e] = task[e]
  BY <1>0, <1>1, ServiceAssumptions, ProcFacts!FetchStarts
     DEF FlowInv, ServicesInv, ProcFacts!Deliveries, Deliveries
<1>3. d \notin RunsOf(t) /\ RunsOf(t)' = RunsOf(t) \cup {d}
  <2>1. t # Nil
    BY <1>1, FlowAssumption
  <2>2. d \notin RunsOf(t) /\ d \in RunsOf(t)'
    BY <1>2, <2>1 DEF RunsOf
  <2>3. \A e \in Deliveries : e # d => (e \in RunsOf(t)' <=> e \in RunsOf(t))
    BY <1>2 DEF RunsOf
  <2>4. RunsOf(t) \subseteq Deliveries /\ RunsOf(t)' \subseteq Deliveries
    BY DEF RunsOf, Deliveries
  <2>5. QED
    BY <2>2, <2>3, <2>4
<1>4. \A u \in Txns : u # t => RunsOf(u)' = RunsOf(u)
  BY <1>1, <1>2, FlowAssumption DEF RunsOf
<1>5. Cardinality(RunsOf(t)') = Cardinality(RunsOf(t)) + 1
  BY <1>3, Counts, FS_AddElement
<1>6. UNCHANGED <<status, updated>> /\ \A u : WritersOf(u)' = WritersOf(u)
  BY DEF apiVars, WritersOf
<1>7. Lifecycle!Deliver(t)
  BY <1>1, <1>4, <1>5, <1>6, OneMoreRun DEF Lifecycle!Deliver
<1>8. QED
  BY <1>1, <1>7

\* A request that is at work is a run of its transaction.
LEMMA RequestIsRun ==
  ASSUME FlowInv, NEW d \in Deliveries, handler[d].pc # "idle"
  PROVE  handler[d].txn \in Txns /\ d \in RunsOf(handler[d].txn)
BY DEF FlowInv, ServicesInv, ApiFacts!TypeInv, ApiFacts!RequestOK, PatchInv, RunsOf

\* What the step of one request leaves of the runs and of the other writers.
LEMMA OneRequestSteps ==
  ASSUME FlowInv, NEW d \in Deliveries, NEW t \in Txns, handler[d].txn = t,
         ApiFacts!HandlerStep(d), UNCHANGED procVars
  PROVE  /\ handler[d].pc # "idle"
         /\ \A u : RunsOf(u)' = RunsOf(u)
         /\ \A u \in Txns : u # t => WritersOf(u)' = WritersOf(u)
         /\ WritersOf(t)' = IF handler'[d].pc = "save" THEN WritersOf(t) \cup {d}
                            ELSE WritersOf(t) \ {d}
<1>1. /\ \A e \in Deliveries \ {d} : handler'[e] = handler[e]
      /\ handler'[d].txn = handler[d].txn
      /\ handler[d].pc \in ApiFacts!Working
  BY ServiceAssumptions, ApiFacts!RequestStep DEF FlowInv, ServicesInv
<1>2. handler[d].pc # "idle"
  BY <1>1 DEF ApiFacts!Working, ApiFacts!Publishing
<1>3. \A u : RunsOf(u)' = RunsOf(u)
  BY DEF RunsOf, procVars
<1>4. QED
  BY <1>1, <1>2, <1>3 DEF WritersOf

LEMMA BeginStep ==
  ASSUME FlowInv, NEW d \in Deliveries, ApiFacts!LoadPending(d), UNCHANGED procVars
  PROVE  \E t \in Txns : Lifecycle!Begin(t)
<1>1. ApiFacts!HandlerStep(d)
  BY DEF ApiFacts!HandlerStep, ApiFacts!UpdateStep
<1>2. /\ status[handler[d].txn] = "PENDING" /\ UNCHANGED <<status, updated>>
      /\ handler[d].pc = "load" /\ handler'[d].pc = "save"
  BY DEF ApiFacts!LoadPending, ApiFacts!Goto, FlowInv, ServicesInv, ApiFacts!TypeInv,
     ApiFacts!TypeOK, ApiFacts!HandlerRecord
<1>3. PICK t \in Txns : t = handler[d].txn /\ d \in RunsOf(t) /\ d \notin WritersOf(t)
  BY <1>2, RequestIsRun DEF WritersOf
<1>4. /\ \A u : RunsOf(u)' = RunsOf(u)
      /\ \A u \in Txns : u # t => WritersOf(u)' = WritersOf(u)
      /\ WritersOf(t)' = WritersOf(t) \cup {d}
  BY <1>1, <1>2, <1>3, OneRequestSteps
<1>5. Cardinality(WritersOf(t)') = Cardinality(WritersOf(t)) + 1
  BY <1>3, <1>4, Counts, FS_AddElement
<1>6. Cardinality(WritersOf(t)) < Cardinality(RunsOf(t))
  <2>1. WritersOf(t) \subseteq RunsOf(t)
    BY WritersAreRuns DEF FlowInv
  <2>2. WritersOf(t) # RunsOf(t)
    BY <1>3
  <2>3. /\ Cardinality(WritersOf(t)) <= Cardinality(RunsOf(t))
        /\ Cardinality(WritersOf(t)) # Cardinality(RunsOf(t))
    BY <2>1, <2>2, Counts, FS_Subset
  <2>4. QED
    BY <2>3, Counts
<1>7. Lifecycle!Begin(t)
  <2>1. [u \in Txns |-> Cardinality(WritersOf(u))][t]
          < [u \in Txns |-> Cardinality(RunsOf(u))][t]
    BY <1>6
  <2>2. UNCHANGED <<status, [u \in Txns |-> Cardinality(RunsOf(u))],
                    {updated[i] : i \in DOMAIN updated}>>
    BY <1>2, <1>4
  <2>3. [u \in Txns |-> Cardinality(WritersOf(u))]' =
          [[u \in Txns |-> Cardinality(WritersOf(u))] EXCEPT ![t] = @ + 1]
    BY <1>4, <1>5, OneMoreWriter
  <2>4. QED
    BY <1>2, <1>3, <2>1, <2>2, <2>3 DEF Lifecycle!Begin
<1>8. QED
  BY <1>3, <1>7

LEMMA SettleStep ==
  ASSUME FlowInv, NEW d \in Deliveries, ApiFacts!Save(d), UNCHANGED procVars
  PROVE  \E t \in Txns, s \in Lifecycle!Terminal : Lifecycle!Settle(t, s)
<1>1. ApiFacts!HandlerStep(d)
  BY DEF ApiFacts!HandlerStep, ApiFacts!UpdateStep
<1>2. /\ status' = [status EXCEPT ![handler[d].txn] = handler[d].new] /\ UNCHANGED updated
      /\ handler[d].pc = "save" /\ handler'[d].pc = "publish"
  BY DEF ApiFacts!Save, ApiFacts!Goto, FlowInv, ServicesInv, ApiFacts!TypeInv,
     ApiFacts!TypeOK, ApiFacts!HandlerRecord
<1>3. PICK s \in Lifecycle!Terminal : s = handler[d].new
  BY <1>2 DEF FlowInv, ServicesInv, ApiFacts!TypeInv, ApiFacts!RequestOK,
     ApiFacts!Terminal, Lifecycle!Terminal
<1>4. PICK t \in Txns : t = handler[d].txn /\ d \in WritersOf(t)
  BY <1>2, RequestIsRun DEF WritersOf
<1>5. /\ \A u : RunsOf(u)' = RunsOf(u)
      /\ \A u \in Txns : u # t => WritersOf(u)' = WritersOf(u)
      /\ WritersOf(t)' = WritersOf(t) \ {d}
  BY <1>1, <1>2, <1>4, OneRequestSteps
<1>6. Cardinality(WritersOf(t)') = Cardinality(WritersOf(t)) - 1
  <2>1. Cardinality(WritersOf(t) \ {d}) = Cardinality(WritersOf(t)) - 1
    BY <1>4, Counts, FS_RemoveElement
  <2>2. QED
    BY <1>5, <2>1
<1>7. Cardinality(WritersOf(t)) > 0
  <2>1. Cardinality(WritersOf(t)) # 0
    BY <1>4, Counts, FS_EmptySet
  <2>2. QED
    BY <2>1, Counts
<1>8. Lifecycle!Settle(t, s)
  BY <1>2, <1>3, <1>4, <1>5, <1>6, <1>7, OneLessWriter DEF Lifecycle!Settle
<1>9. QED
  BY <1>3, <1>4, <1>8

LEMMA AnnounceStep ==
  ASSUME FlowInv, NEW d \in Deliveries, UNCHANGED procVars,
         ApiFacts!PublishUpdated(d) \/ ApiFacts!RepublishUpdated(d)
  PROVE  \E t \in Txns, s \in Lifecycle!Terminal : Lifecycle!Announce(t, s)
<1>1. ApiFacts!HandlerStep(d)
  BY DEF ApiFacts!HandlerStep, ApiFacts!UpdateStep
<1>2. /\ updated' = Append(updated, <<handler[d].txn, handler[d].new>>) /\ UNCHANGED status
      /\ handler[d].pc \in ApiFacts!Publishing /\ handler'[d].pc \in {"sent", "resent"}
  BY DEF ApiFacts!PublishUpdated, ApiFacts!RepublishUpdated, ApiFacts!Goto, FlowInv,
     ServicesInv, ApiFacts!TypeInv, ApiFacts!TypeOK, ApiFacts!HandlerRecord,
     ApiFacts!Publishing
<1>3. PICK t \in Txns, s \in Lifecycle!Terminal :
        /\ t = handler[d].txn /\ s = handler[d].new
        /\ d \in RunsOf(t) /\ d \notin WritersOf(t)
  <2>1. handler[d].pc # "idle" /\ handler[d].pc # "save"
    BY <1>2 DEF ApiFacts!Publishing
  <2>2. handler[d].new \in Lifecycle!Terminal
    BY <1>2 DEF FlowInv, ServicesInv, ApiFacts!TypeInv, ApiFacts!RequestOK,
       ApiFacts!Terminal, Lifecycle!Terminal
  <2>3. QED
    BY <2>1, <2>2, RequestIsRun DEF WritersOf
<1>4. status[t] \in ApiFacts!Terminal
  BY <1>2, <1>3 DEF FlowInv, ApiFacts!AnswerMeansSettled, ApiFacts!SaysSettled, ApiFacts!Saved
<1>5. /\ \A u : RunsOf(u)' = RunsOf(u)
      /\ \A u \in Txns : WritersOf(u)' = WritersOf(u)
  <2>1. /\ \A u : RunsOf(u)' = RunsOf(u)
        /\ \A u \in Txns : u # t => WritersOf(u)' = WritersOf(u)
        /\ WritersOf(t)' = WritersOf(t) \ {d}
    BY <1>1, <1>2, <1>3, OneRequestSteps
  <2>2. WritersOf(t) \ {d} = WritersOf(t)
    BY <1>3
  <2>3. QED
    BY <2>1, <2>2
<1>6. {updated'[i] : i \in DOMAIN updated'} = {updated[i] : i \in DOMAIN updated} \cup {<<t, s>>}
  <2>1. updated \in Seq(Txns \X ApiFacts!Terminal) /\ updated' = Append(updated, <<t, s>>)
    BY <1>2, <1>3 DEF FlowInv, ServicesInv, ApiFacts!TypeInv, ApiFacts!TypeOK
  <2> DEFINE n == Len(updated)
  <2>2. n \in Nat /\ DOMAIN updated = 1..n /\ DOMAIN updated' = 1..(n + 1)
    BY <2>1
  <2>3. /\ \A i \in 1..n : updated'[i] = updated[i]
        /\ updated'[n + 1] = <<t, s>>
    BY <2>1
  <2> HIDE DEF n
  <2>4. 1..(n + 1) = (1..n) \cup {n + 1}
    BY <2>2
  <2>5. QED
    BY <2>2, <2>3, <2>4
<1>7. PICK e \in Deliveries : /\ ApiFacts!MaybeSaved(e)
                              /\ handler[e].txn = t /\ handler[e].new = status[t]
  BY <1>3, <1>4 DEF FlowInv, ApiFacts!StatusHasWriter
<1>8. e \in RunsOf(t)
  <2>1. handler[e].pc # "idle"
    BY <1>7 DEF ApiFacts!MaybeSaved, ApiFacts!Saved, ApiFacts!Publishing, FlowInv,
       ServicesInv, ApiFacts!TypeInv, ApiFacts!RequestOK
  <2>2. QED
    BY <1>7, <2>1, RequestIsRun
<1>9. s = status[t] \/ Cardinality(RunsOf(t)) > 1
  <2>1. CASE e = d
    BY <1>3, <1>7, <2>1
  <2>2. CASE e # d
    BY <1>3, <1>8, <2>2, Counts, TwoMembers
  <2>3. QED
    BY <2>1, <2>2
<1>10. status[t] \in Lifecycle!Terminal
  BY <1>4 DEF ApiFacts!Terminal, Lifecycle!Terminal
<1>11. Lifecycle!Announce(t, s)
  BY <1>2, <1>3, <1>5, <1>6, <1>9, <1>10 DEF Lifecycle!Announce
<1>12. QED
  BY <1>3, <1>11

\* Every step of the flow is one of the lifecycle's, or changes nothing there.
LEMMA LifecycleSteps == FlowInv /\ [Next]_vars => [Lifecycle!Next]_Lifecycle!vars
<1> SUFFICES ASSUME FlowInv, [Next]_vars PROVE [Lifecycle!Next]_Lifecycle!vars
  OBVIOUS
<1>1. CASE UNCHANGED vars
  BY <1>1, QuietStep DEF vars, apiVars, procVars, RunsOf, WritersOf, Lifecycle!Next
<1>2. CASE ApiFacts!Local /\ UNCHANGED procVars
  <2>1. CASE \E t \in Txns : ApiFacts!Insert(t)
    BY <1>2, <2>1, CreateStep DEF Lifecycle!Next
  <2>2. CASE \E d \in Deliveries : ApiFacts!LoadPending(d)
    BY <1>2, <2>2, BeginStep DEF Lifecycle!Next
  <2>3. CASE \E d \in Deliveries : ApiFacts!Save(d)
    BY <1>2, <2>3, SettleStep DEF Lifecycle!Next
  <2>4. CASE \E d \in Deliveries : ApiFacts!PublishUpdated(d) \/ ApiFacts!RepublishUpdated(d)
    BY <1>2, <2>4, AnnounceStep DEF Lifecycle!Next
  <2>5. CASE /\ UNCHANGED <<status, updated>>
             /\ \A d \in Deliveries : handler'[d].pc = "save" => handler'[d] = handler[d]
    <3>1. \A t : RunsOf(t)' = RunsOf(t) /\ WritersOf(t)' \subseteq WritersOf(t)
      BY <1>2, <2>5 DEF procVars, RunsOf, WritersOf
    <3>2. QED
      BY <2>5, <3>1, QuietStep DEF Lifecycle!Next
  <2>6. QED
    BY <1>2, <2>1, <2>2, <2>3, <2>4, <2>5, ServiceAssumptions, ApiFacts!LocalKinds
       DEF FlowInv, ServicesInv
<1>3. CASE ProcFacts!Local /\ UNCHANGED apiVars
  <2>1. CASE \E d \in Deliveries : ProcFacts!Fetch(d)
    BY <1>3, <2>1, DeliverStep DEF Lifecycle!Next
  <2>2. CASE ProcFacts!OffsetsStay
    <3>1. \A t : RunsOf(t)' = RunsOf(t) /\ WritersOf(t)' = WritersOf(t)
      BY <1>3, <2>2 DEF ProcFacts!OffsetsStay, ProcFacts!Deliveries, Deliveries, apiVars,
         RunsOf, WritersOf
    <3>2. QED
      BY <1>3, <3>1, QuietStep DEF apiVars, Lifecycle!Next
  <2>3. QED
    BY <1>3, <2>1, <2>2, ServiceAssumptions, ProcFacts!StepKinds
       DEF FlowInv, ServicesInv, ProcFacts!Next, ProcFacts!Deliveries, Deliveries
<1>4. ASSUME NEW d \in Deliveries, SendingPatch(d) \/ AnsweringPatch(d)
      PROVE  Lifecycle!GiveUp
  <2>1. \A e \in Deliveries : task'[e].txn = task[e].txn
    <3>1. task \in [Deliveries -> [pc : ProcFacts!TaskPc, txn : Txns \cup {Nil},
                                  offset : Nat, outcome : ProcFacts!Outcomes \cup {Nil}]]
      BY DEF FlowInv, ServicesInv, ProcFacts!TypeInv, ProcFacts!TypeOK,
         ProcFacts!Deliveries, Deliveries
    <3>2. \E pc : task' = [task EXCEPT ![d].pc = pc]
      BY <1>4 DEF SendingPatch, AnsweringPatch, ProcFacts!Send, ProcFacts!Answer
    <3>3. QED
      BY <3>1, <3>2
  <2>2. \A e \in Deliveries : handler'[e].pc = "save" => handler'[e] = handler[e]
    BY <1>4 DEF SendingPatch, AnsweringPatch, ApiFacts!Receive, apiVars, FlowInv,
       ServicesInv, ApiFacts!TypeInv, ApiFacts!TypeOK
  <2>3. UNCHANGED <<status, updated>>
    BY <1>4 DEF SendingPatch, AnsweringPatch, ApiFacts!Receive, apiVars
  <2>4. \A t : RunsOf(t)' = RunsOf(t) /\ WritersOf(t)' \subseteq WritersOf(t)
    BY <2>1, <2>2 DEF RunsOf, WritersOf
  <2>5. QED
    BY <2>3, <2>4, QuietStep
<1>5. QED
  BY <1>1, <1>2, <1>3, <1>4, FlowSteps DEF Lifecycle!Next

LEMMA LifecycleInit == Init => Lifecycle!Init
<1> SUFFICES ASSUME Init PROVE Lifecycle!Init
  OBVIOUS
<1>1. /\ status = [t \in Txns |-> "NONE"] /\ updated = <<>>
      /\ \A d \in Deliveries : handler[d].pc = "idle" /\ task[d].txn = Nil
  BY FlowInit DEF ApiFacts!Init, ProcFacts!Init, ProcFacts!NoTask, ProcFacts!Deliveries,
     Deliveries
<1>2. \A t \in Txns : RunsOf(t) = {} /\ WritersOf(t) = {}
  BY <1>1, FlowAssumption DEF RunsOf, WritersOf
<1>3. {updated[i] : i \in DOMAIN updated} = {}
  BY <1>1
<1>4. QED
  BY <1>1, <1>2, <1>3, FS_EmptySet DEF Lifecycle!Init

\* With every duplicate, redelivery, crash and restart, the system does nothing that
\* TransactionLifecycle does not allow.
THEOREM FlowImplementsLifecycle == Spec => ImplementsLifecycle
  BY LifecycleInit, LifecycleSteps, FlowInvariant, PTL
     DEF Spec, ImplementsLifecycle, Lifecycle!Spec

-------------------------------------------------------------------------------
(* What follows of the flow's transactions. *)

LifecycleFacts ==
  INSTANCE TransactionLifecycleProofs WITH
    deliveries <- [t \in Txns |-> Cardinality(RunsOf(t))],
    writers <- [t \in Txns |-> Cardinality(WritersOf(t))],
    announced <- {updated[i] : i \in DOMAIN updated}

LEMMA FlowIsLifecycle == Spec => LifecycleFacts!Spec
<1>1. Lifecycle!Init => LifecycleFacts!Init
  BY DEF Lifecycle!Init, LifecycleFacts!Init
<1>2. [Lifecycle!Next]_Lifecycle!vars => [LifecycleFacts!Next]_LifecycleFacts!vars
  BY DEF Lifecycle!Next, Lifecycle!vars, Lifecycle!Create, Lifecycle!Deliver, Lifecycle!Begin,
     Lifecycle!Settle, Lifecycle!Announce, Lifecycle!GiveUp, Lifecycle!Terminal,
     LifecycleFacts!Next, LifecycleFacts!vars, LifecycleFacts!Create, LifecycleFacts!Deliver,
     LifecycleFacts!Begin, LifecycleFacts!Settle, LifecycleFacts!Announce,
     LifecycleFacts!GiveUp, LifecycleFacts!Terminal
<1>3. QED
  BY <1>1, <1>2, LifecycleInit, LifecycleSteps, FlowInvariant, PTL
     DEF Spec, LifecycleFacts!Spec

\* A transaction whose event has had one payment run at most keeps the status it was
\* settled with, and transaction.updated announces no other.
OneRunIsFinal ==
  [][\A t \in Txns :
       status[t] \in Terminal /\ Cardinality(RunsOf(t)) <= 1 => status'[t] = status[t]]_vars
OneRunIsAnnounced ==
  \A i \in DOMAIN updated :
    Cardinality(RunsOf(updated[i][1])) <= 1 => updated[i][2] = status[updated[i][1]]

\* Both follow from the lifecycle alone, which the flow implements.
THEOREM OneRunSettlesForGood == Spec => OneRunIsFinal /\ []OneRunIsAnnounced
<1> DEFINE runs == [t \in Txns |-> Cardinality(RunsOf(t))]
<1>1. Spec => LifecycleFacts!OnceIsFinal /\ []LifecycleFacts!OnceIsAnnounced
  BY FlowIsLifecycle, LifecycleFacts!OnceFinal, LifecycleFacts!OnceAnnounced, PTL
<1>2. ServicesInv /\ LifecycleFacts!OnceIsAnnounced => OneRunIsAnnounced
  <2> SUFFICES ASSUME ServicesInv, LifecycleFacts!OnceIsAnnounced,
                      NEW i \in DOMAIN updated, Cardinality(RunsOf(updated[i][1])) <= 1
               PROVE  updated[i][2] = status[updated[i][1]]
    BY DEF OneRunIsAnnounced
  <2>1. updated \in Seq(Txns \X ApiFacts!Terminal)
    BY DEF ServicesInv, ApiFacts!TypeInv, ApiFacts!TypeOK
  <2>2. PICK t \in Txns, s \in ApiFacts!Terminal : updated[i] = <<t, s>>
    BY <2>1
  <2>3. s \in LifecycleFacts!Terminal /\ <<t, s>> \in {updated[j] : j \in DOMAIN updated}
    BY <2>2 DEF ApiFacts!Terminal, LifecycleFacts!Terminal
  <2>4. runs[t] <= 1
    BY <2>2
  <2>5. status[t] = s
    BY <2>3, <2>4 DEF LifecycleFacts!OnceIsAnnounced
  <2>6. QED
    BY <2>2, <2>5
<1>3. [\A t \in Txns :
         status[t] \in LifecycleFacts!Terminal
         /\ runs[t] <= 1
         => status'[t] = status[t]]_LifecycleFacts!vars
      => [\A t \in Txns :
            status[t] \in Terminal /\ Cardinality(RunsOf(t)) <= 1
            => status'[t] = status[t]]_vars
  <2> SUFFICES ASSUME [\A t \in Txns :
                         status[t] \in LifecycleFacts!Terminal
                         /\ runs[t] <= 1
                         => status'[t] = status[t]]_LifecycleFacts!vars
               PROVE  [\A t \in Txns :
                         status[t] \in Terminal /\ Cardinality(RunsOf(t)) <= 1
                         => status'[t] = status[t]]_vars
    OBVIOUS
  <2>1. ASSUME NEW t \in Txns, status[t] \in Terminal, Cardinality(RunsOf(t)) <= 1
        PROVE  status'[t] = status[t]
    <3>1. CASE UNCHANGED LifecycleFacts!vars
      BY <3>1 DEF LifecycleFacts!vars
    <3>2. CASE ~UNCHANGED LifecycleFacts!vars
      <4>1. status[t] \in LifecycleFacts!Terminal
        BY <2>1 DEF Terminal, Api!Terminal, LifecycleFacts!Terminal
      <4>2. runs[t] <= 1
        BY <2>1
      <4>3. QED
        BY <3>2, <4>1, <4>2
    <3>3. QED
      BY <3>1, <3>2
  <2>2. QED
    BY <2>1
<1>4. QED
  BY <1>1, <1>2, <1>3, ServicesInvariant, PTL DEF OneRunIsFinal, LifecycleFacts!OnceIsFinal

\* One event, and a consumer that has never been reset: one payment run.
PublishedOnce(t) == \A i, j \in DOMAIN created : created[i] = t /\ created[j] = t => i = j

LEMMA OneEventOneRun ==
  ASSUME ServicesInv, ProcFacts!RedeliveryNeedsReset, resets = 0,
         NEW t \in Txns, PublishedOnce(t)
  PROVE  Cardinality(RunsOf(t)) <= 1
<1>1. CASE RunsOf(t) = {}
  BY <1>1, FS_EmptySet
<1>2. CASE RunsOf(t) # {}
  <2>1. \A d \in RunsOf(t) : task[d].offset \in DOMAIN created /\ created[task[d].offset] = t
    <3> SUFFICES ASSUME NEW d \in RunsOf(t)
                 PROVE  task[d].offset \in DOMAIN created /\ created[task[d].offset] = t
      OBVIOUS
    <3>1. d \in ProcFacts!Deliveries /\ task[d].txn = t
      BY DEF RunsOf, Deliveries, ProcFacts!Deliveries
    <3>2. task[d].pc # "unused"
      BY <3>1, FlowAssumption DEF ServicesInv, ProcFacts!TypeInv, ProcFacts!TasksInShape,
         ProcFacts!InShape
    <3>3. QED
      BY <3>1, <3>2 DEF ServicesInv, ProcFacts!TasksFollowEvents
  <2>2. PICK c \in RunsOf(t) : TRUE
    BY <1>2
  <2> DEFINE i == task[c].offset
             D == {d \in Deliveries : task[d].offset = i}
  <2>3. i \in DOMAIN created /\ RunsOf(t) \subseteq D
    BY <2>1, <2>2 DEF PublishedOnce, RunsOf
  <2>4. i \in 1..Len(created)
    BY <2>3 DEF ServicesInv, ProcFacts!TypeInv, ProcFacts!TypeOK
  <2>5. Cardinality(D) <= 1
    BY <2>4, SameCounts DEF ProcFacts!RedeliveryNeedsReset, ProcFacts!Deliveries, Deliveries
  <2>6. IsFiniteSet(D)
    <3>1. IsFiniteSet(Deliveries)
      BY FlowAssumption, FS_Interval DEF Deliveries
    <3>2. QED
      BY <3>1, FS_Subset
  <2> HIDE DEF D
  <2>7. Cardinality(RunsOf(t)) <= Cardinality(D)
    BY <2>3, <2>6, FS_Subset
  <2>8. Cardinality(D) \in Nat /\ Cardinality(RunsOf(t)) \in Nat
    BY <2>6, Counts, FS_CardinalityType
  <2>9. QED
    BY <2>5, <2>7, <2>8
<1>3. QED
  BY <1>1, <1>2

\* What of TerminalIsFinal the code does keep: a settled transaction whose event stands
\* in the topic once stays as it is while the consumer has never been reset.
UndisturbedIsFinal ==
  [][\A t \in Txns :
       status[t] \in Terminal /\ resets = 0 /\ PublishedOnce(t) => status'[t] = status[t]]_vars

\* Neither a lost answer nor a crash of the account service, nor any race of its
\* requests, changes a status twice: that takes a duplicate event or a redelivery.
THEOREM UndisturbedSettlesForGood == Spec => UndisturbedIsFinal
<1>1. /\ ServicesInv /\ ProcFacts!RedeliveryNeedsReset
      /\ [\A t \in Txns :
            status[t] \in Terminal /\ Cardinality(RunsOf(t)) <= 1
            => status'[t] = status[t]]_vars
      => [\A t \in Txns :
            status[t] \in Terminal /\ resets = 0 /\ PublishedOnce(t)
            => status'[t] = status[t]]_vars
  BY OneEventOneRun
<1>2. Spec => []ProcFacts!RedeliveryNeedsReset
  BY FlowIsProc, ServiceAssumptions, ProcFacts!RedeliveriesNeedResets, PTL
<1>3. QED
  BY <1>1, <1>2, ServicesInvariant, OneRunSettlesForGood, PTL
     DEF OneRunIsFinal, UndisturbedIsFinal

\* The finality API_CONTRACTS.md promises holds where no acknowledgement of Kafka is
\* lost and the consumer is never rebalanced, shut down or killed.
THEOREM FinalWithoutRedelivery ==
  ASSUME ~AckLoss, MaxResets = 0
  PROVE  Spec => TerminalIsFinal
<1>1. ServicesInv => resets = 0 /\ \A t \in Txns : PublishedOnce(t)
  <2> SUFFICES ASSUME ServicesInv PROVE resets = 0 /\ \A t \in Txns : PublishedOnce(t)
    OBVIOUS
  <2>1. resets = 0
    BY DEF ServicesInv, ProcFacts!TypeInv, ProcFacts!TypeOK
  <2>2. ASSUME NEW t \in Txns PROVE PublishedOnce(t)
    <3>1. PICK i : ApiFacts!Positions(t) \subseteq {i}
      BY DEF ServicesInv, ApiFacts!TopicInv
    <3>2. QED
      BY <3>1 DEF ApiFacts!Positions, PublishedOnce
  <2>3. QED
    BY <2>1, <2>2
<1>2. /\ ServicesInv
      /\ [\A t \in Txns :
            status[t] \in Terminal /\ resets = 0 /\ PublishedOnce(t)
            => status'[t] = status[t]]_vars
      => [\A t \in Txns : status[t] \in Terminal => status'[t] = status[t]]_vars
  BY <1>1
<1>3. QED
  BY <1>2, ServicesInvariant, UndisturbedSettlesForGood, PTL
     DEF UndisturbedIsFinal, TerminalIsFinal
===============================================================================
