------------------------- MODULE TransactionApiProofs -------------------------
(***************************************************************************)
(* What holds of TransactionApi for every set of transactions, accounts    *)
(* and requests.  The invariant is built in layers: types, with what the   *)
(* step of a request says about its fields; the agreement of POSTs and     *)
(* topics with the rows; the agreement of status updates with the rows.    *)
(***************************************************************************)
EXTENDS TransactionApi, FiniteSetTheorems, TLAPS

\* A request that arrived names a transaction and a status; one that is about to
\* save, or has, names a terminal status.  Only an answered one has a code.
RequestOK ==
  \A r \in Requests :
    /\ handler[r].pc # "idle" => handler[r].txn \in Txns /\ handler[r].new \in Wire
    /\ handler[r].pc \in Publishing \cup {"save"} => handler[r].new \in Terminal
    /\ handler[r].code = 200 => handler[r].new \in Terminal
    /\ handler[r].pc # "replied" => handler[r].code = 0

TypeInv == TypeOK /\ RequestOK

\* Init establishes the types.
LEMMA InitTypeInv == Init => TypeInv
  BY ApiAssumption DEF Init, TypeInv, TypeOK, RequestOK, Statuses, PostPc, HandlerPc,
     Codes, Publishing, Terminal, HandlerRecord

\* A request that moves on, and one that is answered, stay well-formed.
LEMMA GotoOK ==
  ASSUME TypeInv, NEW r \in Requests, NEW pc \in HandlerPc \ {"idle", "replied"},
         handler[r].pc \notin {"idle", "replied"},
         pc \in Publishing \cup {"save"} => handler[r].new \in Terminal,
         Goto(r, pc)
  PROVE  handler' \in [Requests -> HandlerRecord] /\ RequestOK'
<1>1. handler' = [handler EXCEPT ![r] = [handler[r] EXCEPT !.pc = pc]]
  BY DEF Goto, TypeInv, TypeOK, HandlerRecord
<1>2. [handler[r] EXCEPT !.pc = pc] \in HandlerRecord
  BY DEF TypeInv, TypeOK, HandlerRecord
<1>3. QED
  BY <1>1, <1>2 DEF TypeInv, TypeOK, RequestOK, HandlerRecord

LEMMA ReplyOK ==
  ASSUME TypeInv, NEW r \in Requests, NEW c \in Codes,
         handler[r].pc # "idle", c = 200 => handler[r].new \in Terminal,
         Reply(r, c)
  PROVE  handler' \in [Requests -> HandlerRecord] /\ RequestOK'
<1>1. handler' = [handler EXCEPT ![r] = [handler[r] EXCEPT !.pc = "replied", !.code = c]]
  BY DEF Reply, TypeInv, TypeOK, HandlerRecord
<1>2. [handler[r] EXCEPT !.pc = "replied", !.code = c] \in HandlerRecord
  BY DEF TypeInv, TypeOK, HandlerRecord, HandlerPc
<1>3. QED
  BY <1>1, <1>2 DEF TypeInv, TypeOK, RequestOK, HandlerRecord, HandlerPc, Publishing

\* Every step keeps them.
LEMMA NextTypeInv == TypeInv /\ [Next]_vars => TypeInv'
<1> SUFFICES ASSUME TypeInv, [Next]_vars PROVE TypeInv'
  OBVIOUS
<1> USE DEF TypeInv, TypeOK, RequestOK, Statuses, Terminal, Wire, PostPc, HandlerPc, Codes,
            Publishing
<1>1. ASSUME NEW t \in Txns, PostRejected(t) PROVE TypeInv'
  BY <1>1 DEF PostRejected
<1>2. ASSUME NEW t \in Txns, PostValidated(t) PROVE TypeInv'
  BY <1>2 DEF PostValidated
<1>3. ASSUME NEW t \in Txns, Insert(t) PROVE TypeInv'
  BY <1>3 DEF Insert
<1>4. ASSUME NEW t \in Txns, PostError(t) PROVE TypeInv'
  BY <1>4 DEF PostError
<1>5. ASSUME NEW t \in Txns, PublishCreated(t) PROVE TypeInv'
  BY <1>5 DEF PublishCreated
<1>6. ASSUME NEW t \in Txns, RepublishCreated(t) PROVE TypeInv'
  BY <1>6 DEF RepublishCreated
<1>7. ASSUME NEW t \in Txns, FinishCreated(t) PROVE TypeInv'
  BY <1>7 DEF FinishCreated
<1>8. ASSUME NEW a \in Accounts, DeleteAccount(a) \/ RestoreAccount(a) PROVE TypeInv'
  BY <1>8 DEF DeleteAccount, RestoreAccount
<1>9. ASSUME NEW r \in Requests, Verify(r) PROVE TypeInv'
  <2>1. CASE Goto(r, "load")
    BY <1>9, <2>1, GotoOK DEF Verify
  <2>2. CASE Reply(r, 401) \/ Reply(r, 500)
    BY <1>9, <2>2, ReplyOK DEF Verify
  <2>3. QED
    BY <1>9, <2>1, <2>2 DEF Verify
<1>10. ASSUME NEW r \in Requests, LoadRefused(r) PROVE TypeInv'
  BY <1>10, ReplyOK DEF LoadRefused
<1>11. ASSUME NEW r \in Requests, LoadPending(r) PROVE TypeInv'
  BY <1>11, GotoOK DEF LoadPending
<1>12. ASSUME NEW r \in Requests, Save(r) PROVE TypeInv'
  BY <1>12, GotoOK DEF Save
<1>13. ASSUME NEW r \in Requests, PublishUpdated(r) PROVE TypeInv'
  BY <1>13, GotoOK DEF PublishUpdated
<1>14. ASSUME NEW r \in Requests, RepublishUpdated(r) PROVE TypeInv'
  BY <1>14, GotoOK DEF RepublishUpdated
<1>15. ASSUME NEW r \in Requests, FinishUpdated(r) PROVE TypeInv'
  BY <1>15, ReplyOK DEF FinishUpdated
<1>16. ASSUME NEW r \in Requests, HandlerError(r) PROVE TypeInv'
  BY <1>16, ReplyOK DEF HandlerError
<1>17. ASSUME ApiCrash PROVE TypeInv'
  <2> DEFINE Lost(r) == [handler[r] EXCEPT !.pc = "lost"]
  <2>1. ASSUME NEW r \in Requests PROVE Lost(r) \in HandlerRecord
    <3>1. handler[r] \in HandlerRecord
      OBVIOUS
    <3>2. QED
      BY <3>1 DEF HandlerRecord
  <2>2. handler' = [r \in Requests |->
                      IF handler[r].pc \in Working THEN Lost(r) ELSE handler[r]]
    BY <1>17 DEF ApiCrash
  <2>3. handler' \in [Requests -> HandlerRecord]
    BY <2>1, <2>2
  <2>4. RequestOK'
    BY <2>2 DEF Working, HandlerRecord
  <2>5. crashes' \in 0..MaxCrashes
    BY <1>17, ApiAssumption DEF ApiCrash
  <2>6. post' \in [Txns -> PostPc]
    BY <1>17 DEF ApiCrash, Working
  <2>7. QED
    BY <1>17, <2>3, <2>4, <2>5, <2>6 DEF ApiCrash
<1>18. ASSUME NEW r \in Requests, NEW t \in Txns, NEW s \in Wire, Receive(r, t, s)
       PROVE  TypeInv'
  BY <1>18 DEF Receive, HandlerRecord
<1>19. CASE UNCHANGED vars
  BY <1>19 DEF vars
<1>20. QED
  BY <1>1, <1>2, <1>3, <1>4, <1>5, <1>6, <1>7, <1>8, <1>9, <1>10, <1>11, <1>12, <1>13,
     <1>14, <1>15, <1>16, <1>17, <1>18, <1>19
     DEF Next, Local, PostStep, HandlerStep, UpdateStep

\* Type correctness: rows, requests and topics only ever hold what the code can
\* write; in particular validate_status keeps any other status out of the row.
THEOREM TypeCorrect == Spec => []TypeOK
<1>1. Spec => []TypeInv
  BY InitTypeInv, NextTypeInv, PTL DEF Spec
<1>2. TypeInv => TypeOK
  BY DEF TypeInv
<1>3. QED
  BY <1>1, <1>2, PTL

-------------------------------------------------------------------------------
(* The rows, and what POSTs and the topic transaction.created know of them.     *)

\* There is no row before the INSERT and there is one from then on; a request
\* that is about to save has read it.
RowInv ==
  /\ \A t \in Txns : post[t] \in {"idle", "insert"} => status[t] = "NONE"
  /\ \A t \in Txns : post[t] \in Publishing => status[t] # "NONE"
  /\ \A r \in Requests : handler[r].pc = "save" => status[handler[r].txn] # "NONE"
  /\ EventHasRow

\* Only an INSERT of a new row and a save write the status.
LEMMA StatusStep ==
  ASSUME TypeInv, [Next]_vars
  PROVE  \/ UNCHANGED status
         \/ \E t \in Txns : Insert(t)
         \/ \E r \in Requests : Save(r)
BY DEF Next, Local, PostStep, HandlerStep, UpdateStep, vars, PostRejected, PostValidated, PostError,
       PublishCreated, RepublishCreated, FinishCreated, DeleteAccount, RestoreAccount,
       Verify, LoadRefused,
       LoadPending, PublishUpdated, RepublishUpdated, FinishUpdated, HandlerError, ApiCrash,
       Receive

\* A row stays, and a settled one stays settled.
LEMMA StatusOnlyAdvances ==
  ASSUME TypeInv, RowInv, [Next]_vars
  PROVE  /\ \A t \in Txns : status[t] # "NONE" => status'[t] # "NONE"
         /\ \A t \in Txns : status[t] \in Terminal => status'[t] \in Terminal
<1>1. CASE UNCHANGED status
  BY <1>1
<1>2. ASSUME NEW t \in Txns, Insert(t)
      PROVE  /\ \A u \in Txns : status[u] # "NONE" => status'[u] # "NONE"
             /\ \A u \in Txns : status[u] \in Terminal => status'[u] \in Terminal
  BY <1>2 DEF Insert, RowInv, TypeInv, TypeOK, Terminal
<1>3. ASSUME NEW r \in Requests, Save(r)
      PROVE  /\ \A u \in Txns : status[u] # "NONE" => status'[u] # "NONE"
             /\ \A u \in Txns : status[u] \in Terminal => status'[u] \in Terminal
  BY <1>3 DEF Save, TypeInv, TypeOK, RequestOK, Terminal
<1>4. QED
  BY <1>1, <1>2, <1>3, StatusStep

LEMMA InitRowInv == Init => RowInv
  BY DEF Init, RowInv, EventHasRow, Publishing

LEMMA NextRowInv == TypeInv /\ RowInv /\ [Next]_vars => RowInv'
<1> SUFFICES ASSUME TypeInv, RowInv, [Next]_vars PROVE RowInv'
  OBVIOUS
<1>t. TypeInv'
  BY NextTypeInv
<1>0. \A t \in Txns : status[t] # "NONE" => status'[t] # "NONE"
  BY StatusOnlyAdvances
<1>1. \A t \in Txns : post'[t] \in {"idle", "insert"} => status'[t] = "NONE"
  <2> SUFFICES ASSUME NEW t \in Txns, post'[t] \in {"idle", "insert"}
               PROVE  status'[t] = "NONE"
    OBVIOUS
  <2>1. post[t] \in {"idle", "insert"}
    BY DEF Next, Local, PostStep, HandlerStep, UpdateStep, vars, PostRejected, PostValidated, Insert,
           PostError, PublishCreated, RepublishCreated, FinishCreated, DeleteAccount, RestoreAccount,
           Verify,
           LoadRefused, LoadPending, Save, PublishUpdated, RepublishUpdated, FinishUpdated,
           HandlerError, ApiCrash, Receive, TypeInv, TypeOK
  <2>2. status[t] = "NONE"
    BY <2>1 DEF RowInv
  <2>3. CASE UNCHANGED status
    BY <2>2, <2>3
  <2>4. ASSUME NEW u \in Txns, Insert(u) PROVE status'[t] = "NONE"
    BY <2>2, <2>4 DEF Insert, TypeInv, TypeOK
  <2>5. ASSUME NEW r \in Requests, Save(r) PROVE status'[t] = "NONE"
    BY <2>2, <2>5 DEF Save, RowInv, TypeInv, TypeOK
  <2>6. QED
    BY <2>3, <2>4, <2>5, StatusStep
<1>2. \A t \in Txns : post'[t] \in Publishing => status'[t] # "NONE"
  <2> SUFFICES ASSUME NEW t \in Txns, post'[t] \in Publishing
               PROVE  status'[t] # "NONE"
    OBVIOUS
  <2>1. post[t] \in Publishing \/ Insert(t)
    BY DEF Next, Local, PostStep, HandlerStep, UpdateStep, vars, PostRejected, PostValidated, Insert,
           PostError, PublishCreated, RepublishCreated, FinishCreated, DeleteAccount, RestoreAccount,
           Verify,
           LoadRefused, LoadPending, Save, PublishUpdated, RepublishUpdated, FinishUpdated,
           HandlerError, ApiCrash, Receive, TypeInv, TypeOK, Publishing
  <2>2. CASE post[t] \in Publishing
    BY <2>2, <1>0 DEF RowInv
  <2>3. CASE Insert(t)
    BY <2>3 DEF Insert, TypeInv, TypeOK
  <2>4. QED
    BY <2>1, <2>2, <2>3
<1>3. \A r \in Requests : handler'[r].pc = "save" => status'[handler'[r].txn] # "NONE"
  <2> SUFFICES ASSUME NEW r \in Requests, handler'[r].pc = "save"
               PROVE  status'[handler'[r].txn] # "NONE"
    OBVIOUS
  <2>1. /\ handler'[r].txn = handler[r].txn
        /\ handler[r].pc = "save" \/ LoadPending(r)
    <3>1. CASE UNCHANGED vars
      BY <3>1 DEF vars
    <3>2. ASSUME NEW q \in Requests, HandlerStep(q)
          PROVE  /\ handler'[r].txn = handler[r].txn
                 /\ handler[r].pc = "save" \/ LoadPending(r)
      <4>1. CASE LoadPending(q)
        BY <4>1 DEF LoadPending, Goto, TypeInv, TypeOK, HandlerRecord
      <4>2. CASE ~LoadPending(q)
        <5>1. \/ \E pc \in {"load", "publish", "sent", "resent"} : Goto(q, pc)
              \/ \E c \in Codes : Reply(q, c)
          BY <3>2, <4>2 DEF HandlerStep, UpdateStep, Verify, LoadRefused, Save, PublishUpdated,
             RepublishUpdated, FinishUpdated, HandlerError, Codes
        <5>2. QED
          BY <5>1 DEF Goto, Reply, TypeInv, TypeOK, HandlerRecord
      <4>3. QED
        BY <4>1, <4>2
    <3>3. CASE ApiCrash
      BY <3>3 DEF ApiCrash, TypeInv, TypeOK, HandlerRecord
    <3>4. ASSUME NEW q \in Requests, NEW t \in Txns, NEW s \in Wire, Receive(q, t, s)
          PROVE  /\ handler'[r].txn = handler[r].txn
                 /\ handler[r].pc = "save" \/ LoadPending(r)
      BY <3>4 DEF Receive, TypeInv, TypeOK
    <3>5. CASE UNCHANGED handler
      BY <3>5
    <3>6. QED
      BY <3>1, <3>2, <3>3, <3>4, <3>5
         DEF Next, Local, PostStep, PostRejected, PostValidated, Insert, PostError,
             PublishCreated, RepublishCreated, FinishCreated, DeleteAccount, RestoreAccount
  <2>2. handler[r].txn \in Txns /\ status[handler[r].txn] # "NONE"
    BY <2>1 DEF LoadPending, RowInv, TypeInv, RequestOK
  <2>3. QED
    BY <2>1, <2>2, <1>0
<1>4. EventHasRow'
  <2>1. CASE UNCHANGED created
    BY <2>1, <1>0 DEF EventHasRow, RowInv, TypeInv, TypeOK
  <2>2. ASSUME NEW t \in Txns, PublishCreated(t) \/ RepublishCreated(t)
        PROVE  EventHasRow'
    <3>1. created' = Append(created, t) /\ status[t] # "NONE" /\ UNCHANGED status
      BY <2>2 DEF PublishCreated, RepublishCreated, RowInv, Publishing
    <3>2. created \in Seq(Txns)
      BY DEF TypeInv, TypeOK
    <3>3. \A i \in DOMAIN created' :
            (i \in DOMAIN created /\ created'[i] = created[i]) \/ created'[i] = t
      BY <3>1, <3>2
    <3>4. QED
      BY <3>1, <3>3 DEF EventHasRow, RowInv
  <2>3. QED
    BY <2>1, <2>2
       DEF Next, Local, PostStep, HandlerStep, UpdateStep, vars, PostRejected, PostValidated, Insert,
           PostError, FinishCreated, DeleteAccount, RestoreAccount,
       Verify, LoadRefused, LoadPending, Save,
           PublishUpdated, RepublishUpdated, FinishUpdated, HandlerError, ApiCrash, Receive
<1>5. QED
  BY <1>1, <1>2, <1>3, <1>4 DEF RowInv

LEMMA RowInvariant == Spec => [](TypeInv /\ RowInv)
<1>1. Init => TypeInv /\ RowInv
  BY InitTypeInv, InitRowInv
<1>2. TypeInv /\ RowInv /\ [Next]_vars => (TypeInv /\ RowInv)'
  BY NextTypeInv, NextRowInv
<1>3. QED
  BY <1>1, <1>2, PTL DEF Spec

\* An event of transaction.created names a transaction that has its row: a
\* consumer that looks it up finds it, however fast it is.
THEOREM EventsHaveRows == Spec => []EventHasRow
<1>1. TypeInv /\ RowInv => EventHasRow
  BY DEF RowInv
<1>2. QED
  BY <1>1, RowInvariant, PTL

\* However many status updates overlap, a transaction that has left PENDING does
\* not come back to it.
THEOREM NeverReopens == Spec => NeverReopened
<1>1. TypeInv /\ RowInv /\ [Next]_vars =>
        [\A t \in Txns : status[t] \in Terminal => status'[t] \in Terminal]_vars
  BY StatusOnlyAdvances
<1>2. QED
  BY <1>1, RowInvariant, PTL DEF Spec, NeverReopened

-------------------------------------------------------------------------------
(* Status updates: who wrote what.                                              *)

\* A step of a request moves it on, and nothing else: it saves only what it has read
\* as PENDING, and misses only a row that is not there.
LEMMA RequestStep ==
  ASSUME TypeInv, NEW r \in Requests, HandlerStep(r)
  PROVE  /\ \A q \in Requests \ {r} : handler'[q] = handler[q]
         /\ handler'[r].txn = handler[r].txn /\ handler'[r].new = handler[r].new
         /\ handler[r].pc \in Working /\ handler'[r].pc # "idle"
         /\ handler'[r].pc = "save" => LoadPending(r)
         /\ handler'[r].code = 404 => status[handler[r].txn] = "NONE"
<1> USE DEF TypeInv, TypeOK, HandlerRecord
<1>1. ASSUME NEW pc \in HandlerPc \ {"idle"}, Goto(r, pc)
      PROVE  /\ \A q \in Requests \ {r} : handler'[q] = handler[q]
             /\ handler'[r].txn = handler[r].txn /\ handler'[r].new = handler[r].new
             /\ handler'[r].pc = pc /\ handler'[r].code = handler[r].code
  BY <1>1 DEF Goto
<1>2. ASSUME NEW c \in Codes, Reply(r, c)
      PROVE  /\ \A q \in Requests \ {r} : handler'[q] = handler[q]
             /\ handler'[r].txn = handler[r].txn /\ handler'[r].new = handler[r].new
             /\ handler'[r].pc = "replied" /\ handler'[r].code = c
  BY <1>2 DEF Reply
<1>3. handler[r].pc \in Working /\ handler[r].code = 0
  BY DEF HandlerStep, UpdateStep, Verify, LoadRefused, LoadPending, Save, PublishUpdated,
     RepublishUpdated, FinishUpdated, HandlerError, Working, Publishing, RequestOK
<1>4. CASE LoadPending(r)
  BY <1>1, <1>3, <1>4 DEF LoadPending, HandlerPc
<1>5. CASE \E pc \in {"load", "publish", "sent", "resent"} : Goto(r, pc)
  BY <1>1, <1>3, <1>5 DEF HandlerPc, Publishing
<1>6. CASE \E c \in Codes \ {404} : Reply(r, c)
  BY <1>2, <1>3, <1>6
<1>7. CASE status[handler[r].txn] = "NONE" /\ Reply(r, 404)
  BY <1>2, <1>3, <1>7 DEF Codes
<1>8. QED
  BY <1>4, <1>5, <1>6, <1>7 DEF HandlerStep, UpdateStep, Verify, LoadRefused, Save,
     PublishUpdated, RepublishUpdated, FinishUpdated, HandlerError, Codes

\* A request's record changes only by its own step, its arrival or a crash.
LEMMA LocalRecordStep ==
  ASSUME TypeInv, Local, NEW r \in Requests
  PROVE  \/ handler'[r] = handler[r]
         \/ HandlerStep(r)
         \/ handler[r].pc \in Working /\ handler'[r] = [handler[r] EXCEPT !.pc = "lost"]
<1>1. ASSUME NEW q \in Requests, HandlerStep(q), q # r PROVE handler'[r] = handler[r]
  BY <1>1, RequestStep
<1>2. ASSUME ApiCrash
      PROVE  \/ handler'[r] = handler[r]
             \/ /\ handler[r].pc \in Working
                /\ handler'[r] = [handler[r] EXCEPT !.pc = "lost"]
  BY <1>2 DEF ApiCrash
<1>3. CASE UNCHANGED handler
  BY <1>3
<1>4. QED
  BY <1>1, <1>2, <1>3
     DEF Local, PostStep, PostRejected, PostValidated, Insert, PostError,
         PublishCreated, RepublishCreated, FinishCreated, DeleteAccount, RestoreAccount

LEMMA RecordStep ==
  ASSUME TypeInv, [Next]_vars, NEW r \in Requests
  PROVE  \/ handler'[r] = handler[r]
         \/ HandlerStep(r)
         \/ handler[r].pc \in Working /\ handler'[r] = [handler[r] EXCEPT !.pc = "lost"]
         \/ handler[r].pc = "idle" /\ handler'[r].pc = "verify" /\ handler'[r].code = 0
<1>1. ASSUME NEW q \in Requests, NEW t \in Txns, NEW s \in Wire, Receive(q, t, s)
      PROVE  \/ handler'[r] = handler[r]
             \/ /\ handler[r].pc = "idle"
                /\ handler'[r].pc = "verify" /\ handler'[r].code = 0
  BY <1>1 DEF Receive, TypeInv, TypeOK
<1>2. CASE UNCHANGED vars
  BY <1>2 DEF vars
<1>3. QED
  BY <1>1, <1>2, LocalRecordStep DEF Next

\* The steps that write a row, announce it or set out to write it; the others leave
\* rows and announcements alone, and let nobody write who could not before.
LEMMA LocalKinds ==
  ASSUME TypeInv, Local
  PROVE  \/ \E t \in Txns : Insert(t)
         \/ \E r \in Requests :
              LoadPending(r) \/ Save(r) \/ PublishUpdated(r) \/ RepublishUpdated(r)
         \/ /\ UNCHANGED <<status, updated>>
            /\ \A r \in Requests : handler'[r].pc = "save" => handler'[r] = handler[r]
<1>1. ASSUME NEW r \in Requests, HandlerStep(r), ~LoadPending(r)
      PROVE  \A q \in Requests : handler'[q].pc = "save" => handler'[q] = handler[q]
  BY <1>1, RequestStep
<1>2. CASE ApiCrash
  BY <1>2 DEF ApiCrash, TypeInv, TypeOK, HandlerRecord
<1>3. QED
  BY <1>1, <1>2
     DEF Local, PostStep, HandlerStep, UpdateStep, PostRejected, PostValidated, PostError,
         PublishCreated, RepublishCreated, FinishCreated, DeleteAccount, RestoreAccount,
         Verify, LoadRefused, FinishUpdated, HandlerError

\* A request comes to say so by saving or by reading a terminal status.
LEMMA SaysSettledStep ==
  ASSUME TypeInv, [Next]_vars, NEW r \in Requests, SaysSettled(r)'
  PROVE  /\ handler'[r].txn = handler[r].txn
         /\ handler[r].txn \in Txns
         /\ SaysSettled(r) \/ Save(r) \/ status[handler[r].txn] \in Terminal
<1> USE DEF SaysSettled, Saved, TypeInv, TypeOK, HandlerRecord
<1>1. CASE handler'[r] = handler[r]
  <2>1. SaysSettled(r)
    BY <1>1
  <2>2. handler[r].pc # "idle"
    BY <2>1 DEF RequestOK, Publishing
  <2>3. QED
    BY <1>1, <2>1, <2>2 DEF RequestOK
<1>2. CASE HandlerStep(r)
  <2>1. CASE Verify(r)
    BY <2>1 DEF Verify, Goto, Reply, RequestOK, Publishing
  <2>2. CASE LoadRefused(r)
    BY <2>2 DEF LoadRefused, Reply, RequestOK, Publishing, Terminal, Statuses
  <2>3. CASE LoadPending(r)
    BY <2>3 DEF LoadPending, Goto, RequestOK, Publishing
  <2>4. CASE Save(r)
    BY <2>4 DEF Save, Goto, RequestOK
  <2>5. CASE PublishUpdated(r) \/ RepublishUpdated(r)
    BY <2>5 DEF PublishUpdated, RepublishUpdated, Goto, RequestOK, Publishing
  <2>6. CASE FinishUpdated(r)
    BY <2>6 DEF FinishUpdated, Reply, RequestOK, Publishing
  <2>7. CASE HandlerError(r)
    BY <2>7 DEF HandlerError, Reply, RequestOK, Publishing
  <2>8. QED
    BY <1>2, <2>1, <2>2, <2>3, <2>4, <2>5, <2>6, <2>7 DEF HandlerStep, UpdateStep
<1>3. CASE /\ handler[r].pc \in Working
           /\ handler'[r] = [handler[r] EXCEPT !.pc = "lost"]
  BY <1>3 DEF RequestOK, Working, Publishing
<1>4. CASE handler[r].pc = "idle" /\ handler'[r].pc = "verify" /\ handler'[r].code = 0
  BY <1>4 DEF Publishing
<1>5. QED
  BY <1>1, <1>2, <1>3, <1>4, RecordStep

LEMMA NextAnswers ==
  TypeInv /\ RowInv /\ AnswerMeansSettled /\ [Next]_vars => AnswerMeansSettled'
<1> SUFFICES ASSUME TypeInv, RowInv, AnswerMeansSettled, [Next]_vars,
                    NEW r \in Requests, SaysSettled(r)'
             PROVE  status'[handler'[r].txn] \in Terminal
  BY DEF AnswerMeansSettled
<1>1. /\ handler'[r].txn = handler[r].txn
      /\ handler[r].txn \in Txns
      /\ SaysSettled(r) \/ Save(r) \/ status[handler[r].txn] \in Terminal
  BY SaysSettledStep
<1>2. CASE SaysSettled(r) \/ status[handler[r].txn] \in Terminal
  BY <1>1, <1>2, StatusOnlyAdvances DEF AnswerMeansSettled
<1>3. CASE Save(r)
  BY <1>1, <1>3 DEF Save, TypeInv, TypeOK, RequestOK
<1>4. QED
  BY <1>1, <1>2, <1>3

\* A 200, and the 400 for a transaction that is already terminal, tell the truth
\* to the processing service and stay true.
THEOREM AnswersTellTheTruth == Spec => []AnswerMeansSettled
<1>1. Init => AnswerMeansSettled
  BY DEF Init, AnswerMeansSettled, SaysSettled, Saved, Publishing
<1>2. QED
  BY <1>1, NextAnswers, RowInvariant, PTL DEF Spec

\* A request that reads the row after another one saved it does not get to save:
\* a row can be overwritten only by a request that read it as PENDING before.
THEOREM LateReadersAreRefused == Spec => LateReaderRefused
<1>1. ASSUME TypeInv, AnswerMeansSettled, [Next]_vars, NEW q \in Requests, NEW r \in Requests,
             Saved(q), handler[r].pc = "load", handler[q].txn = handler[r].txn,
             handler'[r].pc = "save"
      PROVE  FALSE
  <2>1. status[handler[r].txn] \in Terminal
    <3>1. SaysSettled(q)
      BY <1>1 DEF SaysSettled
    <3>2. QED
      BY <1>1, <3>1 DEF AnswerMeansSettled
  <2>2. LoadPending(r)
    <3> USE DEF TypeInv, TypeOK, HandlerRecord
    <3>1. CASE HandlerStep(r)
      BY <1>1, <3>1 DEF HandlerStep, UpdateStep, Verify, LoadRefused, Save, PublishUpdated,
         RepublishUpdated, FinishUpdated, HandlerError, Goto, Reply, Publishing
    <3>2. QED
      BY <1>1, <3>1, RecordStep
  <2>3. QED
    BY <2>1, <2>2 DEF LoadPending, Terminal
<1>2. TypeInv /\ AnswerMeansSettled /\ [Next]_vars =>
        [\A q, r \in Requests :
           /\ Saved(q)
           /\ handler[r].pc = "load"
           /\ handler[q].txn = handler[r].txn
           => handler'[r].pc # "save"]_vars
  BY <1>1
<1>3. QED
  BY <1>2, RowInvariant, AnswersTellTheTruth, PTL DEF Spec, LateReaderRefused

\* What a request may have written stays attributed to it.
LEMMA WriterStays ==
  ASSUME TypeInv, [Next]_vars, NEW r \in Requests, MaybeSaved(r)
  PROVE  /\ MaybeSaved(r)'
         /\ handler'[r].txn = handler[r].txn
         /\ handler'[r].new = handler[r].new
<1> USE DEF MaybeSaved, Saved, TypeInv, TypeOK, HandlerRecord
<1>1. CASE handler'[r] = handler[r]
  BY <1>1
<1>2. CASE HandlerStep(r)
  <2>1. PublishUpdated(r) \/ RepublishUpdated(r) \/ FinishUpdated(r) \/ HandlerError(r)
    <3>1. handler[r].pc \notin {"replied", "lost"}
      BY <1>2 DEF HandlerStep, UpdateStep, Verify, LoadRefused, LoadPending, Save,
         PublishUpdated, RepublishUpdated, FinishUpdated, HandlerError, Publishing
    <3>2. handler[r].pc \in Publishing
      BY <3>1 DEF RequestOK
    <3>3. QED
      BY <1>2, <3>2 DEF HandlerStep, UpdateStep, Verify, LoadRefused, LoadPending, Save,
         Publishing
  <2>2. CASE PublishUpdated(r) \/ RepublishUpdated(r)
    BY <2>2 DEF PublishUpdated, RepublishUpdated, Goto, Publishing
  <2>3. CASE FinishUpdated(r) \/ HandlerError(r)
    BY <2>3 DEF FinishUpdated, HandlerError, Reply
  <2>4. QED
    BY <2>1, <2>2, <2>3
<1>3. CASE /\ handler[r].pc \in Working
           /\ handler'[r] = [handler[r] EXCEPT !.pc = "lost"]
  BY <1>3
<1>4. CASE handler[r].pc = "idle" /\ handler'[r].pc = "verify" /\ handler'[r].code = 0
  BY <1>4 DEF RequestOK, Publishing
<1>5. QED
  BY <1>1, <1>2, <1>3, <1>4, RecordStep

LEMMA NextStatusHasWriter ==
  TypeInv /\ StatusHasWriter /\ [Next]_vars => StatusHasWriter'
<1> SUFFICES ASSUME TypeInv, StatusHasWriter, [Next]_vars,
                    NEW t \in Txns, status'[t] \in Terminal
             PROVE  \E r \in Requests : /\ MaybeSaved(r)'
                                        /\ handler'[r].txn = t
                                        /\ handler'[r].new = status'[t]
  BY DEF StatusHasWriter
<1>1. CASE status'[t] = status[t]
  <2>1. PICK r \in Requests : /\ MaybeSaved(r)
                              /\ handler[r].txn = t
                              /\ handler[r].new = status[t]
    BY <1>1 DEF StatusHasWriter
  <2>2. QED
    BY <1>1, <2>1, WriterStays
<1>2. ASSUME NEW r \in Requests, Save(r), status'[t] # status[t]
      PROVE  /\ MaybeSaved(r)'
             /\ handler'[r].txn = t
             /\ handler'[r].new = status'[t]
  BY <1>2 DEF Save, Goto, MaybeSaved, Saved, Publishing, TypeInv, TypeOK, HandlerRecord
<1>3. ASSUME NEW u \in Txns, Insert(u), status'[t] # status[t] PROVE FALSE
  BY <1>3 DEF Insert, Terminal, TypeInv, TypeOK
<1>4. QED
  BY <1>1, <1>2, <1>3, StatusStep

\* A terminal status was asked for by a request that passed the checks: no other
\* way leads into it, a crash between save and answer included.
THEOREM StatusesHaveWriters == Spec => []StatusHasWriter
<1>1. Init => StatusHasWriter
  BY DEF Init, StatusHasWriter, Terminal
<1>2. QED
  BY <1>1, NextStatusHasWriter, RowInvariant, PTL DEF Spec

LEMMA NextUpdatedHasWriter ==
  TypeInv /\ RowInv /\ AnswerMeansSettled /\ UpdatedHasWriter /\ [Next]_vars
    => UpdatedHasWriter'
<1> SUFFICES ASSUME TypeInv, RowInv, AnswerMeansSettled, UpdatedHasWriter, [Next]_vars,
                    NEW i \in DOMAIN updated'
             PROVE  /\ status'[updated'[i][1]] \in Terminal
                    /\ \E r \in Requests : /\ MaybeSaved(r)'
                                           /\ updated'[i] = <<handler'[r].txn, handler'[r].new>>
  BY DEF UpdatedHasWriter
<1>1. CASE i \in DOMAIN updated /\ updated'[i] = updated[i]
  <2>1. PICK r \in Requests : MaybeSaved(r) /\ updated[i] = <<handler[r].txn, handler[r].new>>
    BY <1>1 DEF UpdatedHasWriter
  <2>2. updated[i][1] \in Txns /\ status[updated[i][1]] \in Terminal
    BY <1>1 DEF UpdatedHasWriter, TypeInv, TypeOK
  <2>3. QED
    BY <1>1, <2>1, <2>2, WriterStays, StatusOnlyAdvances
<1>2. ASSUME NEW r \in Requests, PublishUpdated(r) \/ RepublishUpdated(r),
             ~(i \in DOMAIN updated /\ updated'[i] = updated[i])
      PROVE  /\ status'[updated'[i][1]] \in Terminal
             /\ MaybeSaved(r)'
             /\ updated'[i] = <<handler'[r].txn, handler'[r].new>>
  <2> DEFINE event == <<handler[r].txn, handler[r].new>>
  <2>1. /\ updated' = Append(updated, event)
        /\ UNCHANGED status
        /\ Saved(r)
    BY <1>2 DEF PublishUpdated, RepublishUpdated, Saved, Publishing
  <2>2. updated \in Seq(Txns \X Terminal)
    BY DEF TypeInv, TypeOK
  <2>3. updated'[i] = event
    BY <1>2, <2>1, <2>2
  <2>4. status[handler[r].txn] \in Terminal
    <3>1. SaysSettled(r)
      BY <2>1 DEF SaysSettled
    <3>2. QED
      BY <3>1 DEF AnswerMeansSettled
  <2>5. MaybeSaved(r)' /\ handler'[r].txn = handler[r].txn /\ handler'[r].new = handler[r].new
    BY <2>1, WriterStays DEF MaybeSaved
  <2>6. QED
    BY <2>1, <2>3, <2>4, <2>5
<1>3. UNCHANGED updated \/ \E r \in Requests : PublishUpdated(r) \/ RepublishUpdated(r)
  BY DEF Next, Local, PostStep, HandlerStep, UpdateStep, vars, PostRejected, PostValidated, Insert,
         PostError, PublishCreated, RepublishCreated, FinishCreated, DeleteAccount, RestoreAccount,
           Verify,
         LoadRefused, LoadPending, Save, FinishUpdated, HandlerError, ApiCrash, Receive
<1>4. QED
  BY <1>1, <1>2, <1>3

\* Whatever transaction.updated announces was saved, and its transaction is settled.
THEOREM AnnouncementsHaveWriters == Spec => []UpdatedHasWriter
<1>1. Init => UpdatedHasWriter
  BY DEF Init, UpdatedHasWriter
<1>2. QED
  BY <1>1, NextUpdatedHasWriter, RowInvariant, AnswersTellTheTruth, PTL DEF Spec

\* A request that no other one overlapped on the way to its save is final: the row
\* keeps its status and the topic announces no other.
THEOREM SoleWritersStand == Spec => []SoleWriterStands
<1>1. TypeInv /\ AnswerMeansSettled /\ StatusHasWriter /\ UpdatedHasWriter => SoleWriterStands
  <2> SUFFICES ASSUME TypeInv, AnswerMeansSettled, StatusHasWriter, UpdatedHasWriter,
                      NEW r \in Requests, Saved(r),
                      \A q \in Requests \ {r} :
                        handler[q].txn = handler[r].txn => ~MaybeSaved(q)
               PROVE  /\ status[handler[r].txn] = handler[r].new
                      /\ \A i \in DOMAIN updated :
                           updated[i][1] = handler[r].txn => updated[i][2] = handler[r].new
    BY DEF SoleWriterStands
  <2>1. handler[r].txn \in Txns /\ status[handler[r].txn] \in Terminal
    BY DEF AnswerMeansSettled, SaysSettled, Saved, TypeInv, TypeOK, RequestOK, Publishing
  <2>2. PICK q \in Requests : /\ MaybeSaved(q)
                              /\ handler[q].txn = handler[r].txn
                              /\ handler[q].new = status[handler[r].txn]
    BY <2>1 DEF StatusHasWriter
  <2>3. q = r
    BY <2>2
  <2>4. ASSUME NEW i \in DOMAIN updated, updated[i][1] = handler[r].txn
        PROVE  updated[i][2] = handler[r].new
    <3>1. PICK p \in Requests : MaybeSaved(p) /\ updated[i] = <<handler[p].txn, handler[p].new>>
      BY <2>4 DEF UpdatedHasWriter
    <3>2. p = r
      BY <2>4, <3>1
    <3>3. QED
      BY <3>1, <3>2
  <2>5. QED
    BY <2>2, <2>3, <2>4
<1>2. QED
  BY <1>1, RowInvariant, AnswersTellTheTruth, StatusesHaveWriters, AnnouncementsHaveWriters,
     PTL

\* An account that is deleted, and of which no earlier POST still has its INSERT to
\* do, gets no transaction until a PATCH brings it back.
THEOREM ClosedAccountsTakeNone == Spec => ClosedAccountTakesNone
<1>1. ASSUME TypeInv, RowInv, [Next]_vars, NEW a \in Accounts, Closed(a), a \in deleted',
             NEW t \in Txns
      PROVE  /\ ~(post'[t] = "insert" /\ body'[t].account = a)
             /\ status[t] = "NONE" /\ status'[t] # "NONE" => body[t].account # a
  <2>1. CASE UNCHANGED <<post, body, status>>
    BY <1>1, <2>1 DEF Closed
  <2>2. CASE PostRejected(t) \/ PostValidated(t) \/ PostStep(t)
    <3>1. ASSUME PostValidated(t)
          PROVE  body'[t].account \notin deleted /\ status'[t] = status[t]
      <4>1. PICK u \in Users, b \in Bodies :
              ValidBody(u, b) /\ body' = [body EXCEPT ![t] = b] /\ UNCHANGED status
        BY <3>1 DEF PostValidated
      <4>2. body'[t] = b
        BY <1>1, <4>1 DEF TypeInv, TypeOK
      <4>3. QED
        BY <4>1, <4>2 DEF ValidBody
    <3>2. ASSUME Insert(t)
          PROVE  post'[t] # "insert" /\ body[t].account # a
      BY <1>1, <3>2 DEF Insert, Closed, TypeInv, TypeOK
    <3>3. ASSUME \/ PostRejected(t) \/ PostError(t) \/ PublishCreated(t)
                 \/ RepublishCreated(t) \/ FinishCreated(t)
          PROVE  post'[t] # "insert" /\ status'[t] = status[t]
      BY <1>1, <3>3 DEF PostRejected, PostError, PublishCreated, RepublishCreated,
                        FinishCreated, TypeInv, TypeOK
    <3>4. a \in deleted
      BY <1>1 DEF Closed
    <3>5. CASE PostValidated(t)
      BY <3>1, <3>4, <3>5
    <3>6. CASE Insert(t)
      BY <3>2, <3>6
    <3>7. CASE \/ PostRejected(t) \/ PostError(t) \/ PublishCreated(t)
               \/ RepublishCreated(t) \/ FinishCreated(t)
      BY <3>3, <3>7
    <3>8. QED
      BY <2>2, <3>5, <3>6, <3>7 DEF PostStep
  <2>3. ASSUME NEW r \in Requests, Save(r)
        PROVE  /\ ~(post'[t] = "insert" /\ body'[t].account = a)
               /\ status[t] = "NONE" /\ status'[t] # "NONE" => body[t].account # a
    <3>1. post' = post /\ body' = body
      BY <2>3 DEF Save
    <3>2. status[t] = "NONE" => status'[t] = status[t]
      BY <1>1, <2>3 DEF Save, RowInv, TypeInv, TypeOK
    <3>3. QED
      BY <1>1, <3>1, <3>2 DEF Closed
  <2>4. CASE ApiCrash
    <3>1. body' = body /\ status' = status /\ post'[t] # "insert"
      BY <2>4 DEF ApiCrash, Working
    <3>2. QED
      BY <3>1
  <2>5. ASSUME NEW p \in Txns \ {t}, PostRejected(p) \/ PostValidated(p) \/ PostStep(p)
        PROVE  post'[t] = post[t] /\ body'[t] = body[t] /\ status'[t] = status[t]
    BY <1>1, <2>5
       DEF TypeInv, TypeOK, PostRejected, PostValidated, PostStep, Insert, PostError,
           PublishCreated, RepublishCreated, FinishCreated
  <2>6. ASSUME post'[t] = post[t], body'[t] = body[t], status'[t] = status[t]
        PROVE  /\ ~(post'[t] = "insert" /\ body'[t].account = a)
               /\ status[t] = "NONE" /\ status'[t] # "NONE" => body[t].account # a
    BY <1>1, <2>6 DEF Closed
  <2>7. QED
    BY <1>1, <2>1, <2>2, <2>3, <2>4, <2>5, <2>6
       DEF Next, Local, HandlerStep, UpdateStep, vars, DeleteAccount, RestoreAccount, Verify,
           LoadRefused, LoadPending, PublishUpdated, RepublishUpdated, FinishUpdated,
           HandlerError, Receive
<1>2. ASSUME TypeInv, RowInv, [Next]_vars, NEW a \in Accounts, Closed(a), a \in deleted'
      PROVE  /\ Closed(a)'
             /\ \A t \in Txns :
                  status[t] = "NONE" /\ status'[t] # "NONE" => body[t].account # a
  BY <1>1, <1>2 DEF Closed
<1>3. TypeInv /\ RowInv /\ [Next]_vars
      => [\A a \in Accounts :
            Closed(a) /\ a \in deleted' =>
              /\ Closed(a)'
              /\ \A t \in Txns :
                   status[t] = "NONE" /\ status'[t] # "NONE" => body[t].account # a]_vars
  BY <1>2
<1>4. QED
  BY <1>3, RowInvariant, PTL DEF Spec, ClosedAccountTakesNone
-------------------------------------------------------------------------------
(* How much a POST publishes.                                                   *)

Positions(t) == {i \in DOMAIN created : created[i] = t}

\* The topic knows a transaction from its publication on, once, and a second time
\* only where an acknowledgement may be lost.
TopicInv ==
  \A t \in Txns :
    /\ post[t] \in {"idle", "insert", "publish", "rejected", "failed"} => Positions(t) = {}
    /\ post[t] = "sent" \/ ~AckLoss => \E i : Positions(t) \subseteq {i}
    /\ \E i, j : Positions(t) \subseteq {i, j}

LEMMA InitTopicInv == Init => TopicInv
<1>1. ASSUME Init, NEW t \in Txns PROVE Positions(t) = {}
  BY <1>1 DEF Init, Positions
<1>2. QED
  BY <1>1 DEF TopicInv

\* Publishing adds a position to one transaction.
LEMMA AppendPosition ==
  ASSUME TypeInv, NEW t \in Txns, created' = Append(created, t)
  PROVE  /\ Positions(t)' = Positions(t) \cup {Len(created) + 1}
         /\ \A u \in Txns : u # t => Positions(u)' = Positions(u)
<1>1. created \in Seq(Txns) /\ Len(created) \in Nat
  BY DEF TypeInv, TypeOK
<1>2. /\ DOMAIN created = 1..Len(created) /\ DOMAIN created' = 1..(Len(created) + 1)
      /\ \A i \in 1..Len(created) : created'[i] = created[i]
      /\ created'[Len(created) + 1] = t
  BY <1>1
<1>3. QED
  BY <1>1, <1>2 DEF Positions

LEMMA NextTopicInv == TypeInv /\ TopicInv /\ [Next]_vars => TopicInv'
<1> SUFFICES ASSUME TypeInv, TopicInv, [Next]_vars PROVE TopicInv'
  OBVIOUS
<1>1. ASSUME NEW t \in Txns, PublishCreated(t) \/ RepublishCreated(t) PROVE TopicInv'
  <2> DEFINE n == Len(created) + 1
  <2>1. /\ Positions(t)' = Positions(t) \cup {n}
        /\ \A u \in Txns : u # t => Positions(u)' = Positions(u) /\ post'[u] = post[u]
    BY <1>1, AppendPosition DEF PublishCreated, RepublishCreated, TypeInv, TypeOK
  <2> HIDE DEF n
  <2>2. ASSUME /\ post'[t] = "sent" \/ ~AckLoss => \E i : Positions(t)' \subseteq {i}
               /\ \E i, j : Positions(t)' \subseteq {i, j}
               /\ post'[t] \in {"sent", "resent"}
        PROVE  TopicInv'
    <3> SUFFICES ASSUME NEW u \in Txns
                 PROVE  /\ post'[u] \in {"idle", "insert", "publish", "rejected", "failed"}
                             => Positions(u)' = {}
                        /\ post'[u] = "sent" \/ ~AckLoss => \E i : Positions(u)' \subseteq {i}
                        /\ \E i, j : Positions(u)' \subseteq {i, j}
      BY DEF TopicInv
    <3>1. CASE u = t
      BY <2>2, <3>1
    <3>2. CASE u # t
      BY <2>1, <3>2 DEF TopicInv
    <3>3. QED
      BY <3>1, <3>2
  <2>3. CASE PublishCreated(t)
    <3>1. post[t] = "publish" /\ post'[t] = "sent"
      BY <2>3 DEF PublishCreated, TypeInv, TypeOK
    <3>2. Positions(t)' \subseteq {n} /\ Positions(t)' \subseteq {n, n}
      BY <2>1, <3>1 DEF TopicInv
    <3>3. QED
      BY <2>2, <3>1, <3>2
  <2>4. CASE RepublishCreated(t)
    <3>1. AckLoss /\ post[t] = "sent" /\ post'[t] = "resent"
      BY <2>4 DEF RepublishCreated, TypeInv, TypeOK
    <3>2. PICK i : Positions(t) \subseteq {i}
      BY <3>1 DEF TopicInv
    <3>3. Positions(t)' \subseteq {i, n}
      BY <2>1, <3>2
    <3>4. QED
      BY <2>2, <3>1, <3>3
  <2>5. QED
    BY <1>1, <2>3, <2>4
<1>3. ASSUME UNCHANGED created,
             \A t \in Txns : \/ post'[t] = post[t]
                             \/ /\ post'[t] = "sent" => post[t] = "sent"
                                /\ post'[t] \in {"idle", "insert", "publish", "rejected", "failed"}
                                     => post[t] \in {"idle", "insert"}
      PROVE  TopicInv'
  <2>1. \A t : Positions(t)' = Positions(t)
    BY <1>3 DEF Positions
  <2>2. QED
    BY <1>3, <2>1 DEF TopicInv
<1>4. CASE UNCHANGED <<created, post>>
  BY <1>3, <1>4
<1>5. ASSUME NEW t \in Txns,
             PostRejected(t) \/ PostValidated(t) \/ Insert(t) \/ PostError(t) \/ FinishCreated(t)
      PROVE  TopicInv'
  BY <1>3, <1>5 DEF PostRejected, PostValidated, Insert, PostError, FinishCreated, TypeInv, TypeOK
<1>6. CASE ApiCrash
  BY <1>3, <1>6 DEF ApiCrash
<1>7. QED
  BY <1>1, <1>4, <1>5, <1>6
     DEF Next, Local, PostStep, HandlerStep, UpdateStep, vars, DeleteAccount, RestoreAccount,
         Verify, LoadRefused, LoadPending, Save, PublishUpdated, RepublishUpdated,
         FinishUpdated, HandlerError, Receive

LEMMA TopicInvariant == Spec => [](TypeInv /\ RowInv /\ TopicInv)
  BY InitTopicInv, NextTopicInv, RowInvariant, PTL DEF Spec

\* However often the producer resends, the topic stays as short as two events for
\* each transaction, or one where no acknowledgement is lost.
LEMMA TopicIsBounded ==
  ASSUME TypeInv, TopicInv, IsFiniteSet(Txns)
  PROVE  Len(created) <= (IF AckLoss THEN 2 * Cardinality(Txns) ELSE Cardinality(Txns))
<1>1. created \in Seq(Txns) /\ Len(created) \in Nat /\ DOMAIN created = 1..Len(created)
  BY DEF TypeInv, TypeOK
<1>2. IsFiniteSet(1..Len(created)) /\ Cardinality(1..Len(created)) = Len(created)
  BY <1>1, FS_Interval
<1>3. Cardinality(Txns) \in Nat
  BY FS_CardinalityType
<1>4. CASE ~AckLoss
  <2> DEFINE f == [i \in 1..Len(created) |-> created[i]]
  <2>1. f \in [1..Len(created) -> Txns]
    BY <1>1
  <2>2. ASSUME NEW i \in 1..Len(created), NEW j \in 1..Len(created), f[i] = f[j]
        PROVE  i = j
    <3>1. i \in Positions(created[i]) /\ j \in Positions(created[i])
      BY <1>1, <2>2 DEF Positions
    <3>2. created[i] \in Txns
      BY <1>1
    <3>3. QED
      BY <1>4, <3>1, <3>2 DEF TopicInv
  <2> HIDE DEF f
  <2>3. ~(Cardinality(Txns) < Cardinality(1..Len(created)))
    BY <1>2, <2>1, <2>2, FS_PigeonHole
  <2>4. QED
    BY <1>1, <1>2, <1>3, <1>4, <2>3
<1>5. CASE AckLoss
  <2> DEFINE again(i) == \E j \in 1..(i - 1) : created[j] = created[i]
             f == [i \in 1..Len(created) |-> <<created[i], IF again(i) THEN 2 ELSE 1>>]
  <2>1. f \in [1..Len(created) -> Txns \X {1, 2}]
    BY <1>1
  <2>2. ASSUME NEW i \in 1..Len(created), NEW j \in 1..Len(created), f[i] = f[j], i < j
        PROVE  FALSE
    <3>1. created[i] = created[j] /\ again(i) <=> again(j)
      BY <2>2
    <3>2. again(j)
      BY <1>1, <2>2, <3>1
    <3>3. PICK h \in 1..(i - 1) : created[h] = created[i]
      BY <3>1, <3>2
    <3>4. {h, i, j} \subseteq Positions(created[i]) /\ created[i] \in Txns
      BY <1>1, <2>2, <3>1, <3>3 DEF Positions
    <3>5. PICK k, l : Positions(created[i]) \subseteq {k, l}
      BY <3>4 DEF TopicInv
    <3>6. h < i /\ i < j
      BY <1>1, <2>2, <3>3
    <3>7. QED
      BY <1>1, <3>4, <3>5, <3>6
  <2> HIDE DEF f
  <2>3. ASSUME NEW i \in 1..Len(created), NEW j \in 1..Len(created), f[i] = f[j]
        PROVE  i = j
    BY <1>1, <2>2, <2>3
  <2>4. IsFiniteSet(Txns \X {1, 2}) /\ Cardinality(Txns \X {1, 2}) = 2 * Cardinality(Txns)
    <3>1. IsFiniteSet({1, 2}) /\ Cardinality({1, 2}) = 2
      <4>1. IsFiniteSet({1}) /\ Cardinality({1}) = 1
        BY FS_Singleton
      <4>2. {1, 2} = {1} \cup {2} /\ 2 \notin {1}
        OBVIOUS
      <4>3. /\ IsFiniteSet({1} \cup {2})
            /\ Cardinality({1} \cup {2}) = Cardinality({1}) + 1
        BY <4>1, <4>2, FS_AddElement
      <4>4. QED
        BY <4>1, <4>2, <4>3
    <3>2. QED
      BY <1>3, <3>1, FS_Product
  <2>5. ~(Cardinality(Txns \X {1, 2}) < Cardinality(1..Len(created)))
    BY <1>2, <2>1, <2>3, <2>4, FS_PigeonHole
  <2>6. QED
    BY <1>1, <1>2, <1>3, <1>5, <2>4, <2>5
<1>6. QED
  BY <1>4, <1>5, ApiAssumption
===============================================================================
