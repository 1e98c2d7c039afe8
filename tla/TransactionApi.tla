---------------------------- MODULE TransactionApi ----------------------------
(***************************************************************************)
(* The account service's transaction endpoints.                            *)
(*                                                                         *)
(* manage.py runserver gives every request a thread of its own and Django  *)
(* runs in autocommit, so each read and each write of a row is a step and  *)
(* the steps of two requests interleave.  POST /api/transactions/ is the   *)
(* pc post[t] of the transaction it creates; a PATCH of                    *)
(* /api/internal/transactions/<id>/ is a handler record per request.       *)
(* publish_event appends to a Kafka topic, may fail, and with AckLoss may  *)
(* append twice: the producer resends (retries=1) an event whose           *)
(* acknowledgement was lost.                                               *)
(***************************************************************************)
EXTENDS Integers, Sequences

CONSTANTS
  Txns,                \* transaction ids, one POST each
  Accounts, Users,     \* account and user ids
  Owner,               \* the user an account belongs to
  Kinds, Amounts,      \* the transaction types and amounts clients send
  Deletable,           \* bound: the accounts that are deleted now and then
  Requests,            \* status update requests, each sent once
  AckLoss,             \* may the broker's acknowledgement be lost?
  MaxCrashes,          \* bound: crashes of the account service
  Nil                  \* no value

ASSUME ApiAssumption ==
  /\ Owner \in [Accounts -> Users]
  /\ Kinds \subseteq {"DEBIT", "CREDIT"}
  /\ Amounts \subseteq Int
  /\ AckLoss \in BOOLEAN
  /\ MaxCrashes \in Nat
  /\ Nil \notin Txns

VARIABLES
  status,              \* transactions.status, "NONE" without a row
  body,                \* what the POST of a transaction asks for, once validated
  post,                \* where the POST that creates a transaction stands
  handler,             \* where each status update request stands
  created,             \* topic transaction.created: the ids published, in order
  updated,             \* topic transaction.updated: <<id, status>> pairs, in order
  deleted,             \* accounts with is_deleted set
  balance,             \* accounts.balance
  crashes              \* crashes so far

vars == <<status, body, post, handler, created, updated, deleted, balance, crashes>>

-------------------------------------------------------------------------------
\* Transaction.Status.  "ABSENT" is a PATCH without a status, "PENDING" stands
\* for every value validate_status refuses.
Terminal == {"COMPLETED", "FAILED"}
Statuses == {"NONE", "PENDING"} \cup Terminal
Wire     == {"PENDING", "ABSENT"} \cup Terminal
Bodies   == [account : Accounts, kind : Kinds, amount : Amounts]

\* A request is at one of these steps while a thread works on it.
Publishing == {"publish", "sent", "resent"}
Working    == {"verify", "load", "insert", "save"} \cup Publishing
PostPc     == {"idle", "insert", "created", "rejected", "failed", "lost"} \cup Publishing
HandlerPc  == {"idle", "verify", "load", "save", "replied", "lost"} \cup Publishing
Codes      == {0, 200, 400, 401, 404, 500}
HandlerRecord ==
  [pc : HandlerPc, txn : Txns \cup {Nil}, new : Wire \cup {Nil}, code : Codes]

Init ==
  /\ status = [t \in Txns |-> "NONE"]
  /\ body = [t \in Txns |-> Nil]
  /\ post = [t \in Txns |-> "idle"]
  /\ handler = [r \in Requests |-> [pc |-> "idle", txn |-> Nil, new |-> Nil, code |-> 0]]
  /\ created = <<>>
  /\ updated = <<>>
  /\ deleted = {}
  /\ balance = [a \in Accounts |-> 0]
  /\ crashes = 0

-------------------------------------------------------------------------------
(* POST /api/transactions/ and DELETE /api/accounts/<id>/ *)

\* Mutant: validate_account does not look at is_deleted.
ValidBodyAny(u, b) ==
  /\ b.amount > 0
  /\ Owner[b.account] = u

\* validate_amount and validate_account of TransactionCreateSerializer.
ValidBody(u, b) ==
  /\ b.amount > 0
  /\ Owner[b.account] = u
  /\ b.account \notin deleted

\* The serializer refuses the body: 400, nothing is written.
PostRejected(t) ==
  /\ post[t] = "idle"
  /\ \E u \in Users, b \in Bodies : ~ValidBody(u, b)
  /\ post' = [post EXCEPT ![t] = "rejected"]
  /\ UNCHANGED <<status, body, handler, created, updated, deleted, balance, crashes>>

\* The serializer accepts the body; it read the account row to do so.
PostValidated(t) ==
  /\ post[t] = "idle"
  /\ \E u \in Users, b \in Bodies :
       /\ ValidBody(u, b)
       /\ body' = [body EXCEPT ![t] = b]
  /\ post' = [post EXCEPT ![t] = "insert"]
  /\ UNCHANGED <<status, handler, created, updated, deleted, balance, crashes>>

\* serializer.save(status=PENDING): the row is committed.
Insert(t) ==
  /\ post[t] = "insert"
  /\ status' = [status EXCEPT ![t] = "PENDING"]
  /\ post' = [post EXCEPT ![t] = "publish"]
  /\ UNCHANGED <<body, handler, created, updated, deleted, balance, crashes>>

\* The INSERT raises: 500, no row and no event.
PostError(t) ==
  /\ post[t] = "insert"
  /\ post' = [post EXCEPT ![t] = "failed"]
  /\ UNCHANGED <<status, body, handler, created, updated, deleted, balance, crashes>>

\* Mutant: the event is sent before the row is committed.
PublishCreatedEarly(t) ==
  /\ post[t] \in {"insert", "publish"}
  /\ created' = Append(created, t)
  /\ post' = [post EXCEPT ![t] = "sent"]
  /\ UNCHANGED <<status, body, handler, updated, deleted, balance, crashes>>

\* producer.send reaches the broker.
PublishCreated(t) ==
  /\ post[t] = "publish"
  /\ created' = Append(created, t)
  /\ post' = [post EXCEPT ![t] = "sent"]
  /\ UNCHANGED <<status, body, handler, updated, deleted, balance, crashes>>

\* The acknowledgement is lost and the producer sends the event once more.
RepublishCreated(t) ==
  /\ AckLoss
  /\ post[t] = "sent"
  /\ created' = Append(created, t)
  /\ post' = [post EXCEPT ![t] = "resent"]
  /\ UNCHANGED <<status, body, handler, updated, deleted, balance, crashes>>

\* publish_event returns, True or False: the view ignores which and answers 201.
FinishCreated(t) ==
  /\ post[t] \in Publishing
  /\ post' = [post EXCEPT ![t] = "created"]
  /\ UNCHANGED <<status, body, handler, created, updated, deleted, balance, crashes>>

\* AccountDetailView.destroy: soft_delete of an account that is not deleted.
DeleteAccount(a) ==
  /\ a \in Deletable \ deleted
  /\ deleted' = deleted \cup {a}
  /\ UNCHANGED <<status, body, post, handler, created, updated, balance, crashes>>

\* AccountDetailView.update of an account that it read before the deletion: the
\* save writes every column back, is_deleted too (module SoftDelete).
RestoreAccount(a) ==
  /\ a \in deleted
  /\ deleted' = deleted \ {a}
  /\ UNCHANGED <<status, body, post, handler, created, updated, balance, crashes>>

-------------------------------------------------------------------------------
(* PATCH /api/internal/transactions/<id>/ *)

Goto(r, pc) == handler' = [handler EXCEPT ![r].pc = pc]
Reply(r, c) == handler' = [handler EXCEPT ![r].pc = "replied", ![r].code = c]

\* A request for the transaction with id t and status s reaches the service.
Receive(r, t, s) ==
  /\ handler[r].pc = "idle"
  /\ handler' = [handler EXCEPT ![r] = [pc |-> "verify", txn |-> t, new |-> s, code |-> 0]]
  /\ UNCHANGED <<status, body, post, created, updated, deleted, balance, crashes>>

\* verify_hmac_request accepts the request (module HmacGuard), refuses it, 401, or
\* raises, 500: compare_digest takes no signature with other than ASCII characters.
Verify(r) ==
  /\ handler[r].pc = "verify"
  /\ Goto(r, "load") \/ Reply(r, 401) \/ Reply(r, 500)
  /\ UNCHANGED <<status, body, post, created, updated, deleted, balance, crashes>>

\* Mutant: the row is written before its old status is looked at.
LoadRefusedLate(r) ==
  /\ handler[r].pc = "load"
  /\ status[handler[r].txn] \in Terminal
  /\ handler[r].new \in Terminal
  /\ status' = [status EXCEPT ![handler[r].txn] = handler[r].new]
  /\ Reply(r, 400)
  /\ UNCHANGED <<body, post, created, updated, deleted, balance, crashes>>

\* get_object reads the row; the serializer and the view's own check then judge
\* the request by that one reading.  Every way to refuse it:
LoadRefused(r) ==
  /\ handler[r].pc = "load"
  /\ LET old == status[handler[r].txn]
         new == handler[r].new
     IN  \/ old = "NONE" /\ Reply(r, 404)                          \* get_object
         \/ old # "NONE" /\ new = "PENDING" /\ Reply(r, 400)       \* validate_status
         \/ old # "NONE" /\ new = "ABSENT" /\ Reply(r, 500)        \* KeyError: status
         \/ old \in Terminal /\ new \in Terminal /\ Reply(r, 400)  \* already terminal
  /\ UNCHANGED <<status, body, post, created, updated, deleted, balance, crashes>>

\* Mutant: validate_status is gone, every value passes.
LoadPendingAny(r) ==
  /\ handler[r].pc = "load"
  /\ status[handler[r].txn] = "PENDING"
  /\ Goto(r, "save")
  /\ UNCHANGED <<status, body, post, created, updated, deleted, balance, crashes>>

\* Mutant: the check of the old status is gone.
LoadUnchecked(r) ==
  /\ handler[r].pc = "load"
  /\ status[handler[r].txn] # "NONE"
  /\ handler[r].new \in Terminal
  /\ Goto(r, "save")
  /\ UNCHANGED <<status, body, post, created, updated, deleted, balance, crashes>>

\* The row was PENDING and the new status is allowed: go on to write it.
LoadPending(r) ==
  /\ handler[r].pc = "load"
  /\ status[handler[r].txn] = "PENDING"
  /\ handler[r].new \in Terminal
  /\ Goto(r, "save")
  /\ UNCHANGED <<status, body, post, created, updated, deleted, balance, crashes>>

\* Mutant: the row is completed, whatever status was asked for.
SaveCompleted(r) ==
  /\ handler[r].pc = "save"
  /\ status' = [status EXCEPT ![handler[r].txn] = "COMPLETED"]
  /\ Goto(r, "publish")
  /\ UNCHANGED <<body, post, created, updated, deleted, balance, crashes>>

\* txn.save(update_fields=[...]) writes the status whatever the row holds by now.
Save(r) ==
  /\ handler[r].pc = "save"
  /\ status' = [status EXCEPT ![handler[r].txn] = handler[r].new]
  /\ Goto(r, "publish")
  /\ UNCHANGED <<body, post, created, updated, deleted, balance, crashes>>

\* Mutant: the event is published before the row is saved.
PublishUpdatedEarly(r) ==
  /\ handler[r].pc \in {"save", "publish"}
  /\ updated' = Append(updated, <<handler[r].txn, handler[r].new>>)
  /\ Goto(r, "sent")
  /\ UNCHANGED <<status, body, post, created, deleted, balance, crashes>>

\* publish_event(transaction.updated) reaches the broker ...
PublishUpdated(r) ==
  /\ handler[r].pc = "publish"
  /\ updated' = Append(updated, <<handler[r].txn, handler[r].new>>)
  /\ Goto(r, "sent")
  /\ UNCHANGED <<status, body, post, created, deleted, balance, crashes>>

\* ... and, its acknowledgement lost, reaches it again.
RepublishUpdated(r) ==
  /\ AckLoss
  /\ handler[r].pc = "sent"
  /\ updated' = Append(updated, <<handler[r].txn, handler[r].new>>)
  /\ Goto(r, "resent")
  /\ UNCHANGED <<status, body, post, created, deleted, balance, crashes>>

\* Mutant: the view saves and publishes again until the event is out.
FinishUpdatedRetrying(r) ==
  /\ handler[r].pc \in Publishing
  /\ IF handler[r].pc = "publish" THEN Goto(r, "save") ELSE Reply(r, 200)
  /\ UNCHANGED <<status, body, post, created, updated, deleted, balance, crashes>>

\* publish_event returns, True or False, and the view answers 200 with the row and the
\* id of its account, which it reads to that end.
FinishUpdated(r) ==
  /\ handler[r].pc \in Publishing
  /\ Reply(r, 200)
  /\ UNCHANGED <<status, body, post, created, updated, deleted, balance, crashes>>

\* Mutant: a failing database is reported like a settled transaction.
HandlerErrorHidden(r) ==
  /\ handler[r].pc \in {"load", "save"} \cup Publishing
  /\ Reply(r, 400)
  /\ UNCHANGED <<status, body, post, created, updated, deleted, balance, crashes>>

\* The database refuses the read, the write or, with the row saved and publish_event
\* over, the read of the account for the answer: 500 each time.
HandlerError(r) ==
  /\ handler[r].pc \in {"load", "save"} \cup Publishing
  /\ Reply(r, 500)
  /\ UNCHANGED <<status, body, post, created, updated, deleted, balance, crashes>>

-------------------------------------------------------------------------------
\* The service stops and is started again: the requests it was working on end
\* unanswered, the rows and the topics stay.
ApiCrash ==
  /\ crashes < MaxCrashes
  /\ crashes' = crashes + 1
  /\ post' = [t \in Txns |-> IF post[t] \in Working THEN "lost" ELSE post[t]]
  /\ handler' = [r \in Requests |->
                   IF handler[r].pc \in Working
                   THEN [handler[r] EXCEPT !.pc = "lost"] ELSE handler[r]]
  /\ UNCHANGED <<status, body, created, updated, deleted, balance>>

PostStep(t) ==
  \/ Insert(t) \/ PostError(t) \/ PublishCreated(t) \/ RepublishCreated(t)
  \/ FinishCreated(t)

\* What the view does with a request that verify_hmac_request let through.
UpdateStep(r) ==
  \/ LoadRefused(r) \/ LoadPending(r) \/ Save(r)
  \/ PublishUpdated(r) \/ RepublishUpdated(r) \/ FinishUpdated(r) \/ HandlerError(r)

HandlerStep(r) == Verify(r) \/ UpdateStep(r)

\* Everything the service does on its own, apart from receiving a status update.
Local ==
  \/ \E t \in Txns : PostRejected(t) \/ PostValidated(t) \/ PostStep(t)
  \/ \E a \in Accounts : DeleteAccount(a) \/ RestoreAccount(a)
  \/ \E r \in Requests : HandlerStep(r)
  \/ ApiCrash

Next ==
  \/ Local
  \/ \E r \in Requests, t \in Txns, s \in Wire : Receive(r, t, s)

Spec == Init /\ [][Next]_vars

\* The operating system runs every thread: a request that was taken up goes on.
\* No request has to arrive, and nothing has to crash.
Fairness ==
  /\ \A t \in Txns : WF_vars(PostStep(t))
  /\ \A r \in Requests : WF_vars(HandlerStep(r))

FairSpec == Spec /\ Fairness

-------------------------------------------------------------------------------
(* Properties *)

TypeOK ==
  /\ status \in [Txns -> Statuses]
  /\ body \in [Txns -> Bodies \cup {Nil}]
  /\ post \in [Txns -> PostPc]
  /\ handler \in [Requests -> HandlerRecord]
  /\ created \in Seq(Txns)
  /\ updated \in Seq(Txns \X Terminal)
  /\ deleted \subseteq Accounts
  /\ balance \in [Accounts -> Int]
  /\ crashes \in 0..MaxCrashes

\* Request r is past txn.save; one that was answered 500 or not at all may have been.
Saved(r)      == handler[r].pc \in Publishing \/ handler[r].code = 200
MaybeSaved(r) == Saved(r) \/ handler[r].pc = "lost" \/ handler[r].code = 500

\* Request r is answered, or is about to be, that its transaction is settled.
SaysSettled(r) == Saved(r) \/ (handler[r].code = 400 /\ handler[r].new \in Terminal)

\* perform_create publishes after the row is committed: whoever reads the event
\* finds the transaction.
EventHasRow == \A i \in DOMAIN created : status[created[i]] # "NONE"

\* A transaction that has left PENDING never returns to it, whatever requests
\* overlap: validate_status and the check before the save together see to that.
NeverReopened ==
  [][\A t \in Txns : status[t] \in Terminal => status'[t] \in Terminal]_vars

\* A terminal status is one that a request asked for whose answer leaves room for it:
\* never one of a request that was refused, 400, 401 or 404.
StatusHasWriter ==
  \A t \in Txns : status[t] \in Terminal =>
    \E r \in Requests : /\ MaybeSaved(r)
                        /\ handler[r].txn = t
                        /\ handler[r].new = status[t]

\* An event of transaction.updated is about a settled transaction and carries
\* what such a request asked for: the view publishes after the save.
UpdatedHasWriter ==
  \A i \in DOMAIN updated :
    /\ status[updated[i][1]] \in Terminal
    /\ \E r \in Requests : /\ MaybeSaved(r)
                           /\ updated[i] = <<handler[r].txn, handler[r].new>>

\* 200, and the 400 of a well-formed request ("already in terminal state"), both
\* tell the caller that the transaction is settled.
AnswerMeansSettled ==
  \A r \in Requests : SaysSettled(r) => status[handler[r].txn] \in Terminal

\* A request that saved, and beside which every other request about the transaction
\* was refused or has not got to its save, is the one whose status the row keeps and
\* the topic announces.  An error and a crash do not tell whether there was a save.
SoleWriterStands ==
  \A r \in Requests :
    /\ Saved(r)
    /\ \A q \in Requests \ {r} : handler[q].txn = handler[r].txn => ~MaybeSaved(q)
    => /\ status[handler[r].txn] = handler[r].new
       /\ \A i \in DOMAIN updated :
            updated[i][1] = handler[r].txn => updated[i][2] = handler[r].new

\* Once a request has saved, a request for the same transaction that reads the
\* row afterwards is refused: only one that read it before can overwrite it.
LateReaderRefused ==
  [][\A q, r \in Requests :
       /\ Saved(q)
       /\ handler[r].pc = "load"
       /\ handler[q].txn = handler[r].txn
       => handler'[r].pc # "save"]_vars

\* A deleted account on which no POST was validated before its deletion takes no
\* further transaction, as long as no PATCH of the account brings it back: the gap
\* between validate_account and the INSERT is as wide as that one request.
Closed(a) ==
  a \in deleted /\ \A t \in Txns : ~(post[t] = "insert" /\ body[t].account = a)
ClosedAccountTakesNone ==
  [][\A a \in Accounts :
       Closed(a) /\ a \in deleted' =>
         /\ Closed(a)'
         /\ \A t \in Txns :
              status[t] = "NONE" /\ status'[t] # "NONE" => body[t].account # a]_vars

\* Every request that was taken up is answered, whether or not Kafka answers,
\* unless the service crashes under it.
EveryRequestAnswered ==
  /\ \A t \in Txns :
       post[t] = "insert" ~> post[t] \in {"created", "failed", "lost"}
  /\ \A r \in Requests :
       handler[r].pc = "verify" ~> handler[r].pc \in {"replied", "lost"}

(* What the documentation says and the code does not do. *)

\* README.md:27: completing a transaction moves its account's balance.
CompletionMovesBalance ==
  [][\A t \in Txns :
       status[t] = "PENDING" /\ status'[t] = "COMPLETED" =>
         balance'[body[t].account] =
           balance[body[t].account]
             + (IF body[t].kind = "CREDIT" THEN body[t].amount ELSE -body[t].amount)]_vars
===============================================================================
