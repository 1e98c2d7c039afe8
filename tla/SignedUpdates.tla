----------------------------- MODULE SignedUpdates -----------------------------
(***************************************************************************)
(* The status update behind its HMAC check: the guard (HmacGuard) and the  *)
(* transaction endpoints (TransactionApi) of one account service process,  *)
(* whose restart forgets the nonces, ends the requests and keeps the rows. *)
(* A copy of a signed message is one request, so copies name both.         *)
(*                                                                         *)
(* The transactions are there from the start, their POSTs over and their   *)
(* events lost; the account endpoints are left out.  No update depends on  *)
(* either.                                                                 *)
(***************************************************************************)
EXTENDS HmacGuard

CONSTANTS
  Txns, Accounts, Users, Owner, Kinds, Amounts, Deletable, AckLoss,  \* as in TransactionApi
  TxnOf, StatusOf,     \* what each message asks for
  Forgeries            \* the <<transaction, status>> pairs damaged copies ask for

VARIABLES status, body, post, handler, created, updated, deleted, balance

Api == INSTANCE TransactionApi
         WITH Requests <- Copies, MaxCrashes <- MaxRestarts, crashes <- life

ASSUME MessageAssumption ==
  /\ TxnOf \in [Messages -> Txns]
  /\ StatusOf \in [Messages -> Api!Terminal]
  /\ Forgeries \subseteq Txns \X Api!Wire
  /\ Owner \in [Accounts -> Users]
  /\ Kinds \subseteq {"DEBIT", "CREDIT"}
  /\ Amounts \subseteq Int
  /\ AckLoss \in BOOLEAN
  /\ Nil \notin Txns

apiVars == <<status, body, post, handler, created, updated, deleted, balance>>
allVars == <<vars, apiVars>>

UpdatesInit ==
  /\ Init
  /\ status = [t \in Txns |-> "PENDING"]
  /\ body \in [Txns -> Api!Bodies]
  /\ post = [t \in Txns |-> "created"]
  /\ handler = [c \in Copies |-> [pc |-> "idle", txn |-> Nil, new |-> Nil, code |-> 0]]
  /\ created = <<>>
  /\ updated = <<>>
  /\ deleted = {}
  /\ balance = [a \in Accounts |-> 0]

\* A copy arrives.  An intact one asks for what was signed, a damaged one for what
\* it happens to: the digest is about the path and the body.
ArriveUpdate(c, m) ==
  \/ Arrive(c, m, TRUE) /\ Api!Receive(c, TxnOf[m], StatusOf[m])
  \/ /\ Arrive(c, m, FALSE)
     /\ \E forgery \in Forgeries : Api!Receive(c, forgery[1], forgery[2])

\* Mutant: the view goes on whatever the verdict is.
VerifyUpdateIgnored(c) ==
  /\ VerifyStep(c)
  /\ \/ copy'[c].pc \in Verifying /\ UNCHANGED apiVars
     \/ copy'[c].pc \notin Verifying /\ Api!Verify(c) /\ handler'[c].pc = "load"

\* A step of verify_hmac_request; with its verdict the view goes on or the request is
\* over, answered 401 or, where compare_digest raised, 500.
VerifyUpdate(c) ==
  /\ VerifyStep(c)
  /\ \/ copy'[c].pc \in Verifying /\ UNCHANGED apiVars
     \/ copy'[c].pc = "accepted" /\ Api!Verify(c) /\ handler'[c].pc = "load"
     \/ copy'[c].pc = "refused" /\ Api!Verify(c) /\ handler'[c].pc = "replied"

\* The service stops and starts: both halves of it do.
RestartService == Restart /\ Api!ApiCrash

UpdatesNext ==
  \/ (Tick \/ \E m \in Messages : Sign(m)) /\ UNCHANGED apiVars
  \/ \E c \in Copies, m \in Messages : ArriveUpdate(c, m)
  \/ \E c \in Copies : VerifyUpdate(c)
  \/ \E c \in Copies : Api!UpdateStep(c) /\ UNCHANGED vars
  \/ RestartService

UpdatesSpec == UpdatesInit /\ [][UpdatesNext]_allVars

-------------------------------------------------------------------------------
(* Properties *)

\* A transaction is settled as some signed message asks, whatever damaged copies
\* of messages ask for.
SettledAsSigned ==
  \A t \in Txns : status[t] \in Api!Terminal =>
    \E c \in Copies : /\ Accepted(c)
                      /\ copy[c].intact
                      /\ TxnOf[copy[c].msg] = t
                      /\ StatusOf[copy[c].msg] = status[t]

\* Copies of one message alone never change a settled transaction again, also after
\* a restart that forgot the nonce: that takes an accepted copy of another message.
ReplayChangesNothing ==
  [][\A t \in Txns :
       status[t] \in Api!Terminal /\ status'[t] # status[t] =>
         \E c, d \in Copies : /\ Accepted(c) /\ Accepted(d)
                              /\ copy[c].msg # copy[d].msg
                              /\ {TxnOf[copy[c].msg], TxnOf[copy[d].msg]} = {t}]_allVars
===============================================================================
