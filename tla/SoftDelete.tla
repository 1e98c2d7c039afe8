------------------------------ MODULE SoftDelete ------------------------------
(***************************************************************************)
(* Users and accounts: registration, creation, change and soft deletion of *)
(* rows.                                                                   *)
(*                                                                         *)
(* Every row is a BaseModel: deleting it sets is_deleted and keeps the     *)
(* row.  A request authenticates (one read of the user's row), reads the   *)
(* row it is about and writes it, and the steps of two requests interleave.*)
(* A PATCH writes back ALL the columns it read (DRF's update ends in       *)
(* instance.save()), a DELETE only the deletion columns.  A handler that   *)
(* has answered takes up another request, so the number of requests has no *)
(* bound.                                                                  *)
(***************************************************************************)
EXTENDS Naturals

CONSTANTS
  Users, Accounts,     \* the ids rows can get
  Owner,               \* the user an account is opened for
  Emails, Names,       \* e-mail addresses, and what a PATCH can change
  Requests,            \* request handlers (threads)
  Nil                  \* no value

Rows   == Users \cup Accounts
Record == [name : Names, deleted : BOOLEAN]

ASSUME RowsAssumption ==
  /\ Owner \in [Accounts -> Users]
  /\ Users \cap Accounts = {}
  /\ Nil \notin Rows \cup Emails \cup Names \cup Record

VARIABLES
  row,                 \* tables users and accounts: Nil, or name and is_deleted
  email,               \* users.email
  handler              \* where each request stands

vars == <<row, email, handler>>

Ops    == {"none", "register", "open", "change", "delete"}
Pc     == {"idle", "validate", "auth", "insert", "load", "write"}
Codes  == {0, 200, 201, 400, 401, 403, 404, 500}
HandlerRecord ==
  [pc : Pc, op : Ops, user : Users \cup {Nil}, target : Rows \cup {Nil},
   arg : Emails \cup Names \cup {Nil}, seen : Record \cup {Nil}, code : Codes]

Idle == [pc |-> "idle", op |-> "none", user |-> Nil, target |-> Nil,
         arg |-> Nil, seen |-> Nil, code |-> 0]

Init ==
  /\ row = [x \in Rows |-> Nil]
  /\ email = [u \in Users |-> Nil]
  /\ handler = [r \in Requests |-> Idle]

\* The user who may see a row: get_queryset and get_object of the detail views.
OwnerOf(x) == IF x \in Users THEN x ELSE Owner[x]
Live(x)    == row[x] # Nil /\ ~row[x].deleted

Goto(r, pc)  == handler' = [handler EXCEPT ![r].pc = pc]
Answer(r, c) == handler' = [handler EXCEPT ![r] = [Idle EXCEPT !.code = c]]
Take(r, rec) == handler[r].pc = "idle" /\ handler' = [handler EXCEPT ![r] = rec]

-------------------------------------------------------------------------------
(* POST /api/users/: no authentication *)

Register(r, e) ==
  /\ Take(r, [Idle EXCEPT !.pc = "validate", !.op = "register", !.arg = e])
  /\ UNCHANGED <<row, email>>

\* UserCreateSerializer: a weak password or a missing field is a 400, and so is an
\* e-mail the UniqueValidator finds.  It asks UserManager, which hides deleted rows.
RegisterRefused(r) ==
  /\ handler[r].pc = "validate"
  /\ Answer(r, 400)
  /\ UNCHANGED <<row, email>>

RegisterValid(r) ==
  /\ handler[r].pc = "validate"
  /\ ~\E u \in Users : Live(u) /\ email[u] = handler[r].arg
  /\ Goto(r, "insert")
  /\ UNCHANGED <<row, email>>

\* Some row, deleted or not, has the e-mail: the column is unique.
Taken(e) == \E u \in Users : row[u] # Nil /\ email[u] = e

\* Mutant: the column is unique among the rows that are not deleted.
InsertUserLiveOnly(r) ==
  /\ handler[r].pc = "insert"
  /\ handler[r].op = "register"
  /\ ~\E v \in Users : Live(v) /\ email[v] = handler[r].arg
  /\ \E u \in Users, n \in Names :
       /\ row[u] = Nil
       /\ row' = [row EXCEPT ![u] = [name |-> n, deleted |-> FALSE]]
       /\ email' = [email EXCEPT ![u] = handler[r].arg]
  /\ Answer(r, 201)

\* user.save() inserts the row under a fresh id.
InsertUser(r) ==
  /\ handler[r].pc = "insert"
  /\ handler[r].op = "register"
  /\ ~Taken(handler[r].arg)
  /\ \E u \in Users, n \in Names :
       /\ row[u] = Nil
       /\ row' = [row EXCEPT ![u] = [name |-> n, deleted |-> FALSE]]
       /\ email' = [email EXCEPT ![u] = handler[r].arg]
  /\ Answer(r, 201)

\* The database refuses the duplicate; the exception handler knows no
\* IntegrityError, so the answer is a 500.
InsertDuplicate(r) ==
  /\ handler[r].pc = "insert"
  /\ handler[r].op = "register"
  /\ Taken(handler[r].arg)
  /\ Answer(r, 500)
  /\ UNCHANGED <<row, email>>

-------------------------------------------------------------------------------
(* Requests of a user: POST, PATCH and DELETE *)

\* A request with user u's token: u was registered when it was issued.
Request(r, u, op, x, n) ==
  /\ row[u] # Nil
  /\ Take(r, [Idle EXCEPT !.pc = "auth", !.op = op, !.user = u, !.target = x, !.arg = n])
  /\ UNCHANGED <<row, email>>

Open(r, u)         == Request(r, u, "open", Nil, Nil)
Change(r, u, x, n) == Request(r, u, "change", x, n)
Delete(r, u, x)    == Request(r, u, "delete", x, Nil)

\* Mutant: the token's user is looked up without the manager's filter.
AuthenticateAny(r) ==
  /\ handler[r].pc = "auth"
  /\ Goto(r, IF handler[r].op = "open" THEN "insert" ELSE "load")
  /\ UNCHANGED <<row, email>>

\* JWTAuthentication reads the user through UserManager.
Authenticate(r) ==
  /\ handler[r].pc = "auth"
  /\ Live(handler[r].user)
  /\ Goto(r, IF handler[r].op = "open" THEN "insert" ELSE "load")
  /\ UNCHANGED <<row, email>>

\* An expired token, or a user who is deleted.
AuthRefused(r) ==
  /\ handler[r].pc = "auth"
  /\ Answer(r, 401)
  /\ UNCHANGED <<row, email>>

\* AccountListCreateView.perform_create.
InsertAccount(r) ==
  /\ handler[r].pc = "insert"
  /\ handler[r].op = "open"
  /\ \E a \in Accounts, n \in Names :
       /\ row[a] = Nil
       /\ Owner[a] = handler[r].user
       /\ row' = [row EXCEPT ![a] = [name |-> n, deleted |-> FALSE]]
  /\ Answer(r, 201)
  /\ UNCHANGED email

Visible(r) == Live(handler[r].target) /\ OwnerOf(handler[r].target) = handler[r].user

\* The row is read into the handler.
LoadRow(r) ==
  /\ handler' = [handler EXCEPT ![r] =
                   [@ EXCEPT !.pc = "write", !.seen = row[handler[r].target]]]
  /\ UNCHANGED <<row, email>>

\* Mutant: the queryset does not filter on is_deleted.
LoadDeleted(r) ==
  /\ handler[r].pc = "load"
  /\ row[handler[r].target] # Nil
  /\ OwnerOf(handler[r].target) = handler[r].user
  /\ LoadRow(r)

\* Mutant: the queryset does not filter on the user.
LoadForeign(r) ==
  /\ handler[r].pc = "load"
  /\ Live(handler[r].target)
  /\ LoadRow(r)

\* Mutant: a lookup that does not insist on finding a row.
LoadMissing(r) ==
  /\ handler[r].pc = "load"
  /\ LoadRow(r)

\* get_object finds a row of the user's own.
Load(r) ==
  /\ handler[r].pc = "load"
  /\ Visible(r)
  /\ LoadRow(r)

\* It finds none, an account of somebody else included, or another's profile (403).
LoadRefused(r) ==
  /\ handler[r].pc = "load"
  /\ ~Visible(r)
  /\ Answer(r, IF handler[r].target \in Users /\ Live(handler[r].target) THEN 403 ELSE 404)
  /\ UNCHANGED <<row, email>>

\* The serializer refuses the body of a POST or a PATCH.
BodyRefused(r) ==
  /\ \/ handler[r].pc = "insert" /\ handler[r].op = "open"
     \/ handler[r].pc = "write" /\ handler[r].op = "change"
  /\ Answer(r, 400)
  /\ UNCHANGED <<row, email>>

\* update(): every column of the row as it was read, changed by the body.
SaveChange(r) ==
  /\ handler[r].pc = "write"
  /\ handler[r].op = "change"
  /\ row' = [row EXCEPT ![handler[r].target] =
               [handler[r].seen EXCEPT !.name = handler[r].arg]]
  /\ Answer(r, 200)
  /\ UNCHANGED email

\* soft_delete(): save(update_fields = is_deleted, deleted_at, updated_at).
SaveDelete(r) ==
  /\ handler[r].pc = "write"
  /\ handler[r].op = "delete"
  /\ row' = [row EXCEPT ![handler[r].target].deleted = TRUE]
  /\ Answer(r, 200)
  /\ UNCHANGED email

\* The database fails under a read or a write (SQLite: it is locked): 500.
DatabaseError(r) ==
  /\ handler[r].pc \in Pc \ {"idle"}
  /\ Answer(r, 500)
  /\ UNCHANGED <<row, email>>

\* The service stops and starts again: what the threads knew is gone.
Crash ==
  /\ handler' = [r \in Requests |-> Idle]
  /\ UNCHANGED <<row, email>>

Step(r) ==
  \/ RegisterRefused(r) \/ RegisterValid(r) \/ InsertUser(r) \/ InsertDuplicate(r)
  \/ Authenticate(r) \/ AuthRefused(r) \/ InsertAccount(r)
  \/ Load(r) \/ LoadRefused(r) \/ BodyRefused(r) \/ SaveChange(r) \/ SaveDelete(r)
  \/ DatabaseError(r)

Arrive(r) ==
  \/ \E e \in Emails : Register(r, e)
  \/ \E u \in Users : Open(r, u)
  \/ \E u \in Users, x \in Rows, n \in Names : Change(r, u, x, n)
  \/ \E u \in Users, x \in Rows : Delete(r, u, x)

Next ==
  \/ \E r \in Requests : Arrive(r) \/ Step(r)
  \/ Crash

Spec == Init /\ [][Next]_vars

-------------------------------------------------------------------------------
(* Properties *)

TypeOK ==
  /\ row \in [Rows -> Record \cup {Nil}]
  /\ email \in [Users -> Emails \cup {Nil}]
  /\ handler \in [Requests -> HandlerRecord]
  /\ \A r \in Requests : handler[r].pc = "write" => handler[r].seen \in Record

\* Request r holds a copy of row x that it is about to write back.
Holds(r, x) == handler[r].pc = "write" /\ handler[r].target = x

\* Request r has been authenticated as user u and is not answered yet.
ActsFor(r, u) == handler[r].pc \in {"insert", "load", "write"} /\ handler[r].user = u

\* An e-mail belongs to one user for ever: registrations that overlap, and the
\* deletion of a user or the return of a deleted one, never make two rows of it.
EmailsUnique ==
  \A u, v \in Users : row[u] # Nil /\ row[v] # Nil /\ email[u] = email[v] => u = v

\* Row x is deleted and no request that read it before is left; and the same of a
\* deleted user and the requests authenticated before.
Gone(x)  == row[x] # Nil /\ row[x].deleted /\ \A r \in Requests : ~Holds(r, x)
Quiet(u) == row[u] # Nil /\ row[u].deleted /\ \A r \in Requests : ~ActsFor(r, u)

\* From then on a deleted row is out of every request's reach and stays as it is:
\* the querysets hide it, whatever sequence of requests follows.
DeletionSticks == [][\A x \in Rows : Gone(x) => Gone(x)' /\ row'[x] = row[x]]_vars

\* From then on nothing of what a deleted user owns changes or is added: a token
\* outlives its user for an hour, but no longer opens anything.
DeletedUserIsQuiet ==
  [][\A u \in Users : Quiet(u) =>
       Quiet(u)' /\ \A x \in Rows : OwnerOf(x) = u => row'[x] = row[x]]_vars

\* A row that exists changes only in the last step of a request about it that was
\* authenticated as its owner.
OnlyOwnersWrite ==
  [][\A x \in Rows :
       row[x] # Nil /\ row'[x] # row[x] =>
         \E r \in Requests : /\ ActsFor(r, OwnerOf(x))
                             /\ handler[r].target = x
                             /\ handler'[r].pc = "idle"]_vars

(* What a comment says and the code does not do. *)

\* AccountUpdateSerializer: "only name and is_active can change".  A PATCH that
\* read its row before a DELETE would then leave is_deleted as the DELETE set it.
DeletedStaysDeleted ==
  [][\A x \in Rows : row[x] # Nil /\ row[x].deleted => row'[x] # Nil /\ row'[x].deleted]_vars
===============================================================================
