---------------------------- MODULE SoftDeleteProofs ----------------------------
(***************************************************************************)
(* Soft deletion for any number of users, accounts, e-mail addresses and   *)
(* request handlers.                                                       *)
(***************************************************************************)
EXTENDS SoftDelete, TLAPS

\* What a request has at hand at each point.
RequestOK(h) ==
  /\ h \in HandlerRecord
  /\ h.pc = "validate" => h.op = "register"
  /\ h.pc \in {"auth", "load", "write"} => h.user \in Users
  /\ h.pc = "auth" => h.op \in {"open", "change", "delete"}
  /\ h.pc \in {"load", "write"} => h.op \in {"change", "delete"}
  /\ h.pc # "idle" /\ h.op = "register" => h.user = Nil /\ h.arg \in Emails
  /\ h.pc # "idle" /\ h.op = "open" => h.user \in Users
  /\ h.pc # "idle" /\ h.op \in {"change", "delete"} => h.target \in Rows
  /\ h.pc # "idle" /\ h.op = "change" => h.arg \in Names
  /\ h.pc = "write" => h.seen \in Record /\ OwnerOf(h.target) = h.user

\* A request about to write has found its row, and rows stay.
RowFound == \A r \in Requests : handler[r].pc = "write" => row[handler[r].target] # Nil

TypeInv ==
  /\ row \in [Rows -> Record \cup {Nil}]
  /\ email \in [Users -> Emails \cup {Nil}]
  /\ handler \in [Requests -> HandlerRecord]
  /\ \A r \in Requests : RequestOK(handler[r])
  /\ RowFound

\* Request r moves to h, the others stay where they are.
Moves(r, h) == handler' = [handler EXCEPT ![r] = h]

LEMMA IdleTyped == Idle \in HandlerRecord
  BY DEF Idle, HandlerRecord, Pc, Ops, Codes

LEMMA IdleOK == \A c \in Codes : RequestOK([Idle EXCEPT !.code = c])
  BY RowsAssumption DEF RequestOK, Idle, HandlerRecord, Pc, Ops, Codes

LEMMA MovesOK ==
  ASSUME TypeInv, NEW r \in Requests, NEW h, RequestOK(h), Moves(r, h)
  PROVE  /\ handler' \in [Requests -> HandlerRecord]
         /\ \A q \in Requests : RequestOK(handler'[q])
         /\ handler'[r] = h
         /\ \A q \in Requests : q # r => handler'[q] = handler[q]
  BY DEF TypeInv, RequestOK, Moves

-------------------------------------------------------------------------------
(* Each action as one move of one request *)

\* A request that ends: whatever the answer, it knows nothing any more.
LEMMA AnswerMoves ==
  ASSUME TypeInv, NEW r \in Requests, NEW c \in Codes, Answer(r, c)
  PROVE  /\ RequestOK(handler'[r]) /\ handler'[r].pc = "idle"
         /\ Moves(r, handler'[r])
<1>1. handler' = [handler EXCEPT ![r] = [Idle EXCEPT !.code = c]]
  BY DEF Answer
<1>2. handler'[r] = [Idle EXCEPT !.code = c]
  BY <1>1 DEF TypeInv
<1>3. QED
  BY <1>1, <1>2, IdleOK DEF Moves, Idle

LEMMA GotoMoves ==
  ASSUME TypeInv, NEW r \in Requests, NEW pc \in Pc, Goto(r, pc)
  PROVE  /\ handler'[r] = [handler[r] EXCEPT !.pc = pc]
         /\ Moves(r, handler'[r])
  BY DEF TypeInv, Goto, Moves

\* The steps that change no row, by what they leave the request with: a request
\* that arrives, one whose body or token is accepted, one that has read its row.
Arrived(h)       == h.pc \in {"validate", "auth"}
Admitted(g, h)   == /\ h.user = g.user /\ h.pc \in {"insert", "load"}
                    /\ h.user \in Users => Live(h.user)
Reading(g, h)    == /\ h.user = g.user /\ g.pc = "load" /\ h.pc = "write"
                    /\ h.target \in Rows /\ Live(h.target)
Quietly(r)       == /\ UNCHANGED <<row, email>>
                    /\ RequestOK(handler'[r]) /\ Moves(r, handler'[r])
                    /\ \/ Arrived(handler'[r])
                       \/ Admitted(handler[r], handler'[r])
                       \/ Reading(handler[r], handler'[r])
                       \/ handler'[r].pc = "idle"

\* The steps that write, all of which end their request.
Ends(r) == RequestOK(handler'[r]) /\ handler'[r].pc = "idle" /\ Moves(r, handler'[r])
Registers(r) ==
  /\ \E u \in Users, v \in Record, e \in Emails :
       /\ row[u] = Nil /\ ~Taken(e)
       /\ row' = [row EXCEPT ![u] = v]
       /\ email' = [email EXCEPT ![u] = e]
Opens(r) ==
  /\ ActsFor(r, handler[r].user) /\ handler[r].user \in Users
  /\ \E a \in Accounts, v \in Record :
       /\ row[a] = Nil /\ Owner[a] = handler[r].user
       /\ row' = [row EXCEPT ![a] = v]
  /\ UNCHANGED email
Writes(r) ==
  /\ handler[r].pc = "write"
  /\ \E v \in Record : row' = [row EXCEPT ![handler[r].target] = v]
  /\ UNCHANGED email
OneMove(r) == Quietly(r) \/ (Ends(r) /\ (Registers(r) \/ Opens(r) \/ Writes(r)))

LEMMA TakeMoves ==
  ASSUME TypeInv, NEW r \in Requests, NEW h, RequestOK(h), Arrived(h), Take(r, h),
         UNCHANGED <<row, email>>
  PROVE  OneMove(r)
<1>1. handler'[r] = h /\ Moves(r, h)
  BY DEF Take, Moves, TypeInv
<1>2. QED
  BY <1>1 DEF OneMove, Quietly

LEMMA ArriveMoves ==
  ASSUME TypeInv, NEW r \in Requests, Arrive(r)
  PROVE  OneMove(r)
<1>1. ASSUME NEW e \in Emails, Register(r, e) PROVE OneMove(r)
  <2> DEFINE h == [Idle EXCEPT !.pc = "validate", !.op = "register", !.arg = e]
  <2>1. RequestOK(h) /\ Arrived(h)
    BY RowsAssumption DEF RequestOK, Arrived, Idle, HandlerRecord, Pc, Ops, Codes
  <2> HIDE DEF h
  <2>2. Take(r, h) /\ UNCHANGED <<row, email>>
    BY <1>1 DEF Register, h
  <2>3. QED
    BY <2>1, <2>2, TakeMoves
<1>2. ASSUME NEW u \in Users, NEW op \in {"open", "change", "delete"},
             NEW x \in Rows \cup {Nil}, NEW n \in Names \cup {Nil},
             op # "open" => x \in Rows, op = "change" => n \in Names,
             Request(r, u, op, x, n)
      PROVE  OneMove(r)
  <2> DEFINE h == [Idle EXCEPT !.pc = "auth", !.op = op, !.user = u, !.target = x, !.arg = n]
  <2>0. h \in HandlerRecord /\ h.pc = "auth" /\ h.op = op /\ h.user = u /\ h.target = x /\ h.arg = n
    <3> DEFINE f == [Idle EXCEPT !.pc = "auth", !.op = op]
               g == [f EXCEPT !.user = u]
    <3>1. Idle \in HandlerRecord
      BY IdleTyped
    <3>2. f \in HandlerRecord /\ f.pc = "auth" /\ f.op = op
      BY <3>1 DEF HandlerRecord, Pc, Ops
    <3>3. h = [g EXCEPT !.target = x, !.arg = n]
      OBVIOUS
    <3> HIDE DEF f, h
    <3>4. g \in HandlerRecord /\ g.pc = "auth" /\ g.op = op /\ g.user = u
      BY <3>2 DEF HandlerRecord
    <3> HIDE DEF g
    <3>5. QED
      BY <3>3, <3>4 DEF HandlerRecord
  <2> HIDE DEF h
  <2>1. RequestOK(h) /\ Arrived(h)
    <3>1. op \in {"change", "delete"} => x \in Rows
      BY <1>2
    <3>2. op = "change" => n \in Names
      BY <1>2
    <3>3. QED
      BY <2>0, <3>1, <3>2 DEF RequestOK, Arrived
  <2>2. Take(r, h) /\ UNCHANGED <<row, email>>
    BY <1>2 DEF Request, h
  <2>3. QED
    BY <2>1, <2>2, TakeMoves
<1>3. ASSUME NEW u \in Users, Open(r, u) PROVE OneMove(r)
  BY <1>2, <1>3 DEF Open
<1>4. ASSUME NEW u \in Users, NEW x \in Rows, NEW n \in Names, Change(r, u, x, n)
      PROVE  OneMove(r)
  BY <1>2, <1>4 DEF Change
<1>5. ASSUME NEW u \in Users, NEW x \in Rows, Delete(r, u, x) PROVE OneMove(r)
  BY <1>2, <1>5 DEF Delete
<1>6. QED
  BY <1>1, <1>3, <1>4, <1>5 DEF Arrive

LEMMA RefusalMoves ==
  ASSUME TypeInv, NEW r \in Requests,
         RegisterRefused(r) \/ InsertDuplicate(r) \/ AuthRefused(r) \/ LoadRefused(r)
           \/ BodyRefused(r) \/ DatabaseError(r)
  PROVE  OneMove(r)
<1>1. PICK c \in Codes : Answer(r, c)
  BY DEF RegisterRefused, InsertDuplicate, AuthRefused, LoadRefused, BodyRefused,
         DatabaseError, Codes
<1>2. UNCHANGED <<row, email>>
  BY DEF RegisterRefused, InsertDuplicate, AuthRefused, LoadRefused, BodyRefused,
         DatabaseError
<1>3. QED
  BY <1>1, <1>2, AnswerMoves DEF OneMove, Quietly

LEMMA AdmissionMoves ==
  ASSUME TypeInv, NEW r \in Requests, RegisterValid(r) \/ Authenticate(r)
  PROVE  OneMove(r)
<1>0. handler[r] \in HandlerRecord /\ RequestOK(handler[r])
  BY DEF TypeInv
<1>1. CASE RegisterValid(r)
  <2>1. handler'[r] = [handler[r] EXCEPT !.pc = "insert"] /\ Moves(r, handler'[r])
    BY <1>1, GotoMoves DEF RegisterValid, Pc
  <2>2. RequestOK(handler'[r]) /\ Admitted(handler[r], handler'[r])
    BY <1>0, <1>1, <2>1, RowsAssumption
    DEF RegisterValid, RequestOK, Admitted, HandlerRecord, Pc, Rows
  <2>3. QED
    BY <1>1, <2>1, <2>2 DEF OneMove, Quietly, RegisterValid
<1>2. CASE Authenticate(r)
  <2> DEFINE next == IF handler[r].op = "open" THEN "insert" ELSE "load"
  <2>1. handler'[r] = [handler[r] EXCEPT !.pc = next] /\ Moves(r, handler'[r])
    BY <1>2, GotoMoves DEF Authenticate, Pc
  <2>2. RequestOK(handler'[r]) /\ Admitted(handler[r], handler'[r])
    BY <1>0, <1>2, <2>1 DEF Authenticate, RequestOK, Admitted, HandlerRecord, Pc
  <2>3. QED
    BY <1>2, <2>1, <2>2 DEF OneMove, Quietly, Authenticate
<1>3. QED
  BY <1>1, <1>2

LEMMA LoadMoves ==
  ASSUME TypeInv, NEW r \in Requests, Load(r)
  PROVE  OneMove(r)
<1>0. handler[r] \in HandlerRecord /\ RequestOK(handler[r]) /\ handler[r].pc = "load"
  BY DEF TypeInv, Load
<1>1. handler[r].target \in Rows
  BY <1>0 DEF RequestOK
<1>2. row[handler[r].target] \in Record
  BY <1>1 DEF TypeInv, Load, Visible, Live
<1>3. /\ handler'[r] = [handler[r] EXCEPT !.pc = "write", !.seen = row[handler[r].target]]
      /\ Moves(r, handler'[r])
  BY DEF Load, LoadRow, Moves, TypeInv
<1>4. RequestOK(handler'[r]) /\ Reading(handler[r], handler'[r])
  BY <1>0, <1>1, <1>2, <1>3 DEF RequestOK, Reading, Load, Visible, HandlerRecord, Pc
<1>5. QED
  BY <1>3, <1>4 DEF OneMove, Quietly, Load, LoadRow

LEMMA WriteMoves ==
  ASSUME TypeInv, NEW r \in Requests,
         InsertUser(r) \/ InsertAccount(r) \/ SaveChange(r) \/ SaveDelete(r)
  PROVE  OneMove(r)
<1>0. handler[r] \in HandlerRecord /\ RequestOK(handler[r])
  BY DEF TypeInv
<1>1. PICK c \in Codes : Answer(r, c)
  BY DEF InsertUser, InsertAccount, SaveChange, SaveDelete, Codes
<1>2. Ends(r)
  BY <1>1, AnswerMoves DEF Ends
<1>3. CASE InsertUser(r)
  <2>1. handler[r].arg \in Emails
    BY <1>0, <1>3 DEF InsertUser, RequestOK
  <2>2. PICK u \in Users, n \in Names :
          /\ row[u] = Nil
          /\ row' = [row EXCEPT ![u] = [name |-> n, deleted |-> FALSE]]
          /\ email' = [email EXCEPT ![u] = handler[r].arg]
    BY <1>3 DEF InsertUser
  <2>3. [name |-> n, deleted |-> FALSE] \in Record
    BY DEF Record
  <2>4. Registers(r)
    BY <1>3, <2>1, <2>2, <2>3 DEF Registers, InsertUser
  <2>5. QED
    BY <1>2, <2>4 DEF OneMove
<1>4. CASE InsertAccount(r)
  <2>1. PICK a \in Accounts, n \in Names :
          /\ row[a] = Nil
          /\ Owner[a] = handler[r].user
          /\ row' = [row EXCEPT ![a] = [name |-> n, deleted |-> FALSE]]
    BY <1>4 DEF InsertAccount
  <2>2. [name |-> n, deleted |-> FALSE] \in Record
    BY DEF Record
  <2>3. ActsFor(r, handler[r].user) /\ handler[r].user \in Users
    BY <1>0, <1>4 DEF ActsFor, InsertAccount, RequestOK
  <2>4. Opens(r)
    BY <1>4, <2>1, <2>2, <2>3 DEF Opens, InsertAccount
  <2>5. QED
    BY <1>2, <2>4 DEF OneMove
<1>5. CASE SaveChange(r)
  <2> DEFINE v == [handler[r].seen EXCEPT !.name = handler[r].arg]
  <2>1. v \in Record
    BY <1>0, <1>5 DEF SaveChange, RequestOK, Record
  <2>2. Writes(r)
    BY <1>5, <2>1 DEF Writes, SaveChange
  <2>3. QED
    BY <1>2, <2>2 DEF OneMove
<1>6. CASE SaveDelete(r)
  <2> DEFINE x == handler[r].target
             v == [row[x] EXCEPT !.deleted = TRUE]
  <2>1. x \in Rows /\ row[x] \in Record
    BY <1>0, <1>6 DEF SaveDelete, RequestOK, TypeInv, RowFound
  <2>2. v \in Record
    BY <2>1 DEF Record
  <2>3. row' = [row EXCEPT ![x] = v]
    BY <1>6, <2>1 DEF SaveDelete, TypeInv
  <2>4. Writes(r)
    BY <1>6, <2>2, <2>3 DEF Writes, SaveDelete
  <2>5. QED
    BY <1>2, <2>4 DEF OneMove
<1>7. QED
  BY <1>3, <1>4, <1>5, <1>6

\* Every step is a move of one request, a crash or a stutter.
LEMMA NextMoves ==
  ASSUME TypeInv, [Next]_vars
  PROVE  (\E r \in Requests : OneMove(r)) \/ Crash \/ UNCHANGED vars
<1>1. ASSUME NEW r \in Requests, Step(r) PROVE OneMove(r)
  BY <1>1, RefusalMoves, AdmissionMoves, LoadMoves, WriteMoves DEF Step
<1>2. QED
  BY <1>1, ArriveMoves DEF Next

-------------------------------------------------------------------------------
(* Type correctness *)

LEMMA CrashIdles ==
  ASSUME Crash
  PROVE  /\ \A r \in Requests : handler'[r] = Idle /\ RequestOK(Idle) /\ Idle.pc = "idle"
         /\ handler' \in [Requests -> HandlerRecord]
         /\ UNCHANGED <<row, email>>
<1>1. RequestOK(Idle) /\ Idle \in HandlerRecord /\ Idle.pc = "idle"
  BY RowsAssumption DEF RequestOK, Idle, HandlerRecord, Pc, Ops, Codes
<1>2. QED
  BY <1>1 DEF Crash

LEMMA InitTypeInv == Init => TypeInv
<1>1. RequestOK(Idle) /\ Idle \in HandlerRecord /\ Idle.pc = "idle"
  BY RowsAssumption DEF RequestOK, Idle, HandlerRecord, Pc, Ops, Codes
<1>2. QED
  BY <1>1 DEF Init, TypeInv, RowFound

\* What a move does to the rows: one row is written, with a row.
LEMMA RowsStay ==
  ASSUME TypeInv, NEW r \in Requests, OneMove(r)
  PROVE  /\ row' \in [Rows -> Record \cup {Nil}]
         /\ email' \in [Users -> Emails \cup {Nil}]
         /\ \A x \in Rows : row[x] # Nil => row'[x] # Nil
<1>0. Nil \notin Record
  BY RowsAssumption
<1>1. CASE Quietly(r)
  BY <1>1 DEF Quietly, TypeInv
<1>2. CASE Registers(r)
  BY <1>0, <1>2 DEF Registers, TypeInv, Rows
<1>3. CASE Opens(r)
  BY <1>0, <1>3 DEF Opens, TypeInv, Rows
<1>4. CASE Writes(r)
  BY <1>0, <1>4 DEF Writes, TypeInv
<1>5. QED
  BY <1>1, <1>2, <1>3, <1>4 DEF OneMove

LEMMA NextTypeInv == TypeInv /\ [Next]_vars => TypeInv'
<1> SUFFICES ASSUME TypeInv, [Next]_vars PROVE TypeInv'
  OBVIOUS
<1>1. ASSUME NEW r \in Requests, OneMove(r) PROVE TypeInv'
  <2>1. RequestOK(handler'[r]) /\ Moves(r, handler'[r])
    BY <1>1 DEF OneMove, Quietly, Ends
  <2>2. /\ handler' \in [Requests -> HandlerRecord]
        /\ \A q \in Requests : RequestOK(handler'[q])
        /\ \A q \in Requests : q # r => handler'[q] = handler[q]
    BY <2>1, MovesOK
  <2>3. ASSUME NEW q \in Requests, handler'[q].pc = "write"
        PROVE  row'[handler'[q].target] # Nil
    <3>1. handler'[q].target \in Rows
      BY <2>2, <2>3 DEF RequestOK
    <3>2. row[handler'[q].target] # Nil
      <4>1. CASE q # r
        BY <2>2, <2>3, <4>1 DEF TypeInv, RowFound
      <4>2. CASE q = r
        BY <1>1, <2>3, <4>2
        DEF OneMove, Quietly, Ends, Arrived, Admitted, Reading, Live
      <4>3. QED
        BY <4>1, <4>2
    <3>3. QED
      BY <1>1, <3>1, <3>2, RowsStay
  <2>4. QED
    BY <1>1, <2>2, <2>3, RowsStay DEF TypeInv, RowFound, RequestOK, OwnerOf
<1>2. CASE Crash
  BY <1>2, CrashIdles DEF TypeInv, RowFound, RequestOK, OwnerOf
<1>3. CASE UNCHANGED vars
  BY <1>3 DEF vars, TypeInv, RowFound, RequestOK, OwnerOf
<1>4. QED
  BY <1>1, <1>2, <1>3, NextMoves

LEMMA TypeInvariant == Spec => []TypeInv
  BY InitTypeInv, NextTypeInv, PTL DEF Spec

\* Type correctness of the rows and the handlers.
THEOREM TypeCorrect == Spec => []TypeOK
<1>1. TypeInv => TypeOK
  BY DEF TypeInv, TypeOK, RequestOK
<1>2. QED
  BY <1>1, TypeInvariant, PTL

-------------------------------------------------------------------------------
(* E-mail addresses *)

\* The UNIQUE constraint keeps e-mails apart although the validator does not see
\* deleted users and although the check and the insert are two statements.
THEOREM EmailsStayUnique == Spec => []EmailsUnique
<1>1. Init => EmailsUnique
  BY DEF Init, EmailsUnique, Rows
<1>2. TypeInv /\ EmailsUnique /\ [Next]_vars => EmailsUnique'
  <2> SUFFICES ASSUME TypeInv, EmailsUnique, [Next]_vars PROVE EmailsUnique'
    OBVIOUS
  <2>0. Users \subseteq Rows
    BY DEF Rows
  <2>1. ASSUME NEW r \in Requests, Registers(r) PROVE EmailsUnique'
    BY <2>0, <2>1 DEF Registers, Taken, EmailsUnique, TypeInv
  <2>2. ASSUME NEW r \in Requests, Opens(r) PROVE EmailsUnique'
    BY <2>0, <2>2, RowsAssumption DEF Opens, EmailsUnique, TypeInv
  <2>3. ASSUME NEW r \in Requests, Writes(r) PROVE EmailsUnique'
    BY <2>0, <2>3 DEF Writes, EmailsUnique, TypeInv, RowFound
  <2>4. ASSUME UNCHANGED <<row, email>> PROVE EmailsUnique'
    BY <2>4 DEF EmailsUnique
  <2>5. QED
    BY <2>1, <2>2, <2>3, <2>4, NextMoves DEF OneMove, Quietly, Crash, vars
<1>3. QED
  BY <1>1, <1>2, TypeInvariant, PTL DEF Spec

-------------------------------------------------------------------------------
(* Deletion *)

\* Who changes a row: the insert of a new one, or a request of its owner that holds it.
LEMMA RowHasWriter ==
  ASSUME TypeInv, [Next]_vars, NEW x \in Rows, row'[x] # row[x]
  PROVE  \E r \in Requests :
           /\ Ends(r)
           /\ \/ row[x] = Nil /\ (x \in Users \/ ActsFor(r, OwnerOf(x)))
              \/ Holds(r, x) /\ ActsFor(r, OwnerOf(x))
<1>1. PICK r \in Requests : OneMove(r)
  BY NextMoves DEF Crash, vars
<1>2. Ends(r) /\ (Registers(r) \/ Opens(r) \/ Writes(r))
  BY <1>1 DEF OneMove, Quietly
<1>3. CASE Registers(r)
  BY <1>2, <1>3 DEF Registers, TypeInv
<1>4. CASE Opens(r)
  BY <1>2, <1>4, RowsAssumption DEF Opens, TypeInv, OwnerOf, ActsFor
<1>5. CASE Writes(r)
  BY <1>2, <1>5 DEF Writes, TypeInv, RequestOK, Holds, ActsFor
<1>6. QED
  BY <1>2, <1>3, <1>4, <1>5

\* Only a live row is newly held, only a live user newly acted for.
LEMMA NewHolds ==
  ASSUME TypeInv, [Next]_vars, NEW q \in Requests, NEW x \in Rows, Holds(q, x)', ~Holds(q, x)
  PROVE  Live(x)
<1>0. PICK r \in Requests : OneMove(r)
  BY NextMoves, CrashIdles DEF vars, Holds
<1>1. Moves(r, handler'[r])
  BY <1>0 DEF OneMove, Quietly, Ends
<1>2. q = r
  BY <1>1 DEF Moves, Holds, TypeInv
<1>3. QED
  BY <1>0, <1>2 DEF OneMove, Quietly, Ends, Arrived, Admitted, Reading, Holds

LEMMA NewActsFor ==
  ASSUME TypeInv, [Next]_vars, NEW q \in Requests, NEW u \in Users,
         ActsFor(q, u)', ~ActsFor(q, u)
  PROVE  Live(u)
<1>0. PICK r \in Requests : OneMove(r)
  BY NextMoves, CrashIdles DEF vars, ActsFor
<1>1. Moves(r, handler'[r])
  BY <1>0 DEF OneMove, Quietly, Ends
<1>2. q = r
  BY <1>1 DEF Moves, ActsFor, TypeInv
<1>3. QED
  BY <1>0, <1>2 DEF OneMove, Quietly, Ends, Arrived, Admitted, Reading, ActsFor

\* A deleted row that no earlier request still holds is out of reach for ever.
THEOREM DeletionsStick == Spec => DeletionSticks
<1>1. ASSUME TypeInv, [Next]_vars, NEW x \in Rows, Gone(x)
      PROVE  Gone(x)' /\ row'[x] = row[x]
  <2>1. row'[x] = row[x]
    BY <1>1, RowHasWriter DEF Gone
  <2>2. \A q \in Requests : ~Holds(q, x)'
    BY <1>1, NewHolds DEF Gone, Live
  <2>3. QED
    BY <1>1, <2>1, <2>2 DEF Gone
<1>2. TypeInv /\ [Next]_vars => [\A x \in Rows : Gone(x) => Gone(x)' /\ row'[x] = row[x]]_vars
  BY <1>1
<1>3. QED
  BY <1>2, TypeInvariant, PTL DEF Spec, DeletionSticks

\* Nothing of a deleted user changes once the requests authenticated before are over.
THEOREM DeletedUsersAreQuiet == Spec => DeletedUserIsQuiet
<1> DEFINE Stays == \A u \in Users : Quiet(u) =>
              Quiet(u)' /\ \A x \in Rows : OwnerOf(x) = u => row'[x] = row[x]
<1>1. ASSUME TypeInv, [Next]_vars, NEW u \in Users, Quiet(u)
      PROVE  Quiet(u)' /\ \A x \in Rows : OwnerOf(x) = u => row'[x] = row[x]
  <2>1. ASSUME NEW x \in Rows, OwnerOf(x) = u, row'[x] # row[x] PROVE FALSE
    <3>1. ~(row[x] = Nil /\ x \in Users)
      BY <1>1, <2>1 DEF Quiet, OwnerOf
    <3>2. QED
      BY <1>1, <2>1, <3>1, RowHasWriter DEF Quiet
  <2>2. \A q \in Requests : ~ActsFor(q, u)'
    BY <1>1, NewActsFor DEF Quiet, Live
  <2>3. row'[u] = row[u]
    BY <2>1 DEF OwnerOf, Rows
  <2>4. QED
    BY <1>1, <2>1, <2>2, <2>3 DEF Quiet
<1>2. TypeInv /\ [Next]_vars => [Stays]_vars
  BY <1>1
<1>3. QED
  BY <1>2, TypeInvariant, PTL DEF Spec, DeletedUserIsQuiet

\* A row changes only in the last step of a request about it by its owner.
THEOREM OwnersWrite == Spec => OnlyOwnersWrite
<1> DEFINE Owned == \A x \in Rows :
              row[x] # Nil /\ row'[x] # row[x] =>
                \E r \in Requests : /\ ActsFor(r, OwnerOf(x))
                                    /\ handler[r].target = x
                                    /\ handler'[r].pc = "idle"
<1>1. TypeInv /\ [Next]_vars => [Owned]_vars
  BY RowHasWriter DEF Holds, Ends
<1>2. QED
  BY <1>1, TypeInvariant, PTL DEF Spec, OnlyOwnersWrite
===============================================================================
