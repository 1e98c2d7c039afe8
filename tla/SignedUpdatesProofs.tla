-------------------------- MODULE SignedUpdatesProofs --------------------------
(***************************************************************************)
(* The HMAC check, for every tolerance, every clock skew and any number of *)
(* messages, copies and restarts: first the guard by itself, its clock and *)
(* its nonces, then what it is worth to the rows.  The composition is the  *)
(* guard for the guard's variables; the invariant says how far the view's  *)
(* part of a request may be ahead of the guard's verdict: not at all.      *)
(***************************************************************************)
EXTENDS SignedUpdates, Sequences, TLAPS

(* The guard: its clock.                                                        *)

\* A copy that arrived is one of a signed message.
Signed == \A c \in Copies : copy[c].pc # "unsent" =>
            copy[c].msg \in Messages /\ signedAt[copy[c].msg] # Nil

\* Past the first check a copy was timed within the tolerance of its timestamp.
Timed == \A c \in Copies : copy[c].pc \in {"nonce", "signature", "accepted"} =>
           /\ copy[c].checked \in Int
           /\ Abs(copy[c].checked - signedAt[copy[c].msg]) <= Tolerance

TypeInv == TypeOK /\ Signed /\ Timed

LEMMA InitTypeInv == Init => TypeInv
  BY GuardAssumption DEF Init, TypeInv, TypeOK, CopyRecord, Signed, Timed, Pcs

LEMMA NextTypeInv == TypeInv /\ [Next]_vars => TypeInv'
<1> SUFFICES ASSUME TypeInv, [Next]_vars PROVE TypeInv'
  OBVIOUS
<1> USE GuardAssumption DEF TypeInv, TypeOK, Signed, Timed, Pcs, CopyRecord
<1>0. copy \in [Copies -> CopyRecord]
  OBVIOUS
<1>1. CASE Tick
  BY <1>1 DEF Tick
<1>2. CASE Restart
  <2> DEFINE Lost(c) == [copy[c] EXCEPT !.pc = "lost"]
  <2>1. \A c \in Copies : Lost(c) \in CopyRecord /\ copy[c] \in CopyRecord
    BY <1>0
  <2>2. copy' = [c \in Copies |-> IF copy[c].pc \in Verifying THEN Lost(c) ELSE copy[c]]
    BY <1>2 DEF Restart
  <2>3. copy' \in [Copies -> CopyRecord]
    BY <2>1, <2>2
  <2>4. Signed'
    BY <1>2, <2>1, <2>2 DEF Restart, Verifying
  <2>5. Timed'
    BY <1>2, <2>1, <2>2 DEF Restart, Verifying
  <2>6. life' \in 0..MaxRestarts
    BY <1>2 DEF Restart
  <2>7. QED
    BY <1>2, <2>3, <2>4, <2>5, <2>6 DEF Restart
<1>3. ASSUME NEW m \in Messages, Sign(m) PROVE TypeInv'
  <2>1. signedAt' \in [Messages -> Int \cup {Nil}]
    BY <1>3 DEF Sign
  <2>2. \A c \in Copies : copy[c].pc # "unsent" => signedAt'[copy[c].msg] = signedAt[copy[c].msg]
    BY <1>3 DEF Sign
  <2>3. QED
    BY <1>3, <2>1, <2>2 DEF Sign
<1>4. ASSUME NEW c \in Copies, NEW m \in Messages, NEW intact \in BOOLEAN, Arrive(c, m, intact)
      PROVE  TypeInv'
  <2>1. copy' = [copy EXCEPT ![c] = [copy[c] EXCEPT !.pc = "arrived", !.msg = m,
                                                    !.intact = intact]]
    BY <1>4 DEF Arrive
  <2>2. QED
    BY <1>0, <1>4, <2>1 DEF Arrive
<1>5. ASSUME NEW c \in Copies, CheckTimestamp(c) PROVE TypeInv'
  <2> DEFINE next == IF Abs(now - signedAt[copy[c].msg]) > Tolerance
                     THEN [copy[c] EXCEPT !.pc = "refused"]
                     ELSE [copy[c] EXCEPT !.pc = "nonce", !.checked = now]
  <2>1. copy' = [copy EXCEPT ![c] = next]
    BY <1>5 DEF CheckTimestamp
  <2>2. signedAt[copy[c].msg] \in Int
    BY <1>5 DEF CheckTimestamp
  <2>3. next \in CopyRecord
    <3>1. copy[c] \in CopyRecord /\ now \in Int
      BY <1>0
    <3>2. [copy[c] EXCEPT !.pc = "refused"] \in CopyRecord
      BY <3>1
    <3>3. [copy[c] EXCEPT !.pc = "nonce", !.checked = now] \in CopyRecord
      BY <3>1
    <3>4. QED
      BY <3>2, <3>3
  <2>4. /\ next.msg = copy[c].msg
        /\ next.pc \in {"nonce", "refused"}
        /\ next.pc = "nonce" => /\ next.checked = now
                                /\ Abs(now - signedAt[copy[c].msg]) <= Tolerance
    BY <1>0, <2>2 DEF Abs
  <2> HIDE DEF next
  <2>5. Signed'
    BY <1>5, <2>1, <2>4 DEF CheckTimestamp
  <2>6. Timed'
    BY <1>5, <2>1, <2>4 DEF CheckTimestamp
  <2>7. copy' \in [Copies -> CopyRecord]
    BY <1>0, <2>1, <2>3
  <2>8. QED
    BY <1>5, <2>5, <2>6, <2>7 DEF CheckTimestamp
<1>6. ASSUME NEW c \in Copies, CheckNonce(c) PROVE TypeInv'
  <2> DEFINE pc == IF copy[c].msg \in usedNonces THEN "refused" ELSE "signature"
  <2>1. copy' = [copy EXCEPT ![c] = [copy[c] EXCEPT !.pc = pc]]
    BY <1>6 DEF CheckNonce
  <2>2. QED
    BY <1>0, <1>6, <2>1 DEF CheckNonce
<1>7. ASSUME NEW c \in Copies, CheckSignature(c) PROVE TypeInv'
  <2> DEFINE next == IF copy[c].intact
                     THEN [copy[c] EXCEPT !.pc = "accepted", !.life = life]
                     ELSE [copy[c] EXCEPT !.pc = "refused"]
  <2>1. copy' = [copy EXCEPT ![c] = next]
    BY <1>7 DEF CheckSignature
  <2>2. usedNonces' \subseteq Messages
    BY <1>7 DEF CheckSignature
  <2>3. QED
    BY <1>0, <1>7, <2>1, <2>2 DEF CheckSignature
<1>8. ASSUME NEW c \in Copies, RefuseHeaders(c) PROVE TypeInv'
  <2>1. copy' = [copy EXCEPT ![c] = [copy[c] EXCEPT !.pc = "refused"]]
    BY <1>8 DEF RefuseHeaders
  <2>2. QED
    BY <1>0, <1>8, <2>1 DEF RefuseHeaders
<1>9. CASE UNCHANGED vars
  BY <1>9 DEF vars
<1>10. QED
  BY <1>1, <1>2, <1>3, <1>4, <1>5, <1>6, <1>7, <1>8, <1>9 DEF Next, VerifyStep

LEMMA TypeInvariant == Spec => []TypeInv
  BY InitTypeInv, NextTypeInv, PTL DEF Spec

\* Type correctness of the guard.
THEOREM TypeCorrect == Spec => []TypeOK
  BY TypeInvariant, PTL DEF TypeInv

\* Whatever was forgotten, two acceptances of one request are timed at most twice
\* the tolerance apart: TIMESTAMP_TOLERANCE alone bounds how long a nonce matters.
THEOREM WindowIsBounded == Spec => []AcceptedWindow
<1>1. TypeInv => AcceptedWindow
  <2> SUFFICES ASSUME TypeInv, NEW c \in Copies, NEW d \in Copies,
                      Accepted(c), Accepted(d), copy[c].msg = copy[d].msg
               PROVE  copy[c].checked - copy[d].checked <= 2 * Tolerance
    BY DEF AcceptedWindow
  <2> DEFINE ts == signedAt[copy[c].msg]
  <2>1. /\ copy[c].checked \in Int /\ Abs(copy[c].checked - ts) <= Tolerance
        /\ copy[d].checked \in Int /\ Abs(copy[d].checked - ts) <= Tolerance
    BY DEF TypeInv, Timed, Accepted
  <2>2. ts \in Int
    BY DEF TypeInv, TypeOK, Signed, Accepted
  <2> HIDE DEF ts
  <2>3. QED
    BY <2>1, <2>2, GuardAssumption DEF Abs
<1>2. QED
  BY <1>1, TypeInvariant, PTL

-------------------------------------------------------------------------------
(* The guard: its nonces.                                                       *)

\* The set holds what this process accepted, and nothing it did not accept.
Remembered == \A c \in Copies : Accepted(c) =>
                /\ copy[c].life <= life
                /\ copy[c].life = life => copy[c].msg \in usedNonces
NotBurnt   == \A m \in usedNonces : \E d \in Copies : Accepted(d) /\ copy[d].msg = m
Untimed    == \A c \in Copies : copy[c].pc \in {"unsent", "arrived"} => copy[c].checked = Nil

NonceInv == Remembered /\ NotBurnt /\ Untimed /\ FreshRefusalMeansAccepted

LEMMA InitNonceInv == Init => NonceInv
  BY DEF Init, NonceInv, Remembered, NotBurnt, Untimed, FreshRefusalMeansAccepted, Accepted

\* A copy's record changes only by its own arrival and checks, or by a restart.
LEMMA CopyStep ==
  ASSUME TypeInv, [Next]_vars, NEW c \in Copies
  PROVE  \/ copy'[c] = copy[c]
         \/ VerifyStep(c)
         \/ copy[c].pc \in Verifying /\ copy'[c] = [copy[c] EXCEPT !.pc = "lost"]
         \/ \E m \in Messages, intact \in BOOLEAN : Arrive(c, m, intact)
<1> USE DEF TypeInv, TypeOK
<1>1. ASSUME NEW d \in Copies, VerifyStep(d), d # c PROVE copy'[c] = copy[c]
  BY <1>1 DEF VerifyStep, RefuseHeaders, CheckTimestamp, CheckNonce, CheckSignature
<1>2. ASSUME NEW d \in Copies, NEW m \in Messages, NEW intact \in BOOLEAN,
             Arrive(d, m, intact), d # c
      PROVE  copy'[c] = copy[c]
  BY <1>2 DEF Arrive
<1>3. CASE Restart
  BY <1>3 DEF Restart
<1>4. CASE UNCHANGED copy
  BY <1>4
<1>5. QED
  BY <1>1, <1>2, <1>3, <1>4 DEF Next, Tick, Sign, vars

\* An accepted copy stays what it is.
LEMMA AcceptedStays ==
  ASSUME TypeInv, [Next]_vars, NEW c \in Copies, Accepted(c)
  PROVE  copy'[c] = copy[c] /\ Accepted(c)'
<1>1. copy'[c] = copy[c]
  BY DEF Next, VerifyStep, Tick, Restart, Sign, Arrive, RefuseHeaders,
         CheckTimestamp, CheckNonce,
         CheckSignature, vars, Accepted, Verifying, TypeInv, TypeOK
<1>2. QED
  BY <1>1 DEF Accepted

\* Only a signature check that succeeds makes a copy accepted.
LEMMA AcceptedStep ==
  ASSUME TypeInv, [Next]_vars, NEW c \in Copies, Accepted(c)'
  PROVE  \/ Accepted(c) /\ copy'[c] = copy[c]
         \/ /\ CheckSignature(c)
            /\ copy'[c].life = life /\ copy'[c].msg = copy[c].msg
            /\ usedNonces' = usedNonces \cup {copy[c].msg}
<1> USE DEF Accepted, TypeInv, TypeOK, CopyRecord
<1>1. CASE CheckSignature(c)
  BY <1>1 DEF CheckSignature
<1>2. CASE ~CheckSignature(c)
  <2>1. CASE Tick \/ UNCHANGED vars \/ \E m \in Messages : Sign(m)
    BY <2>1 DEF Tick, Sign, vars
  <2>2. CASE Restart
    BY <2>2 DEF Restart
  <2>3. ASSUME NEW d \in Copies, NEW m \in Messages, NEW i \in BOOLEAN, Arrive(d, m, i)
        PROVE  Accepted(c) /\ copy'[c] = copy[c]
    BY <2>3 DEF Arrive
  <2>4. ASSUME NEW d \in Copies, RefuseHeaders(d) \/ CheckTimestamp(d) \/ CheckNonce(d)
        PROVE  Accepted(c) /\ copy'[c] = copy[c]
    BY <2>4 DEF RefuseHeaders, CheckTimestamp, CheckNonce
  <2>5. ASSUME NEW d \in Copies, CheckSignature(d)
        PROVE  Accepted(c) /\ copy'[c] = copy[c]
    BY <1>2, <2>5 DEF CheckSignature
  <2>6. QED
    BY <2>1, <2>2, <2>3, <2>4, <2>5 DEF Next, VerifyStep
<1>3. QED
  BY <1>1, <1>2

\* The set grows by accepted copies and is emptied by a restart.
LEMMA NoncesStep ==
  ASSUME TypeInv, [Next]_vars
  PROVE  \/ UNCHANGED <<usedNonces, life>>
         \/ usedNonces' = {} /\ life' = life + 1
         \/ UNCHANGED life /\ \E c \in Copies : /\ Accepted(c)'
                                                /\ usedNonces' = usedNonces \cup {copy'[c].msg}
<1>1. ASSUME NEW c \in Copies, CheckSignature(c)
      PROVE  \/ UNCHANGED <<usedNonces, life>>
             \/ /\ UNCHANGED life /\ Accepted(c)'
                /\ usedNonces' = usedNonces \cup {copy'[c].msg}
  BY <1>1 DEF CheckSignature, Accepted, TypeInv, TypeOK, CopyRecord
<1>2. QED
  BY <1>1 DEF Next, VerifyStep, Tick, Restart, Sign, Arrive, RefuseHeaders,
         CheckTimestamp, CheckNonce, vars

LEMMA NextNonceInv == TypeInv /\ NonceInv /\ [Next]_vars => NonceInv'
<1> SUFFICES ASSUME TypeInv, NonceInv, [Next]_vars PROVE NonceInv'
  OBVIOUS
<1> USE DEF NonceInv
<1>0. life \in Nat /\ life' \in Nat /\ life <= life'
  BY NextTypeInv, NoncesStep DEF TypeInv, TypeOK
<1>1. Remembered'
  <2> SUFFICES ASSUME NEW c \in Copies, Accepted(c)'
               PROVE  /\ copy'[c].life <= life'
                      /\ copy'[c].life = life' => copy'[c].msg \in usedNonces'
    BY DEF Remembered
  <2>1. CASE Accepted(c) /\ copy'[c] = copy[c]
    <3>1. copy[c].life \in Nat
      BY GuardAssumption DEF TypeInv, TypeOK, CopyRecord
    <3>2. QED
      BY <1>0, <2>1, <3>1, NoncesStep DEF Remembered
  <2>2. CASE /\ CheckSignature(c)
             /\ copy'[c].life = life /\ copy'[c].msg = copy[c].msg
             /\ usedNonces' = usedNonces \cup {copy[c].msg}
    BY <1>0, <2>2
  <2>3. QED
    BY <2>1, <2>2, AcceptedStep
<1>2. NotBurnt'
  <2> SUFFICES ASSUME NEW m \in usedNonces'
               PROVE  \E d \in Copies : Accepted(d)' /\ copy'[d].msg = m
    BY DEF NotBurnt
  <2>1. CASE m \in usedNonces
    BY <2>1, AcceptedStays DEF NotBurnt
  <2>2. CASE m \notin usedNonces
    BY <2>2, NoncesStep
  <2>3. QED
    BY <2>1, <2>2
<1>3. Untimed'
  <2> SUFFICES ASSUME NEW c \in Copies, copy'[c].pc \in {"unsent", "arrived"}
               PROVE  copy'[c].checked = Nil
    BY DEF Untimed
  <2> USE DEF Untimed, TypeInv, TypeOK, CopyRecord
  <2>1. CASE VerifyStep(c)
    BY <2>1 DEF VerifyStep, RefuseHeaders, CheckTimestamp, CheckNonce, CheckSignature
  <2>2. ASSUME NEW m \in Messages, NEW i \in BOOLEAN, Arrive(c, m, i)
        PROVE  copy'[c].checked = Nil
    BY <2>2 DEF Arrive
  <2>3. QED
    BY <2>1, <2>2, CopyStep
<1>4. FreshRefusalMeansAccepted'
  <2> SUFFICES ASSUME NEW c \in Copies, copy'[c].pc = "refused", copy'[c].intact,
                      copy'[c].checked # Nil
               PROVE  \E d \in Copies : Accepted(d)' /\ copy'[d].msg = copy'[c].msg
    BY DEF FreshRefusalMeansAccepted
  <2>1. /\ copy'[c].msg = copy[c].msg
        /\ \/ copy[c].pc = "refused" /\ copy'[c] = copy[c]
           \/ copy[c].msg \in usedNonces
    <3> USE DEF Untimed, TypeInv, TypeOK, CopyRecord
    <3>1. CASE RefuseHeaders(c) \/ CheckTimestamp(c)
      BY <3>1 DEF RefuseHeaders, CheckTimestamp
    <3>2. CASE CheckNonce(c)
      BY <3>2 DEF CheckNonce
    <3>3. CASE CheckSignature(c)
      BY <3>3 DEF CheckSignature
    <3>4. ASSUME NEW m \in Messages, NEW i \in BOOLEAN, Arrive(c, m, i) PROVE FALSE
      BY <3>4 DEF Arrive
    <3>5. QED
      BY <3>1, <3>2, <3>3, <3>4, CopyStep DEF VerifyStep
  <2>2. PICK d \in Copies : Accepted(d) /\ copy[d].msg = copy[c].msg
    BY <2>1 DEF FreshRefusalMeansAccepted, NotBurnt
  <2>3. QED
    BY <2>1, <2>2, AcceptedStays
<1>5. QED
  BY <1>1, <1>2, <1>3, <1>4

LEMMA NonceInvariant == Spec => [](TypeInv /\ NonceInv)
<1>1. Init => TypeInv /\ NonceInv
  BY InitTypeInv, InitNonceInv
<1>2. TypeInv /\ NonceInv /\ [Next]_vars => (TypeInv /\ NonceInv)'
  BY NextTypeInv, NextNonceInv
<1>3. QED
  BY <1>1, <1>2, PTL DEF Spec

\* A damaged copy never uses up the nonce of the request it is a copy of.
THEOREM FreshCopiesPass == Spec => []FreshRefusalMeansAccepted
  BY NonceInvariant, PTL DEF NonceInv

\* A copy looked up after an acceptance by the same process is refused.
THEOREM LateDuplicatesAreRefused == Spec => LateDuplicateRefused
<1>1. ASSUME TypeInv, NonceInv, [Next]_vars, NEW c \in Copies, NEW d \in Copies,
             copy[c].pc = "nonce", copy'[c].pc = "signature",
             Accepted(d), copy[d].msg = copy[c].msg
      PROVE  copy[d].life # life
  <2>1. copy[c].msg \notin usedNonces
    BY <1>1 DEF Next, VerifyStep, Tick, Restart, Sign, Arrive, RefuseHeaders,
         CheckTimestamp, CheckNonce,
       CheckSignature, vars, TypeInv, TypeOK, CopyRecord
  <2>2. QED
    BY <1>1, <2>1 DEF NonceInv, Remembered
<1>2. TypeInv /\ NonceInv /\ [Next]_vars =>
        [\A c, d \in Copies :
           /\ copy[c].pc = "nonce" /\ copy'[c].pc = "signature"
           /\ Accepted(d) /\ copy[d].msg = copy[c].msg
           => copy[d].life # life]_vars
  BY <1>1
<1>3. QED
  BY <1>2, NonceInvariant, PTL DEF Spec, LateDuplicateRefused

-------------------------------------------------------------------------------
(* The guard and the view behind it.                                            *)

\* Every step is one of the guard's, or none of its.
LEMMA GuardSteps == [UpdatesNext]_allVars => [Next]_vars
  BY DEF UpdatesNext, allVars, Next, vars, ArriveUpdate, VerifyUpdate, RestartService

\* What HmacGuard's theorems say holds of the composition too: the rest of the
\* service takes no step that the guard would not.
THEOREM GuardIsKept == UpdatesSpec => Spec
<1>1. UpdatesInit => Init
  BY DEF UpdatesInit
<1>2. QED
  BY <1>1, GuardSteps, PTL DEF Spec, UpdatesSpec

-------------------------------------------------------------------------------
\* The steps of a request that the view takes after the verdict.
Passed(c) == handler[c].pc \in {"load", "save"} \cup Api!Publishing

\* Copy c asks for what was signed.
AsSigned(c) ==
  /\ copy[c].msg \in Messages
  /\ handler[c].txn = TxnOf[copy[c].msg]
  /\ handler[c].new = StatusOf[copy[c].msg]

\* Only an accepted copy is past the check, it asks for what was signed, and it is
\* all that a row may be settled by.
UpdatesInv ==
  /\ handler \in [Copies -> Api!HandlerRecord]
  /\ status \in [Txns -> Api!Statuses]
  /\ \A c \in Copies : copy[c].pc # "unsent" /\ copy[c].intact => AsSigned(c)
  /\ \A c \in Copies : Accepted(c) => copy[c].intact
  /\ \A c \in Copies : Passed(c) => Accepted(c)
  /\ SettledAsSigned

\* The guard's types, by its own theorem.
LEMMA GuardTypes == UpdatesSpec => []TypeOK
  BY GuardIsKept, TypeCorrect, PTL

LEMMA InitUpdatesInv == UpdatesInit => UpdatesInv
  BY DEF UpdatesInit, Init, UpdatesInv, Passed, Accepted, SettledAsSigned, Api!HandlerRecord,
         Api!HandlerPc, Api!Publishing, Api!Codes, Api!Statuses, Api!Terminal

\* verify_hmac_request moves one copy on and accepts none that is damaged.
LEMMA VerifyMoves ==
  ASSUME TypeOK, NEW c \in Copies, VerifyStep(c)
  PROVE  /\ copy[c].pc \in Verifying
         /\ copy'[c].pc \in {"nonce", "signature", "accepted", "refused"}
         /\ copy'[c].pc = "accepted" => copy[c].intact
         /\ copy'[c].msg = copy[c].msg /\ copy'[c].intact = copy[c].intact
         /\ \A d \in Copies \ {c} : copy'[d] = copy[d]
<1> USE DEF TypeOK, CopyRecord, Verifying, Pcs
<1>1. CASE RefuseHeaders(c)
  BY <1>1 DEF RefuseHeaders
<1>2. CASE CheckTimestamp(c)
  BY <1>2 DEF CheckTimestamp
<1>3. CASE CheckNonce(c)
  BY <1>3 DEF CheckNonce
<1>4. CASE CheckSignature(c)
  BY <1>4 DEF CheckSignature
<1>5. QED
  BY <1>1, <1>2, <1>3, <1>4 DEF VerifyStep

\* The view moves one request on, which was past the check, and keeps what it asks for.
LEMMA UpdateMoves ==
  ASSUME handler \in [Copies -> Api!HandlerRecord], NEW c \in Copies, Api!UpdateStep(c)
  PROVE  /\ Passed(c)
         /\ handler' \in [Copies -> Api!HandlerRecord]
         /\ handler'[c].txn = handler[c].txn /\ handler'[c].new = handler[c].new
         /\ \A d \in Copies \ {c} : handler'[d] = handler[d]
         /\ \/ status' = status
            \/ /\ handler[c].pc = "save"
               /\ status' = [status EXCEPT ![handler[c].txn] = handler[c].new]
<1> USE DEF Passed, Api!Publishing
<1>1. \/ \E pc \in Api!Publishing \cup {"save"} : Api!Goto(c, pc)
      \/ \E code \in Api!Codes : Api!Reply(c, code)
  BY DEF Api!UpdateStep, Api!LoadRefused, Api!LoadPending, Api!Save, Api!PublishUpdated,
         Api!RepublishUpdated, Api!FinishUpdated, Api!HandlerError, Api!Codes
<1>2. Passed(c)
  BY DEF Api!UpdateStep, Api!LoadRefused, Api!LoadPending, Api!Save, Api!PublishUpdated,
         Api!RepublishUpdated, Api!FinishUpdated, Api!HandlerError
<1>3. \/ status' = status
      \/ /\ handler[c].pc = "save"
         /\ status' = [status EXCEPT ![handler[c].txn] = handler[c].new]
  BY DEF Api!UpdateStep, Api!LoadRefused, Api!LoadPending, Api!Save, Api!PublishUpdated,
         Api!RepublishUpdated, Api!FinishUpdated, Api!HandlerError
<1>4. ASSUME NEW pc \in Api!Publishing \cup {"save"}, Api!Goto(c, pc)
      PROVE  /\ handler' \in [Copies -> Api!HandlerRecord]
             /\ handler'[c].txn = handler[c].txn /\ handler'[c].new = handler[c].new
             /\ \A d \in Copies \ {c} : handler'[d] = handler[d]
  BY <1>4 DEF Api!Goto, Api!HandlerRecord, Api!HandlerPc
<1>5. ASSUME NEW code \in Api!Codes, Api!Reply(c, code)
      PROVE  /\ handler' \in [Copies -> Api!HandlerRecord]
             /\ handler'[c].txn = handler[c].txn /\ handler'[c].new = handler[c].new
             /\ \A d \in Copies \ {c} : handler'[d] = handler[d]
  BY <1>5 DEF Api!Reply, Api!HandlerRecord, Api!HandlerPc
<1>6. QED
  BY <1>1, <1>2, <1>3, <1>4, <1>5

\* Rows nobody writes stay settled as signed: an acceptance is for good.
LEMMA SettledStays ==
  ASSUME SettledAsSigned, status' = status,
         \A c \in Copies : Accepted(c) => copy'[c] = copy[c]
  PROVE  SettledAsSigned'
  BY DEF SettledAsSigned, Accepted

\* A row is written by a request that was accepted, so as signed.
LEMMA NextUpdatesInv == TypeOK /\ UpdatesInv /\ [UpdatesNext]_allVars => UpdatesInv'
<1> SUFFICES ASSUME TypeOK, UpdatesInv, [UpdatesNext]_allVars PROVE UpdatesInv'
  OBVIOUS
<1>1. CASE UNCHANGED <<copy, handler, status>>
  <2>1. SettledAsSigned'
    BY <1>1, SettledStays DEF UpdatesInv
  <2>2. QED
    BY <1>1, <2>1 DEF UpdatesInv, AsSigned, Accepted, Passed
<1>2. ASSUME NEW c \in Copies, NEW m \in Messages, ArriveUpdate(c, m) PROVE UpdatesInv'
  <2>1. PICK intact \in BOOLEAN, t \in Txns, s \in Api!Wire :
          /\ Arrive(c, m, intact) /\ Api!Receive(c, t, s)
          /\ intact => t = TxnOf[m] /\ s = StatusOf[m]
    BY <1>2, MessageAssumption DEF ArriveUpdate, Api!Wire
  <2>2. /\ copy[c].pc = "unsent" /\ copy'[c].pc = "arrived"
        /\ copy'[c].msg = m /\ copy'[c].intact = intact
        /\ \A d \in Copies \ {c} : copy'[d] = copy[d]
    BY <2>1 DEF Arrive, TypeOK, CopyRecord
  <2>3. /\ handler'[c] = [pc |-> "verify", txn |-> t, new |-> s, code |-> 0]
        /\ \A d \in Copies \ {c} : handler'[d] = handler[d]
        /\ status' = status
    BY <2>1 DEF Api!Receive, UpdatesInv
  <2>4. handler' \in [Copies -> Api!HandlerRecord]
    BY <2>1 DEF Api!Receive, UpdatesInv, Api!HandlerRecord, Api!HandlerPc, Api!Codes, Api!Wire
  <2>5. SettledAsSigned'
    BY <2>2, <2>3, SettledStays DEF UpdatesInv, Accepted
  <2>6. QED
    BY <2>1, <2>2, <2>3, <2>4, <2>5
       DEF UpdatesInv, AsSigned, Accepted, Passed, Api!Publishing
<1>3. ASSUME NEW c \in Copies, VerifyUpdate(c) PROVE UpdatesInv'
  <2>1. /\ copy[c].pc \in Verifying
        /\ copy'[c].pc \in {"nonce", "signature", "accepted", "refused"}
        /\ copy'[c].pc = "accepted" => copy[c].intact
        /\ copy'[c].msg = copy[c].msg /\ copy'[c].intact = copy[c].intact
        /\ \A d \in Copies \ {c} : copy'[d] = copy[d]
    BY <1>3, VerifyMoves DEF VerifyUpdate
  <2>2. /\ handler' \in [Copies -> Api!HandlerRecord]
        /\ handler'[c].txn = handler[c].txn /\ handler'[c].new = handler[c].new
        /\ \A d \in Copies \ {c} : handler'[d] = handler[d]
        /\ status' = status
        /\ Passed(c)' => copy'[c].pc = "accepted"
    <3>1. CASE copy'[c].pc \in Verifying /\ UNCHANGED apiVars
      BY <2>1, <3>1 DEF apiVars, UpdatesInv, Passed, Verifying, Accepted
    <3>2. CASE Api!Verify(c) /\ (copy'[c].pc = "accepted" \/ handler'[c].pc = "replied")
      BY <3>2 DEF Api!Verify, Api!Goto, Api!Reply, UpdatesInv, Api!HandlerRecord,
                  Api!HandlerPc, Api!Codes, Passed, Api!Publishing
    <3>3. QED
      BY <1>3, <3>1, <3>2 DEF VerifyUpdate
  <2>3. SettledAsSigned'
    BY <2>1, <2>2, SettledStays DEF UpdatesInv, Accepted, Verifying
  <2>4. QED
    BY <2>1, <2>2, <2>3 DEF UpdatesInv, AsSigned, Accepted, Passed, Verifying
<1>4. ASSUME NEW c \in Copies, Api!UpdateStep(c), UNCHANGED vars PROVE UpdatesInv'
  <2>1. /\ Passed(c)
        /\ handler' \in [Copies -> Api!HandlerRecord]
        /\ handler'[c].txn = handler[c].txn /\ handler'[c].new = handler[c].new
        /\ \A d \in Copies \ {c} : handler'[d] = handler[d]
        /\ \/ status' = status
           \/ /\ handler[c].pc = "save"
              /\ status' = [status EXCEPT ![handler[c].txn] = handler[c].new]
    BY <1>4, UpdateMoves DEF UpdatesInv
  <2>2. copy' = copy
    BY <1>4 DEF vars
  <2>3. Accepted(c) /\ copy[c].intact /\ AsSigned(c)
    BY <2>1 DEF UpdatesInv, Accepted
  <2>4. status' \in [Txns -> Api!Statuses] /\ SettledAsSigned'
    <3>1. CASE status' = status
      BY <2>2, <3>1, SettledStays DEF UpdatesInv
    <3>2. CASE status' = [status EXCEPT ![handler[c].txn] = handler[c].new]
      <4>1. status' = [status EXCEPT ![TxnOf[copy[c].msg]] = StatusOf[copy[c].msg]]
        BY <2>3, <3>2 DEF AsSigned
      <4>2. QED
        BY <2>2, <2>3, <4>1, MessageAssumption
           DEF UpdatesInv, SettledAsSigned, Accepted, AsSigned, Api!Statuses
    <3>3. QED
      BY <2>1, <3>1, <3>2
  <2>5. QED
    BY <2>1, <2>2, <2>3, <2>4 DEF UpdatesInv, AsSigned, Accepted, Passed
<1>5. CASE RestartService
  <2>1. /\ \A c \in Copies : /\ copy'[c].msg = copy[c].msg
                             /\ copy'[c].intact = copy[c].intact
                             /\ copy'[c].pc \in {copy[c].pc, "lost"}
                             /\ copy[c].pc = "unsent" => copy'[c].pc = "unsent"
                             /\ Accepted(c) => copy'[c] = copy[c]
    BY <1>5 DEF RestartService, Restart, TypeOK, CopyRecord, Verifying, Accepted
  <2> DEFINE Lost(c) == [handler[c] EXCEPT !.pc = "lost"]
  <2>2. handler' = [c \in Copies |-> IF handler[c].pc \in Api!Working
                                     THEN Lost(c) ELSE handler[c]]
    BY <1>5 DEF RestartService, Api!ApiCrash
  <2>3. \A c \in Copies : /\ Lost(c) \in Api!HandlerRecord
                          /\ Lost(c).txn = handler[c].txn /\ Lost(c).new = handler[c].new
                          /\ Lost(c).pc = "lost"
    BY DEF UpdatesInv, Api!HandlerRecord, Api!HandlerPc
  <2> HIDE DEF Lost
  <2>4. handler' \in [Copies -> Api!HandlerRecord]
    BY <2>2, <2>3 DEF UpdatesInv
  <2>5. \A c \in Copies : /\ handler'[c].txn = handler[c].txn
                          /\ handler'[c].new = handler[c].new
                          /\ ~Passed(c)'
    BY <2>2, <2>3 DEF Passed, Api!Working, Api!Publishing
  <2>6. status' = status
    BY <1>5 DEF RestartService, Api!ApiCrash
  <2>7. SettledAsSigned'
    BY <2>1, <2>6, SettledStays DEF UpdatesInv
  <2>8. QED
    BY <2>1, <2>4, <2>5, <2>6, <2>7 DEF UpdatesInv, AsSigned, Accepted
<1>6. QED
  BY <1>1, <1>2, <1>3, <1>4, <1>5 DEF UpdatesNext, Tick, Sign, allVars, vars, apiVars

LEMMA UpdatesInvariant == UpdatesSpec => []UpdatesInv
  BY InitUpdatesInv, NextUpdatesInv, GuardTypes, PTL DEF UpdatesSpec

\* Whatever arrives, a transaction is settled only as an accepted, undamaged message
\* asks.
THEOREM SettlementsAreSigned == UpdatesSpec => []SettledAsSigned
<1>1. UpdatesInv => SettledAsSigned
  BY DEF UpdatesInv
<1>2. QED
  BY <1>1, UpdatesInvariant, PTL

\* A settled transaction changes only in the save of an accepted message other than
\* the one it was settled by.
THEOREM ReplaysChangeNothing == UpdatesSpec => ReplayChangesNothing
<1>1. ASSUME TypeOK, UpdatesInv, [UpdatesNext]_allVars,
             NEW t \in Txns, status[t] \in Api!Terminal, status'[t] # status[t]
      PROVE  \E c, d \in Copies : /\ Accepted(c) /\ Accepted(d)
                                  /\ copy[c].msg # copy[d].msg
                                  /\ {TxnOf[copy[c].msg], TxnOf[copy[d].msg]} = {t}
  <2>1. PICK c \in Copies : Api!UpdateStep(c)
    BY <1>1 DEF UpdatesNext, allVars, apiVars, ArriveUpdate, Api!Receive, VerifyUpdate,
                Api!Verify, RestartService, Api!ApiCrash
  <2>2. Passed(c) /\ status' = [status EXCEPT ![handler[c].txn] = handler[c].new]
    BY <1>1, <2>1, UpdateMoves DEF UpdatesInv
  <2>3. Accepted(c) /\ AsSigned(c)
    BY <1>1, <2>2 DEF UpdatesInv, Accepted
  <2>4. TxnOf[copy[c].msg] = t /\ status'[t] = StatusOf[copy[c].msg]
    BY <1>1, <2>2, <2>3 DEF UpdatesInv, AsSigned
  <2>5. PICK d \in Copies : /\ Accepted(d)
                            /\ TxnOf[copy[d].msg] = t
                            /\ StatusOf[copy[d].msg] = status[t]
    BY <1>1 DEF UpdatesInv, SettledAsSigned
  <2>6. copy[c].msg # copy[d].msg
    BY <1>1, <2>4, <2>5
  <2>7. QED
    BY <2>3, <2>4, <2>5, <2>6
<1>2. TypeOK /\ UpdatesInv /\ [UpdatesNext]_allVars
      => [\A t \in Txns :
            status[t] \in Api!Terminal /\ status'[t] # status[t] =>
              \E c, d \in Copies : /\ Accepted(c) /\ Accepted(d)
                                   /\ copy[c].msg # copy[d].msg
                                   /\ {TxnOf[copy[c].msg], TxnOf[copy[d].msg]} = {t}]_allVars
  BY <1>1
<1>3. QED
  BY <1>2, UpdatesInvariant, GuardTypes, PTL DEF UpdatesSpec, ReplayChangesNothing

-------------------------------------------------------------------------------
(* The endpoints behind the guard. *)

ApiFacts == INSTANCE TransactionApiProofs
              WITH Requests <- Copies, MaxCrashes <- MaxRestarts, crashes <- life

LEMMA ApiConstants == ApiFacts!ApiAssumption
  BY MessageAssumption, GuardAssumption DEF ApiFacts!ApiAssumption

LEMMA SameApi == [Api!Next]_Api!vars <=> [ApiFacts!Next]_ApiFacts!vars
  BY DEF Api!Next, Api!vars, Api!Local, Api!PostStep, Api!HandlerStep, Api!UpdateStep,
         Api!PostRejected, Api!PostValidated, Api!ValidBody, Api!Bodies, Api!Insert,
         Api!PostError, Api!PublishCreated, Api!RepublishCreated, Api!FinishCreated,
         Api!Publishing, Api!DeleteAccount, Api!RestoreAccount, Api!Goto, Api!Reply,
         Api!Verify, Api!LoadRefused, Api!LoadPending, Api!Save, Api!PublishUpdated,
         Api!RepublishUpdated, Api!FinishUpdated, Api!HandlerError, Api!ApiCrash,
         Api!Working, Api!Terminal, Api!Receive, Api!Wire,
         ApiFacts!Next, ApiFacts!vars, ApiFacts!Local, ApiFacts!PostStep,
         ApiFacts!HandlerStep, ApiFacts!UpdateStep, ApiFacts!PostRejected,
         ApiFacts!PostValidated, ApiFacts!ValidBody, ApiFacts!Bodies, ApiFacts!Insert,
         ApiFacts!PostError, ApiFacts!PublishCreated, ApiFacts!RepublishCreated,
         ApiFacts!FinishCreated, ApiFacts!Publishing, ApiFacts!DeleteAccount,
         ApiFacts!RestoreAccount, ApiFacts!Goto, ApiFacts!Reply, ApiFacts!Verify,
         ApiFacts!LoadRefused, ApiFacts!LoadPending, ApiFacts!Save,
         ApiFacts!PublishUpdated, ApiFacts!RepublishUpdated, ApiFacts!FinishUpdated,
         ApiFacts!HandlerError, ApiFacts!ApiCrash, ApiFacts!Working, ApiFacts!Terminal,
         ApiFacts!Receive, ApiFacts!Wire

\* Every step is one of the endpoints', or none of theirs.
LEMMA EndpointSteps == [UpdatesNext]_allVars => [Api!Next]_Api!vars
<1> SUFFICES ASSUME [UpdatesNext]_allVars PROVE [Api!Next]_Api!vars
  OBVIOUS
<1>1. CASE UNCHANGED <<life, apiVars>>
  BY <1>1 DEF apiVars, Api!vars
<1>2. ASSUME NEW c \in Copies, NEW m \in Messages, ArriveUpdate(c, m)
      PROVE  Api!Next
  <2>1. \E t \in Txns, s \in Api!Wire : Api!Receive(c, t, s)
    BY <1>2, MessageAssumption DEF ArriveUpdate, Api!Wire
  <2>2. QED
    BY <2>1 DEF Api!Next
<1>3. ASSUME NEW c \in Copies, VerifyUpdate(c)
      PROVE  [Api!Next]_Api!vars
  <2>1. life' = life
    BY <1>3 DEF VerifyUpdate, VerifyStep, RefuseHeaders, CheckTimestamp, CheckNonce, CheckSignature
  <2>2. CASE UNCHANGED apiVars
    BY <2>1, <2>2 DEF apiVars, Api!vars
  <2>3. CASE Api!Verify(c)
    BY <2>3 DEF Api!Next, Api!Local, Api!HandlerStep
  <2>4. QED
    BY <1>3, <2>2, <2>3 DEF VerifyUpdate
<1>4. ASSUME NEW c \in Copies, Api!UpdateStep(c)
      PROVE  Api!Next
  BY <1>4 DEF Api!Next, Api!Local, Api!HandlerStep
<1>5. CASE RestartService
  BY <1>5 DEF RestartService, Api!Next, Api!Local
<1>6. QED
  BY <1>1, <1>2, <1>3, <1>4, <1>5 DEF UpdatesNext, Tick, Sign, allVars, vars

\* The guard and the service's restarts do nothing to the rows and the requests that
\* the endpoints alone would not.
THEOREM EndpointsAreKept == UpdatesSpec => [][Api!Next]_Api!vars
  BY EndpointSteps, PTL DEF UpdatesSpec

\* The rows are there from the start, and nothing has been asked of them.
LEMMA EndpointInit ==
  UpdatesInit => /\ ApiFacts!TypeInv /\ ApiFacts!RowInv
                 /\ ApiFacts!AnswerMeansSettled /\ ApiFacts!UpdatedHasWriter
<1> SUFFICES ASSUME UpdatesInit
             PROVE  /\ ApiFacts!TypeInv /\ ApiFacts!RowInv
                    /\ ApiFacts!AnswerMeansSettled /\ ApiFacts!UpdatedHasWriter
  OBVIOUS
<1>1. life \in 0..MaxRestarts
  BY GuardAssumption DEF UpdatesInit, Init
<1>2. ApiFacts!TypeInv
  BY <1>1, ApiConstants DEF UpdatesInit, ApiFacts!TypeInv, ApiFacts!TypeOK, ApiFacts!RequestOK,
     ApiFacts!Statuses, ApiFacts!PostPc, ApiFacts!HandlerPc, ApiFacts!Codes,
     ApiFacts!Publishing, ApiFacts!Terminal, ApiFacts!HandlerRecord, ApiFacts!Bodies, Api!Bodies
<1>3. ApiFacts!RowInv
  BY DEF UpdatesInit, ApiFacts!RowInv, ApiFacts!EventHasRow
<1>4. ApiFacts!AnswerMeansSettled /\ ApiFacts!UpdatedHasWriter
  BY DEF UpdatesInit, ApiFacts!AnswerMeansSettled, ApiFacts!SaysSettled, ApiFacts!Saved,
     ApiFacts!Publishing, ApiFacts!UpdatedHasWriter
<1>5. QED
  BY <1>2, <1>3, <1>4

\* What the endpoints promise, they promise behind the guard.
EndpointInv ==
  /\ ApiFacts!TypeInv /\ ApiFacts!RowInv
  /\ ApiFacts!AnswerMeansSettled /\ ApiFacts!UpdatedHasWriter

LEMMA NextEndpointInv == EndpointInv /\ [UpdatesNext]_allVars => EndpointInv'
  BY EndpointSteps, SameApi, ApiConstants, ApiFacts!NextTypeInv, ApiFacts!NextRowInv,
     ApiFacts!NextAnswers, ApiFacts!NextUpdatedHasWriter DEF EndpointInv

LEMMA EndpointInvariant == UpdatesSpec => []EndpointInv
<1>1. UpdatesInit => EndpointInv
  BY EndpointInit DEF EndpointInv
<1>2. QED
  BY <1>1, NextEndpointInv, PTL DEF UpdatesSpec

\* Whoever is answered 200 has sent a copy the guard accepted, and the transaction it
\* was signed for is settled, as an accepted message asks; every transaction.updated
\* event says what some accepted message asks.
AnsweredAsSigned ==
  \A c \in Copies : handler[c].code = 200 =>
    Accepted(c) /\ copy[c].intact /\ status[TxnOf[copy[c].msg]] \in Api!Terminal
AnnouncedAsSigned ==
  \A i \in DOMAIN updated :
    \E c \in Copies : /\ Accepted(c) /\ copy[c].intact
                      /\ updated[i] = <<TxnOf[copy[c].msg], StatusOf[copy[c].msg]>>

\* Only the view, behind the check, answers 200 and announces.
LEMMA NewAnswers ==
  ASSUME TypeOK, UpdatesInv, EndpointInv, [UpdatesNext]_allVars
  PROVE  /\ \A c \in Copies : handler'[c].code = 200 =>
              \/ handler[c].code = 200 /\ handler'[c] = handler[c]
              \/ Accepted(c) /\ handler'[c].txn = handler[c].txn
         /\ \/ updated' = updated
            \/ \E c \in Copies : /\ Accepted(c) /\ Passed(c)
                                  /\ updated' = Append(updated, <<handler[c].txn, handler[c].new>>)
<1>0. /\ handler \in [Copies -> Api!HandlerRecord]
      /\ \A c \in Copies : handler[c].pc # "replied" => handler[c].code = 0
  BY DEF UpdatesInv, EndpointInv, ApiFacts!TypeInv, ApiFacts!RequestOK
<1>1. ASSUME NEW d \in Copies, NEW m \in Messages, ArriveUpdate(d, m)
      PROVE  updated' = updated /\ \A c \in Copies : handler'[c].code = 200 => handler'[c] = handler[c]
  <2>1. PICK n : n.code = 0 /\ handler' = [handler EXCEPT ![d] = n] /\ updated' = updated
    <3>1. PICK t, u : Api!Receive(d, t, u)
      BY <1>1 DEF ArriveUpdate
    <3>2. [pc |-> "verify", txn |-> t, new |-> u, code |-> 0].code = 0
      OBVIOUS
    <3>3. QED
      BY <3>1, <3>2 DEF Api!Receive
  <2>2. QED
    BY <1>0, <2>1
<1>2. ASSUME NEW d \in Copies, VerifyUpdate(d)
      PROVE  updated' = updated /\ \A c \in Copies : handler'[c].code = 200 => handler'[c] = handler[c]
  <2>1. CASE UNCHANGED apiVars
    BY <2>1 DEF apiVars
  <2>2. CASE Api!Verify(d)
    <3>1. handler[d].pc = "verify" /\ updated' = updated
      BY <2>2 DEF Api!Verify
    <3>2. handler[d].code = 0
      BY <1>0, <3>1
    <3>3. handler'[d].code # 200 /\ \A c \in Copies \ {d} : handler'[c] = handler[c]
      BY <1>0, <2>2, <3>2 DEF Api!Verify, Api!Goto, Api!Reply, Api!HandlerRecord
    <3>4. QED
      BY <3>1, <3>3
  <2>3. QED
    BY <1>2, <2>1, <2>2 DEF VerifyUpdate
<1>3. ASSUME NEW d \in Copies, Api!UpdateStep(d)
      PROVE  /\ Passed(d) /\ Accepted(d)
             /\ handler'[d].txn = handler[d].txn
             /\ \A c \in Copies \ {d} : handler'[c] = handler[c]
             /\ updated' = updated \/ updated' = Append(updated, <<handler[d].txn, handler[d].new>>)
  <2>1. updated' = updated \/ updated' = Append(updated, <<handler[d].txn, handler[d].new>>)
    BY <1>3 DEF Api!UpdateStep, Api!LoadRefused, Api!LoadPending, Api!Save, Api!PublishUpdated,
       Api!RepublishUpdated, Api!FinishUpdated, Api!HandlerError
  <2>2. QED
    BY <1>0, <1>3, <2>1, UpdateMoves DEF UpdatesInv
<1>4. CASE RestartService
  <2>1. /\ updated' = updated
        /\ \A c \in Copies : handler'[c].code = handler[c].code
        /\ \A c \in Copies : handler[c].pc \notin Api!Working => handler'[c] = handler[c]
    BY <1>0, <1>4 DEF RestartService, Api!ApiCrash, Api!HandlerRecord
  <2>2. \A c \in Copies : handler[c].code = 200 => handler[c].pc \notin Api!Working
    BY <1>0 DEF Api!Working, Api!Publishing
  <2>3. QED
    BY <2>1, <2>2
<1>5. QED
  BY <1>1, <1>2, <1>3, <1>4 DEF UpdatesNext, allVars, apiVars

LEMMA NextAnsweredInv ==
  /\ TypeInv /\ UpdatesInv /\ EndpointInv
  /\ \A c \in Copies : handler[c].code = 200 => Accepted(c)
  /\ AnnouncedAsSigned
  /\ [UpdatesNext]_allVars
  => (\A c \in Copies : handler[c].code = 200 => Accepted(c))' /\ AnnouncedAsSigned'
<1> SUFFICES ASSUME TypeInv, UpdatesInv, EndpointInv, AnnouncedAsSigned, [UpdatesNext]_allVars,
                    \A c \in Copies : handler[c].code = 200 => Accepted(c)
             PROVE  (\A c \in Copies : handler[c].code = 200 => Accepted(c))' /\ AnnouncedAsSigned'
  OBVIOUS
<1>1. \A c \in Copies : Accepted(c) => copy'[c] = copy[c] /\ Accepted(c)'
  BY GuardSteps, AcceptedStays
<1>2. \A c \in Copies : handler'[c].code = 200 => Accepted(c)'
  BY <1>1, NewAnswers DEF TypeInv
<1>3. AnnouncedAsSigned'
  <2>1. CASE updated' = updated
    BY <1>1, <2>1 DEF AnnouncedAsSigned
  <2>2. ASSUME NEW c \in Copies, Accepted(c), Passed(c),
               updated' = Append(updated, <<handler[c].txn, handler[c].new>>)
        PROVE  AnnouncedAsSigned'
    <3>1. /\ copy[c].intact
          /\ <<handler[c].txn, handler[c].new>> = <<TxnOf[copy[c].msg], StatusOf[copy[c].msg]>>
      BY <2>2 DEF UpdatesInv, AsSigned, Accepted
    <3>2. updated \in Seq(Txns \X ApiFacts!Terminal)
      BY DEF EndpointInv, ApiFacts!TypeInv, ApiFacts!TypeOK
    <3>3. \A i \in DOMAIN updated' :
            \/ i \in DOMAIN updated /\ updated'[i] = updated[i]
            \/ updated'[i] = <<handler[c].txn, handler[c].new>>
      BY <2>2, <3>2
    <3>4. QED
      BY <1>1, <2>2, <3>1, <3>3 DEF AnnouncedAsSigned
  <2>3. QED
    BY <2>1, <2>2, NewAnswers DEF TypeInv
<1>4. QED
  BY <1>2, <1>3

\* What leaves the service is as signed too: its answers and its announcements, of
\* whatever message, damaged or replayed, through restarts.
THEOREM AnswersAreSigned == UpdatesSpec => []AnsweredAsSigned /\ []AnnouncedAsSigned
<1>1. UpdatesInit => (\A c \in Copies : handler[c].code = 200 => Accepted(c)) /\ AnnouncedAsSigned
  BY DEF UpdatesInit, AnnouncedAsSigned
<1>2. UpdatesSpec => []TypeInv
  BY GuardIsKept, TypeInvariant, PTL
<1>3. UpdatesSpec => []((\A c \in Copies : handler[c].code = 200 => Accepted(c))
                       /\ AnnouncedAsSigned)
  BY <1>1, <1>2, NextAnsweredInv, UpdatesInvariant, EndpointInvariant, PTL DEF UpdatesSpec
<1>4. /\ UpdatesInv /\ EndpointInv /\ AnnouncedAsSigned
      /\ \A c \in Copies : handler[c].code = 200 => Accepted(c)
      => AnsweredAsSigned
  <2> SUFFICES ASSUME UpdatesInv, EndpointInv, NEW c \in Copies, handler[c].code = 200, Accepted(c)
               PROVE  copy[c].intact /\ status[TxnOf[copy[c].msg]] \in Api!Terminal
    BY DEF AnsweredAsSigned
  <2>1. copy[c].intact /\ AsSigned(c)
    BY DEF UpdatesInv, Accepted
  <2>2. handler[c].pc = "replied"
    BY DEF EndpointInv, ApiFacts!TypeInv, ApiFacts!RequestOK
  <2>3. status[handler[c].txn] \in ApiFacts!Terminal
    BY <2>2 DEF EndpointInv, ApiFacts!AnswerMeansSettled, ApiFacts!SaysSettled, ApiFacts!Saved
  <2>4. QED
    BY <2>1, <2>3 DEF AsSigned, Api!Terminal, ApiFacts!Terminal
<1>5. QED
  BY <1>3, <1>4, UpdatesInvariant, EndpointInvariant, PTL
===============================================================================
