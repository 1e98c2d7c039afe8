------------------------------- MODULE HmacGuard -------------------------------
(***************************************************************************)
(* The HMAC check in front of the status update: the processing service    *)
(* signs a request with its own clock (hmac_auth.py), the account service  *)
(* verifies every copy of it that arrives (hmac_middleware.py), each in a  *)
(* thread of its own, against a set of nonces it keeps in memory.          *)
(*                                                                         *)
(* A message stands for its nonce, a fresh uuid4.  A copy is intact when   *)
(* method, path, body and secret are those the signature was made with.    *)
(***************************************************************************)
EXTENDS Integers

CONSTANTS
  Messages,            \* signed requests
  Copies,              \* their arrivals at the account service
  Tolerance,           \* TIMESTAMP_TOLERANCE
  Skews,               \* by how much the signer's clock may be ahead
  MaxTime,             \* bound: the account service's clock
  MaxRestarts,         \* bound: restarts of the account service
  Nil                  \* no value

ASSUME GuardAssumption ==
  /\ Tolerance \in Nat
  /\ Skews \subseteq Int
  /\ {MaxTime, MaxRestarts} \subseteq Nat
  /\ Nil \notin Int

VARIABLES
  now,                 \* int(time.time()) at the account service
  signedAt,            \* X-Timestamp of a message, Nil until it is signed
  usedNonces,          \* _used_nonces
  copy,                \* where the verification of each copy stands
  life                 \* restarts so far

vars == <<now, signedAt, usedNonces, copy, life>>

Pcs == {"unsent", "arrived", "nonce", "signature", "accepted", "refused", "lost"}
Verifying == {"arrived", "nonce", "signature"}

Abs(n) == IF n < 0 THEN -n ELSE n

Init ==
  /\ now = 0
  /\ signedAt = [m \in Messages |-> Nil]
  /\ usedNonces = {}
  /\ copy = [c \in Copies |->
               [pc |-> "unsent", msg |-> Nil, intact |-> TRUE, checked |-> Nil, life |-> 0]]
  /\ life = 0

Tick ==
  /\ now < MaxTime
  /\ now' = now + 1
  /\ UNCHANGED <<signedAt, usedNonces, copy, life>>

\* sign_request: the timestamp is the signer's time, the nonce is new.
Sign(m) ==
  /\ signedAt[m] = Nil
  /\ \E skew \in Skews : signedAt' = [signedAt EXCEPT ![m] = now + skew]
  /\ UNCHANGED <<now, usedNonces, copy, life>>

\* A copy of a signed message reaches verify_hmac_request.
Arrive(c, m, intact) ==
  /\ copy[c].pc = "unsent"
  /\ signedAt[m] # Nil
  /\ copy' = [copy EXCEPT ![c].pc = "arrived", ![c].msg = m, ![c].intact = intact]
  /\ UNCHANGED <<now, signedAt, usedNonces, life>>

\* "Missing HMAC headers", "Invalid timestamp": a copy that lost or garbled one.
RefuseHeaders(c) ==
  /\ copy[c].pc = "arrived"
  /\ ~copy[c].intact
  /\ copy' = [copy EXCEPT ![c].pc = "refused"]
  /\ UNCHANGED <<now, signedAt, usedNonces, life>>

\* Mutant: only an old timestamp counts as stale.
CheckTimestampOneSided(c) ==
  /\ copy[c].pc = "arrived"
  /\ copy' = IF now - signedAt[copy[c].msg] > Tolerance
             THEN [copy EXCEPT ![c].pc = "refused"]
             ELSE [copy EXCEPT ![c].pc = "nonce", ![c].checked = now]
  /\ UNCHANGED <<now, signedAt, usedNonces, life>>

\* "Stale timestamp" when the two clocks are further apart than the tolerance.
CheckTimestamp(c) ==
  /\ copy[c].pc = "arrived"
  /\ copy' = IF Abs(now - signedAt[copy[c].msg]) > Tolerance
             THEN [copy EXCEPT ![c].pc = "refused"]
             ELSE [copy EXCEPT ![c].pc = "nonce", ![c].checked = now]
  /\ UNCHANGED <<now, signedAt, usedNonces, life>>

\* Mutant: the nonce is recorded before the signature is compared.
CheckNonceRecording(c) ==
  /\ copy[c].pc = "nonce"
  /\ copy' = [copy EXCEPT ![c].pc = IF copy[c].msg \in usedNonces
                                    THEN "refused" ELSE "signature"]
  /\ usedNonces' = usedNonces \cup {copy[c].msg}
  /\ UNCHANGED <<now, signedAt, life>>

\* "Nonce already used".
CheckNonce(c) ==
  /\ copy[c].pc = "nonce"
  /\ copy' = [copy EXCEPT ![c].pc = IF copy[c].msg \in usedNonces
                                    THEN "refused" ELSE "signature"]
  /\ UNCHANGED <<now, signedAt, usedNonces, life>>

\* Mutant: the nonce of an accepted request is not recorded.
CheckSignatureOnly(c) ==
  /\ copy[c].pc = "signature"
  /\ copy' = IF copy[c].intact
             THEN [copy EXCEPT ![c].pc = "accepted", ![c].life = life]
             ELSE [copy EXCEPT ![c].pc = "refused"]
  /\ UNCHANGED <<now, signedAt, usedNonces, life>>

\* Mutant: what is recorded is not the nonce but something else of the request.
CheckSignatureOther(c) ==
  /\ copy[c].pc = "signature"
  /\ IF copy[c].intact
     THEN /\ copy' = [copy EXCEPT ![c].pc = "accepted", ![c].life = life]
          /\ usedNonces' = usedNonces \cup {c}
     ELSE /\ copy' = [copy EXCEPT ![c].pc = "refused"]
          /\ UNCHANGED usedNonces
  /\ UNCHANGED <<now, signedAt, life>>

\* Mutant: the digests are not compared.
CheckSignatureAny(c) ==
  /\ copy[c].pc = "signature"
  /\ copy' = [copy EXCEPT ![c].pc = "accepted", ![c].life = life]
  /\ usedNonces' = usedNonces \cup {copy[c].msg}
  /\ UNCHANGED <<now, signedAt, life>>

\* "Signature mismatch" (for other than ASCII characters compare_digest raises, which
\* refuses the request just as well), or the nonce is recorded and the request accepted.
CheckSignature(c) ==
  /\ copy[c].pc = "signature"
  /\ IF copy[c].intact
     THEN /\ copy' = [copy EXCEPT ![c].pc = "accepted", ![c].life = life]
          /\ usedNonces' = usedNonces \cup {copy[c].msg}
     ELSE /\ copy' = [copy EXCEPT ![c].pc = "refused"]
          /\ UNCHANGED usedNonces
  /\ UNCHANGED <<now, signedAt, life>>

\* The account service restarts with an empty set; verifications end with it.
Restart ==
  /\ life < MaxRestarts
  /\ life' = life + 1
  /\ usedNonces' = {}
  /\ copy' = [c \in Copies |-> IF copy[c].pc \in Verifying
                               THEN [copy[c] EXCEPT !.pc = "lost"] ELSE copy[c]]
  /\ UNCHANGED <<now, signedAt>>

VerifyStep(c) ==
  RefuseHeaders(c) \/ CheckTimestamp(c) \/ CheckNonce(c) \/ CheckSignature(c)

Next ==
  \/ Tick
  \/ Restart
  \/ \E m \in Messages : Sign(m)
  \/ \E c \in Copies : VerifyStep(c)
  \/ \E c \in Copies, m \in Messages, intact \in BOOLEAN : Arrive(c, m, intact)

Spec == Init /\ [][Next]_vars

-------------------------------------------------------------------------------
(* Properties *)

CopyRecord == [pc : Pcs, msg : Messages \cup {Nil}, intact : BOOLEAN,
               checked : Int \cup {Nil}, life : 0..MaxRestarts]

TypeOK ==
  /\ now \in 0..MaxTime
  /\ signedAt \in [Messages -> Int \cup {Nil}]
  /\ usedNonces \subseteq Messages
  /\ copy \in [Copies -> CopyRecord]
  /\ life \in 0..MaxRestarts

Accepted(c) == copy[c].pc = "accepted"

\* Two accepted copies of one request were timed within twice the tolerance of
\* each other, whatever the set of nonces forgot: a nonce has to be remembered
\* that long and no longer (the TTL hmac_auth.py speaks of).
AcceptedWindow ==
  \A c, d \in Copies :
    Accepted(c) /\ Accepted(d) /\ copy[c].msg = copy[d].msg =>
      copy[c].checked - copy[d].checked <= 2 * Tolerance

\* A copy that is looked up after another one was accepted by the same process is
\* refused: a second acceptance takes two overlapping verifications or a restart.
LateDuplicateRefused ==
  [][\A c, d \in Copies :
       /\ copy[c].pc = "nonce" /\ copy'[c].pc = "signature"
       /\ Accepted(d) /\ copy[d].msg = copy[c].msg
       => copy[d].life # life]_vars

\* An intact copy that is in time is refused only for a request that was accepted:
\* a damaged copy does not use up the nonce.
FreshRefusalMeansAccepted ==
  \A c \in Copies :
    /\ copy[c].pc = "refused" /\ copy[c].intact /\ copy[c].checked # Nil
    => \E d \in Copies : Accepted(d) /\ copy[d].msg = copy[c].msg

(* What the documentation says and the code does not do. *)

\* hmac_auth.py:5: a request cannot be replayed; hmac_middleware.py:8: a request
\* with a reused nonce is rejected.
AtMostOneAcceptance ==
  \A c, d \in Copies :
    Accepted(c) /\ Accepted(d) /\ copy[c].msg = copy[d].msg => c = d
===============================================================================
