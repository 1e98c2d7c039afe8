---------------------------- MODULE MCSignedUpdates ----------------------------
(* TLC's instance of SignedUpdates: two messages disagree about one transaction.  *)
(* The signer's clock is up to two tolerances late or three early, so that both   *)
(* ends of the window are crossed.                                                *)
EXTENDS SignedUpdates, TLC

CONSTANTS m1, m2, t1, alice, wallet

MCSkews    == -2..3
MCOwner    == wallet :> alice
MCTxnOf    == m1 :> t1 @@ m2 :> t1
MCStatusOf == m1 :> "COMPLETED" @@ m2 :> "FAILED"
MCForgeries == {t1} \X {"FAILED", "ABSENT"}
Symmetry   == Permutations(Copies)
===============================================================================
