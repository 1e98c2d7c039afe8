----------------------------- MODULE MCSoftDelete -----------------------------
(* TLC's instance of SoftDelete: two users of whom the first owns the account. *)
EXTENDS SoftDelete, TLC

CONSTANTS alice, bob, wallet

MCOwner  == wallet :> alice
Symmetry == Permutations(Emails) \cup Permutations(Names) \cup Permutations(Requests)
===============================================================================
