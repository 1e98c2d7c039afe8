------------------------------ MODULE MCDocuments ------------------------------
(* TLC's instance of Documents.  Documents, users and downloads are each          *)
(* interchangeable.                                                               *)
EXTENDS Documents, TLC

Symmetry == Permutations(Docs) \cup Permutations(Users) \cup Permutations(Downloads)
                 \cup Permutations(Removals)
===============================================================================
