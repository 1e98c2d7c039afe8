------------------------------ MODULE MCHmacGuard ------------------------------
(* TLC's instance of HmacGuard: the signer's clock is up to two tolerances late *)
(* or three early, so that both ends of the window are crossed.                 *)
EXTENDS HmacGuard, TLC

MCSkews  == -2..3
Symmetry == Permutations(Messages) \cup Permutations(Copies)
===============================================================================
