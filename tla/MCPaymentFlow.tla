----------------------------- MODULE MCPaymentFlow -----------------------------
(* TLC's instance of PaymentFlow: one account, one amount.  Transactions are    *)
(* interchangeable; deliveries are numbered in the order they start and are not.*)
EXTENDS PaymentFlow, TLC

CONSTANTS alice, wallet

MCOwner == wallet :> alice
Symmetry == Permutations(Txns)
===============================================================================
