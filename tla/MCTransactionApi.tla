--------------------------- MODULE MCTransactionApi ---------------------------
(* TLC's instance of TransactionApi: one account, its owner and a stranger.     *)
EXTENDS TransactionApi, TLC

CONSTANTS alice, bob, wallet

MCOwner == wallet :> alice
Symmetry == Permutations(Txns) \cup Permutations(Requests)
===============================================================================
