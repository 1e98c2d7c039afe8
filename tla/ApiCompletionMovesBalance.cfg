\* README.md:27 against the code: see the finding about CompletionMovesBalance.
SPECIFICATION Spec
CONSTANTS
  Txns = {t1}
  Accounts = {wallet}
  Users = {alice}
  Owner <- MCOwner
  Kinds = {"CREDIT"}
  Amounts = {5}
  Deletable = {wallet}
  Requests = {r1}
  AckLoss = FALSE
  MaxCrashes = 0
  Nil = Nil
  alice = alice  bob = bob  wallet = wallet
  t1 = t1  r1 = r1
PROPERTY CompletionMovesBalance
CHECK_DEADLOCK FALSE
