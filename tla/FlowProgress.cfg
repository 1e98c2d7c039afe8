\* Liveness of one transaction with every failure enabled.
SPECIFICATION FairSpec
CONSTANTS
  Txns = {t1}
  Accounts = {wallet}
  Users = {alice}
  Owner <- MCOwner
  Kinds = {"DEBIT"}
  Amounts = {5}
  Deletable = {}
  AckLoss = FALSE
  MaxCrashes = 1
  MaxDeliveries = 2
  MaxResets = 1
  Nil = Nil
  alice = alice  wallet = wallet
  t1 = t1
PROPERTIES SettledOrExcused TasksEnd EveryRequestAnswered
CHECK_DEADLOCK FALSE
