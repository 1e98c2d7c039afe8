\* One transaction whose event is sent twice or delivered twice; either service may crash.
SPECIFICATION Spec
CONSTANTS
  Txns = {t1}
  Accounts = {wallet}
  Users = {alice}
  Owner <- MCOwner
  Kinds = {"DEBIT"}
  Amounts = {5}
  Deletable = {}
  AckLoss = TRUE
  MaxCrashes = 1
  MaxDeliveries = 2
  MaxResets = 1
  Nil = Nil
  alice = alice  wallet = wallet
  t1 = t1
INVARIANTS TypeOK PatchFindsRow OkMeansSettled SettledByPaymentRun
PROPERTY ImplementsLifecycle
CHECK_DEADLOCK FALSE
