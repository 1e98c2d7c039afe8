\* Two deliveries of one event race on the row: see the finding.
SPECIFICATION Spec
CONSTANTS
  Txns = {t1}
  Accounts = {wallet}
  Users = {alice}
  Owner <- MCOwner
  Kinds = {"DEBIT"}
  Amounts = {5}
  Deletable = {}
  AckLoss = TRUE
  MaxCrashes = 0
  MaxDeliveries = 2
  MaxResets = 0
  Nil = Nil
  alice = alice  wallet = wallet
  t1 = t1
PROPERTY TerminalIsFinal
CHECK_DEADLOCK FALSE
