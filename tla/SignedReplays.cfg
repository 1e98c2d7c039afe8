\* Two copies of two messages, intact or damaged, with a restart.
SPECIFICATION UpdatesSpec
CONSTANTS
  Messages = {m1, m2}
  Copies = {c1, c2}
  Tolerance = 1
  Skews <- MCSkews
  MaxTime = 4
  MaxRestarts = 1
  Txns = {t1}
  Accounts = {wallet}
  Users = {alice}
  Owner <- MCOwner
  Kinds = {"DEBIT"}
  Amounts = {5}
  Deletable = {}
  AckLoss = FALSE
  TxnOf <- MCTxnOf
  StatusOf <- MCStatusOf
  Forgeries <- MCForgeries
  Nil = Nil
  m1 = m1  m2 = m2  t1 = t1  alice = alice  wallet = wallet
  c1 = c1  c2 = c2
SYMMETRY Symmetry
INVARIANTS TypeOK AcceptedWindow FreshRefusalMeansAccepted SettledAsSigned
PROPERTIES LateDuplicateRefused ReplayChangesNothing
CHECK_DEADLOCK FALSE
