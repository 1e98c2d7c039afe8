\* Three overlapping status updates of one transaction, events sent twice, a crash.
SPECIFICATION Spec
CONSTANTS
  Txns = {t1}
  Accounts = {wallet}
  Users = {alice, bob}
  Owner <- MCOwner
  Kinds = {"DEBIT", "CREDIT"}
  Amounts = {0, 5}
  Deletable = {wallet}
  Requests = {r1, r2, r3}
  AckLoss = TRUE
  MaxCrashes = 1
  Nil = Nil
  alice = alice  bob = bob  wallet = wallet
  t1 = t1  r1 = r1  r2 = r2  r3 = r3
SYMMETRY Symmetry
INVARIANTS TypeOK EventHasRow StatusHasWriter UpdatedHasWriter AnswerMeansSettled SoleWriterStands
PROPERTIES NeverReopened LateReaderRefused ClosedAccountTakesNone
CHECK_DEADLOCK FALSE
