\* A PATCH read its row before a DELETE: see the finding.
SPECIFICATION Spec
CONSTANTS
  Users = {alice, bob}
  Accounts = {wallet}
  Owner <- MCOwner
  Emails = {e1, e2}
  Names = {n1, n2}
  Requests = {r1, r2}
  Nil = Nil
  alice = alice  bob = bob  wallet = wallet
SYMMETRY Symmetry
PROPERTY DeletedStaysDeleted
