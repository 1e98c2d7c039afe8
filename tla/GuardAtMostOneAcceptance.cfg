\* No restart: two verifications overlap, see the finding.
SPECIFICATION Spec
CONSTANTS
  Messages = {m1}
  Copies = {c1, c2, c3}
  Tolerance = 1
  Skews <- MCSkews
  MaxTime = 1
  MaxRestarts = 0
  Nil = Nil
  m1 = m1  c1 = c1  c2 = c2  c3 = c3
SYMMETRY Symmetry
INVARIANT AtMostOneAcceptance
CHECK_DEADLOCK FALSE
