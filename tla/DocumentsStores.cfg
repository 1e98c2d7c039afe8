\* Two documents, two downloads, two deletions; every step may fail or be the last.
SPECIFICATION Spec
CONSTANTS
  Docs = {d1, d2}
  Users = {u1, u2}
  Downloads = {g1, g2}
  Removals = {m1, m2}
  Nil = Nil
SYMMETRY Symmetry
INVARIANTS TypeOK RowHasObject OrphanHasFailedUpload AnswersAreAudited
PROPERTY DeletedIsDoneWith
