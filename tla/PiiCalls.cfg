\* One call of the formatter or of AuditLog.log on every value up to the bounds.
SPECIFICATION Spec
CONSTANTS
  Lower <- MCLower
  SensitiveKeys = {"token"}
  SkippedKeys = {"message", "_state"}
  AddressKeys = {"ann@x.org"}
  MaxNesting = 3
  Nested <- MCNested
  Messages <- MCMessages
  Errors <- MCMessages
  Attributes <- MCAttributes
  Snapshots <- MCSnapshots
INVARIANTS TypeOK ScrubMeetsReference NothingElseLeaks
CHECK_DEADLOCK FALSE
