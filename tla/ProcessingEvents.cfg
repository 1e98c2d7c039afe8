\* Two events, a reset, and room for every redelivery it can cause.
SPECIFICATION FairSpec
CONSTANTS
  Txns = {t1}
  MaxEvents = 2
  MaxDeliveries = 4
  MaxResets = 1
  Nil = Nil
INVARIANTS TypeOK NoEventSkipped RedeliveryNeedsReset
PROPERTY EventsDelivered
CHECK_DEADLOCK FALSE
