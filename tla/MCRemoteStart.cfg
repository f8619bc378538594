CONSTANTS
  MaxRequests = 2
  MaxTxs = 2
SPECIFICATION Spec
INVARIANTS
  TypeOK
  PendingHasTimer
  EntryServesOnce
