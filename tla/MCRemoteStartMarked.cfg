CONSTANTS
  MaxRequests = 2
  MaxTxs = 1
SPECIFICATION Spec
INVARIANT AcceptedStartIsMarked
