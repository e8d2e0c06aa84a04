SPECIFICATION Spec
CONSTANTS
  MaxBytes = 2
  FifoSize = 2
  Trigger = 2
  SoftLimit = 2
  RxRing = 1
  TxRing = 3
  CqSize = 1
  RxBudget = 2
  TxBudget = 2
  TxChunk = 1
  Interleave = 1
  EventBudget = 1
  Submits = {"read", "write"}
  Calls = {"read", "write", "baud"}
INVARIANTS
  BytesInOrder
  Signalled
CHECK_DEADLOCK FALSE
