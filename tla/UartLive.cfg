SPECIFICATION FairSpec
CONSTANTS
  MaxBytes = 2
  FifoSize = 2
  Trigger = 2
  SoftLimit = 1
  RxRing = 1
  TxRing = 1
  CqSize = 1
  RxBudget = 1
  TxBudget = 1
  TxChunk = 1
  Interleave = 1
  EventBudget = 1
  Submits = {"read", "bad"}
  Calls = {}
INVARIANTS
  TypeOK
PROPERTIES
  BytesDelivered
  RequestsAnswered
CHECK_DEADLOCK FALSE
