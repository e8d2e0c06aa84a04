SPECIFICATION Spec
CONSTANTS
  Num = 2
  IdxMod = 4
  Users = {u1}
  Kinds = {"tx"}
  Batch = 1
  SqEntries = 1
  HdrLen = 10
  Lens = {12}
  Masks = TRUE
  None = None
SYMMETRY UserSymmetry
INVARIANTS
  CompletionDelivered
CHECK_DEADLOCK FALSE
