SPECIFICATION BoundedSpec
CONSTANTS
  Num = 5
  IdxMod = 10
  Users = {u1, u2}
  Kinds = {"rx", "tx", "badop", "badrx"}
  Batch = 2
  SqEntries = 2
  HdrLen = 10
  Lens = {4, 12}
  Masks = FALSE
  MaxRequests = 3
  None = None
SYMMETRY UserSymmetry
INVARIANTS
  ChainsKept
  Signalled
PROPERTIES
  ImplementsContract
CHECK_DEADLOCK FALSE
