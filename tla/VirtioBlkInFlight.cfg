SPECIFICATION BoundedSpec
CONSTANTS
  Num = 7
  IdxMod = 14
  Users = {u1, u2, u3}
  Kinds = {"read", "badop", "badaddr"}
  ReqSlots = 3
  Batch = 3
  SqEntries = 3
  Disturbs = {"config", "poke"}
  MaxRequests = 3
  None = None
INVARIANTS
  DeviceMemoryStable
  OneHome
  LeakBound
PROPERTY ImplementsContract
SYMMETRY UserSymmetry
CHECK_DEADLOCK FALSE
