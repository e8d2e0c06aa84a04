SPECIFICATION FairSpec
CONSTANTS
  Num = 4
  IdxMod = 8
  Users = {u1, u2}
  Kinds = {"write", "badaddr"}
  ReqSlots = 1
  Batch = 1
  SqEntries = 1
  Disturbs = {"bare"}
  None = None
PROPERTIES
  EveryRequestAnswered
