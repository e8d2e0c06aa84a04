SPECIFICATION Spec
CONSTANTS
  Num = 4
  IdxMod = 8
  Users = {u1, u2}
  Kinds = {"read"}
  ReqSlots = 2
  Batch = 1
  SqEntries = 1
  Disturbs = {"bare", "config", "poke"}
  None = None
INVARIANTS
  TypeOK
  NoLostKick
  NoLostCompletion
  NoLostSubmission
SYMMETRY UserSymmetry
