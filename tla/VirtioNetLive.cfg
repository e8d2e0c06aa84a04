SPECIFICATION FairSpec
CONSTANTS
  Num = 5
  IdxMod = 10
  Users = {u1, u2}
  Kinds = {"tx", "badtx", "badop"}
  Batch = 2
  SqEntries = 2
  HdrLen = 10
  Lens = {12}
  Masks = TRUE
  None = None
INVARIANTS
  TypeOK
  SubmissionSignalled
PROPERTIES
  SendsCarriedOut
CHECK_DEADLOCK FALSE
