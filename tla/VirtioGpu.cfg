SPECIFICATION BoundedSpec
CONSTANTS
  Num = 2
  IdxMod = 4
  Users = {u1, u2}
  Bufs = {b1}
  CqSize = 1
  MaxOpened = 3
  None = None
INVARIANTS
  TypeOK
  CommandsComplete
  Signalled
  ScreenTrue
PROPERTIES
  ImplementsContract
  EveryRequestAnswered
CHECK_DEADLOCK FALSE
