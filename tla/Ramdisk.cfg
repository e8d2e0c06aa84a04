SPECIFICATION BoundedSpec
CONSTANTS
  Rough = rough
  Plain = plain
  Users = {rough, plain}
  Val = {0, 1}
  DiskLen = 2
  BlockSize = 2
  BufVa = 4
  BufLen = 4
  Word = 16
  Entry <- Asks
  CqSize = 1
  MaxOpened = 3
  None = None
PROPERTIES
  ImplementsStore
  EveryRequestAnswered
CHECK_DEADLOCK FALSE
