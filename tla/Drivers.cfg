SPECIFICATION DriversSpec
CONSTANTS
  None = None
  Clients = {"c1", "c2", "zero"}
  Badge0 = "zero"
  Slots = 5
  Page = 2
  MaxSetups = 2
  Sizes <- BufferSizes
  Offered <- OfferedSets
  Ids = {0, 1, 2, 3, 16, 18, 99}
  PciSizes = {0, 1, 255, 256, 4096}
  PciBoards <- AllBoards
  PGSIZE = 4
  Memory = 8
  Regions = {1, 4, 6}
  MapSlots = 3
  MaxLive = 2
  TableSets <- AllTables
  TreeSet <- AllTrees
  TreeCalls = 2
  HalfWord = 2
  MaxTime = 5
  ClockCalls = 3
  Width = 3
  Pins = {0, 1, 4}
INVARIANTS
  ServiceSound
  SettledRing
  LiveAsKnown
  FunctionsFound
  FunctionsDescribed
  MappingExact
  TablesListed
  TreeAnswered
PROPERTIES
  OthersUntouched
  ClockTrue
  PinsKept
CHECK_DEADLOCK FALSE
