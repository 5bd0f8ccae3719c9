SPECIFICATION SSpec
CONSTANTS
  A = A
  B = B
  UserNames <- SymmetricFiles
  NSlots = 2
  OpenMax = 1
  SectorSize = 1
  DataLba = 2
  NSectors = 3
  Data = {1, 2}
  Buffers <- DistinctContents
  Lengths = {}
  Offsets = {}
  MaxSize = 1
  MaxLba = 3
  MaxFailures = 1
INVARIANTS STypeOK StoreInStep StoreExtentsDisjoint CrashTearsOnlyAReplacedFile
PROPERTY ImplementsDurableMap
SYMMETRY Exchange
