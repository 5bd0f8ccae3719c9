SPECIFICATION CSpec
CONSTANTS
  A = A
  B = B
  UserNames <- TwoFiles
  NSlots = 2
  OpenMax = 1
  SectorSize = 2
  DataLba = 2
  NSectors = 2
  Data = {1, 2}
  Buffers <- HalfSectors
  Lengths = {2}
  Offsets = {1}
  MaxSize = 3
  MaxLba = 3
INVARIANTS CTypeOK ExtentsDisjoint WriterOwnsTheTail ReadersSeeTheFile
PROPERTY ImplementsFileMap
