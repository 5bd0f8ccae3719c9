SPECIFICATION Spec
CONSTANTS
  UserNames <- BothSpellings
  NSlots = 2
  OpenMax = 1
  SectorSize = 2
  DataLba = 2
  NSectors = 2
  Data = {1, 2}
  Buffers <- HalfSectors
  Lengths = {2}
  Offsets <- NegativeAndOne
  MaxSize = 3
  MaxLba = 3
INVARIANTS TypeOK UniqueNames DirtyCacheAtPosition DataPastDirectory
