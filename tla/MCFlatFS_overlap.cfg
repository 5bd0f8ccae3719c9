SPECIFICATION Spec
CONSTANTS
  UserNames <- TwoFiles
  NSlots = 2
  OpenMax = 2
  SectorSize = 2
  DataLba = 2
  NSectors = 3
  Data = {1, 2}
  Buffers <- HalfSectors
  Lengths = {1}
  Offsets <- NegativeAndOne
  MaxSize = 3
  MaxLba = 6
INVARIANT ExtentsDisjoint
