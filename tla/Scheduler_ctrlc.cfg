SPECIFICATION FairSpec
CONSTANTS
  MaxThreads = 1
  TickMod = 6
  Naps = {1, 2}
  Calls = {"getkey"}
PROPERTY CtrlCEndsProgram
