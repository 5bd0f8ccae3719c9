SPECIFICATION FairSpec
CONSTANTS
  MaxThreads = 2
  TickMod = 6
  Naps = {1, 2}
  Calls = {"sleep", "sleepf", "getkey"}
INVARIANTS TypeOK ThreadTableConsistent NoStrayKill
PROPERTIES RunnableThreadRuns TrampolineEndsProgram
