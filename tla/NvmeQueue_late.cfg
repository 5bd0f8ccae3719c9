SPECIFICATION Spec
CONSTANTS
  QDepth = 3
  CidMod = 4
  NBlocks = 2
  Values = {1, 2}
  MaxCount = 2
  TimeoutsHappen = TRUE
INVARIANT CompletionIsOurs
