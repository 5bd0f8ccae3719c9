SPECIFICATION MCSpec
CONSTANTS
  QDepth = 3
  CidMod = 2
  NBlocks = 2
  Values = {1, 2}
  MaxCount = 2
  TimeoutsHappen = TRUE
INVARIANTS TypeOK PhaseTellsFresh OwnCompletion TransferredDataIsOnMedia PrefixSurvivesFailure
PROPERTY DeadControllerIsLeft
