SPECIFICATION Spec
CONSTANTS
  Chip = "CHX001"
  Revision10 = FALSE
  RunCTS = FALSE
  CPMethod = "ASSR"
  Offers <- MCOffers
  Cables <- MCCables
  MaxPolls = 1
  MaxNoise = 3
  MaxFaults = 1
  MaxPulls = 1
  MaxTrainings = 2
INVARIANTS ReportedIsLocked ToldBeforePattern NoPatternLeft RetriesAbsorbNoise
PROPERTY PromiseSpec
CHECK_DEADLOCK FALSE
