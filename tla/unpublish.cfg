CONSTANTS
  Libs <- MCLibs
  Tier1 <- MCTier1
  Tier2 <- MCTier2
  Needs <- MCNeeds
  Strict = {"icu"}
  WipesStage = {}
  PostSteps = {"fontconfig"}
  Gated = {"fontconfig"}
  LdExtra = {}
  CMakes = {"expat"}
  BlenderDirs = 1
  MaxDirs = 12
  Legacy = {}
  OnRunner = TRUE
  Dispatches <- MCDispatches
  Forces = {TRUE, FALSE}
  MaxVer = 0
  MaxFaults = 1
  MaxForeign = 0
SPECIFICATION WSpec
PROPERTY NeverUnpublishes
