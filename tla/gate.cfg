CONSTANTS
  Libs <- MCLibs
  Tier1 <- MCTier1
  Tier2 <- MCTier2
  Needs <- MCNeeds
  Strict = {}
  WipesStage = {}
  PostSteps = {"glib", "glibmm"}
  Gated = {"glibmm"}
  LdExtra = {"libxkbcommon"}
  CMakes = {"expat"}
  BlenderDirs = 1
  MaxDirs = 25
  Legacy = {}
  OnRunner = TRUE
  Dispatches <- MCDispatches
  Forces = {FALSE}
  MaxVer = 0
  MaxFaults = 1
SPECIFICATION Spec
INVARIANT GateHolds
