CONSTANTS
  Libs <- MCLibs
  Tier1 <- MCTier1
  Tier2 <- MCTier2
  Needs <- MCNeeds
  Strict = {}
  WipesStage = {}
  PostSteps = {"glib", "glibmm"}
  Gated = {"glibmm"}
  LdExtra = {"libxkbcommon"}
  CMakes = {"expat"}
  BlenderDirs = 1
  MaxDirs = 25
  Legacy = {}
  OnRunner = TRUE
  Dispatches <- MCDispatches
  Forces = {TRUE, FALSE}
  MaxVer = 1
  MaxFaults = 1
SPECIFICATION FairSpec
INVARIANTS TypeOK PassedIsHarvested ForcedIsCurrent FlagsIsolated EnvFits GateOnRunner IndInv
PROPERTIES DepsBeforeUse KeepsHarvested QuietLaunchFinishes
