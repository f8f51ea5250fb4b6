CONSTANTS
  Ndks = {"r30", "r30-beta1", "r99"}
  Released = {"r30", "r30-beta1"}
  MaxHead = 2
  MaxFaults = 2
SPECIFICATION FairSpec
INVARIANTS TypeOK LibsNotStale NdkCacheWorks IndInv
PROPERTIES QuietJobBuilds
