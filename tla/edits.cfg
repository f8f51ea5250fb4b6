CONSTANTS
  MaxFaults = 2
SPECIFICATION FairSpec
INVARIANTS TypeOK CompiledIsEdited RefusedForUpstream
PROPERTIES ExpectedSourcesCompile
