CONSTANTS
  Activities = {a, b, c}
  Modes = {No, Yes}
  Undefined = Undefined
  MaxChanges = 3
SPECIFICATION GtkFairSpec
INVARIANTS TypeOK NoEmitInBind LastValueWins FirstIsSafe
PROPERTIES BindOpensLatch FirstCreateEnds
CHECK_DEADLOCK FALSE
