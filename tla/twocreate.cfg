CONSTANTS
  Activities = {a, b}
  Modes = {No, Yes}
  Undefined = Undefined
  MaxChanges = 1
SPECIFICATION Spec
INVARIANT NoCircularWait
