SPECIFICATION LiveSpec
CONSTANTS
  N = 4
  Callers = {c1, c2}
  MaxChanges = 1
INVARIANT TypeOK
PROPERTY ImplementsAnyHost
PROPERTY SettlesOnWorkingHost
