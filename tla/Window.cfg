SPECIFICATION Spec
CONSTANTS
  Chat = {a, b}
  MaxChanges = 2
  MaxOpens = 2
  Owner = {p, q}
  MaxEdits = 3
  MaxTasks = 3
  MaxSaves = 2
  MaxLookups = 3
  Holder = {p, q}
  MaxKept = 2
  MaxText = 2
  MaxItems = 3
  MaxTyped = 2
  MaxCalls = 4
  MaxSwitches = 1
INVARIANTS
  WindowTypeOK
  ViewFollows
PROPERTIES
  ViewNeverGoesBack
  FlushKeepsAll
  NothingChangesUnderneath
CHECK_DEADLOCK FALSE
