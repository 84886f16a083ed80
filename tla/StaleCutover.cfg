SPECIFICATION Spec
CONSTANTS
  w1 = w1 w2 = w2
  Workers <- OneTick Items <- TwoRecords Shapes <- TwoPages
  Operations = {"import", "sync", "cutover", "rollback", "dry-run", "reconcile"}
  Controls = {"pause", "run", "cancel"}
  MaxVersion = 2 MaxCommands = 3 MaxEvents = 1
PROPERTIES CutoverIsFaithful
CHECK_DEADLOCK FALSE
