SPECIFICATION Spec
CONSTANTS
  w1 = w1 w2 = w2
  Workers <- TwoTicks Items <- TwoRecords Shapes <- TwoPages
  Operations = {"import"}
  Controls = {}
  MaxVersion = 1 MaxCommands = 1 MaxEvents = 0
INVARIANTS TicksImportOnce
CHECK_DEADLOCK FALSE
