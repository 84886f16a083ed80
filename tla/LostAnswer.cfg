SPECIFICATION Spec
CONSTANTS
  worker = worker other = other NoWorker = NoWorker
  Workers <- JobsReplica
  MaxQuantity = 2 MaxAttempts = 2 MaxReplays = 0 MaxCrashes = 0
INVARIANTS ExportedIsAccepted
CHECK_DEADLOCK FALSE
