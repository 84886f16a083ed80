SPECIFICATION FairSpec
CONSTANTS
  worker = worker other = other NoWorker = NoWorker
  Workers <- JobsReplica
  MaxQuantity = 2 MaxAttempts = 3 MaxReplays = 2 MaxCrashes = 1
INVARIANTS SentIsAccepted CorrectsAccepted
PROPERTIES EventsSettle
CHECK_DEADLOCK FALSE
