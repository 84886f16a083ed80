SPECIFICATION Spec
CONSTANTS
  o1 = o1 o2 = o2 w1 = w1 w2 = w2 NoOrder = NoOrder
  Orders <- TwoOrders Workers <- TwoWorkers Units <- TwoEach Price <- SamePrice
  Stock = 4 UsageLimit = 1
  Switches <- Always Providers = {"snappPay"}
  Decisions = {"paid", "refunded"}
  MaxDecisions = 1 MaxLost = 1 MaxExpired = 0 MaxSwitches = 0 MaxCrashes = 0
INVARIANTS TypeOK PaidWasConfirmed SettledPerCrossing CountsBalance
SYMMETRY Symmetry
CHECK_DEADLOCK FALSE
