SPECIFICATION Spec
CONSTANTS
  o1 = o1 o2 = o2 w1 = w1 w2 = w2 NoOrder = NoOrder
  Orders <- TwoOrders Workers <- TwoWorkers Units <- TwoEach Price <- SamePrice
  Stock = 4 UsageLimit = 1
  Switches <- Always Providers = {"zarinpal"}
  Decisions = {}
  MaxDecisions = 0 MaxLost = 0 MaxExpired = 0 MaxSwitches = 0 MaxCrashes = 0
INVARIANTS PaidByItsOwn
CHECK_DEADLOCK FALSE
