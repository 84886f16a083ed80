SPECIFICATION FairSpec
CONSTANTS
  o1 = o1 o2 = o2 w1 = w1 w2 = w2 NoOrder = NoOrder
  Orders <- OneOrder Workers <- TwoWorkers Units <- One Price <- One
  Stock = 2 UsageLimit = 1
  Switches <- AllOrNone Providers = {"zarinpal"}
  Decisions = {}
  MaxDecisions = 0 MaxLost = 0 MaxExpired = 0 MaxSwitches = 1 MaxCrashes = 0
PROPERTIES MoneyOutlivesSwitch
CHECK_DEADLOCK FALSE
