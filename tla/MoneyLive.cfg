SPECIFICATION FairSpec
CONSTANTS
  o1 = o1 o2 = o2 w1 = w1 w2 = w2 NoOrder = NoOrder
  Orders <- OneOrder Workers <- TwoWorkers Units <- One Price <- One
  Stock = 2 UsageLimit = 1
  Switches <- AllOrNone
  Providers = {"bank", "zarinpal", "digipay", "snappPay", "torobPay", "http"}
  Decisions = {"pending", "paid", "cancelled", "refunded"}
  MaxDecisions = 1 MaxLost = 2 MaxExpired = 1 MaxSwitches = 2 MaxCrashes = 1
PROPERTIES MoneyIsRecorded
CHECK_DEADLOCK FALSE
