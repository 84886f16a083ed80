SPECIFICATION ServicesSpec
CONSTANTS
  w1 = w1 w2 = w2 s1 = s1 s2 = s2 e1 = e1 e2 = e2 h1 = h1 h2 = h2 h3 = h3 n1 = n1 n2 = n2
  t1 = t1 t2 = t2 u1 = u1 u2 = u2 r1 = r1 r2 = r2 None = None
  Handlers <- TwoHandlers Stamps <- TwoStamps Sites <- TwoSites Hosts <- ThreeHosts Ids <- OneOrTwo
  NameServers <- TwoServers Ops <- OneOrTwo Emails <- TwoEmails Lists <- ThreeLists
  Upstreams <- TwoUpstreams Runs <- TwoRuns
  MaxVersion = 3 MaxFailures = 2 HourTicks = 2 LastTick = 2 MaxBytes = 2 MaxTokens = 2
  MaxWrites = 4 MaxFaults = 1
INVARIANTS ServiceTypes OnlyForward SoldOnce HoursAreWhole StaffIsWhole ClaimIsProof FileFollows DomainsHold
SYMMETRY Symmetry
CHECK_DEADLOCK FALSE
