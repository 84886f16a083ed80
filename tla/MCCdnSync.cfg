SPECIFICATION FairSpec
CONSTANTS
  r1 = r1 r2 = r2 g1 = g1 v1 = v1 v2 = v2 i1 = i1 i2 = i2 i3 = i3 i4 = i4 i5 = i5 None = None
  RowIds <- TwoRows Rules <- OneRule Contents <- TwoContents RemoteIds <- FourIds
  Provider = "cloudflare"
  MaxRequests = 2 MaxFails = 1 MaxCrashes = 1 MaxStaff = 1
INVARIANTS TypeOK RemotesAreRows AppliedWhenQuiet
PROPERTIES RequestAnswered
CHECK_DEADLOCK FALSE
