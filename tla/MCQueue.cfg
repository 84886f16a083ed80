SPECIFICATION Spec
CONSTANTS
  d1 = d1 d2 = d2 d3 = d3 t1 = t1 t2 = t2 h1 = h1 h2 = h2 c1 = c1 c2 = c2 task = task
  Task = task NoDep = NoDep NoApp = NoApp
  Deps <- ThreeDeps Themes <- TwoThemes Domains <- OneDomain Consoles <- NoConsole
  Modes = {"preview", "edge", "direct"}
  Ops = {}
  PollLimit = 1 StaleAfter = 1 MaxMiss = 1 MaxCrashes = 0
INVARIANTS TypeOK OneLivePerLane ServedIsUp
SYMMETRY Symmetry
CHECK_DEADLOCK FALSE
