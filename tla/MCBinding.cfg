SPECIFICATION FairSpec
CONSTANTS
  d1 = d1 d2 = d2 d3 = d3 a1 = a1 a2 = a2 a3 = a3 task = task console = console
  NoDep = NoDep NoApp = NoApp
  Deps <- ThreeDeps Workers <- TaskAndConsole Uuids <- TheUuids Stoppable <- ThreeDeps
  MaxCrashes = 2
INVARIANTS TypeOK ClaimExcludes OneApplication
PROPERTIES OrphanTakenOver
CHECK_DEADLOCK FALSE
