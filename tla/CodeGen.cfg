CONSTANTS
  Levels = 2
  Inf = 99
  Programs <- MCPrograms
  Knowns <- MCKnowns
  Efforts <- MCEfforts
  Parameters <- MCParameters
  Values <- MCValues
SPECIFICATION Spec
INVARIANTS ScansEveryInstanceOnce KnownHolds OverheadLifted NeverFails
CHECK_DEADLOCK FALSE
