\* Two calls of every kind, two projects, two months of a day each; costs past the estimate.
CONSTANTS
  c1 = c1  c2 = c2  c3 = c3
  w1 = w1  w2 = w2
  tA = tA  tB = tB
  r1 = r1
  Calls = {c1, c2}
  Processes = {w1, w2}
  ProcessOf <- MCProcessOf2
  Projects = {tA, tB}
  Runs = {}
  NoRun = NoRun
  MaxEstimate = 1
  Requests <- MCEveryKind
  MaxCost = 2
  LastDay = 2
  MonthOf <- MCNewMonth
  ProjectCap <- MCOneUsd
  DayCap = 2
  RunCap = 2
  PortfolioCap = 1
SPECIFICATION Spec
INVARIANTS PortfolioCapHolds NothingEscapes
PROPERTIES AdmissionIsOneStep EveryCallSettles
CHECK_DEADLOCK FALSE
