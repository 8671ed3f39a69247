\* Three chats of one project on two workers over two days: the lock and the month's, the day's and the run's caps.
CONSTANTS
  c1 = c1  c2 = c2  c3 = c3
  w1 = w1  w2 = w2
  tA = tA  tB = tB
  r1 = r1
  Calls = {c1, c2, c3}
  Processes = {w1, w2}
  ProcessOf <- MCProcessOf3
  Projects = {tA}
  Runs = {r1}
  NoRun = NoRun
  MaxEstimate = 2
  Requests <- MCChats
  MaxCost = 2
  LastDay = 2
  MonthOf <- MCOneMonth
  ProjectCap <- MCFourUsd
  DayCap = 3
  RunCap = 3
  PortfolioCap = 6
SPECIFICATION Spec
INVARIANTS SpendMatchesRows ProjectCapHolds RunAndDayCapsHold
CHECK_DEADLOCK FALSE
