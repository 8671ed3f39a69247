\* Two calls, pushed a row at a time and merged by two commands at once, any number of times.
CONSTANTS
  u1 = u1  u2 = u2  s1 = s1  s2 = s2
  Calls = {u1, u2}
  Sources = {s1, s2}
  Home <- MCHome
  Flows <- MCFlows
  Jobs = {j1, j2}
  Central = Central
  MaxRows = 1
SYMMETRY MCSymmetry
SPECIFICATION Spec
INVARIANTS ReceiptsAreHeld
PROPERTIES OutcomeIsKept PushedIsHeld
CHECK_DEADLOCK FALSE
