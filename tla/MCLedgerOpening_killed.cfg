\* One process finishes the opening while another, killed, has emptied ledger_spend.
SPECIFICATION Spec
CONSTANTS
  None = None
  p1 = p1
  p2 = p2
  f1 = f1
  Processes = {p1, p2}
  Files = {f1}
  Scenarios <- MCScenarios
  MaxRows = 3
INVARIANT NextOpenFinishes
CHECK_DEADLOCK FALSE
