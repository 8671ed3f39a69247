\* A batch one of whose hosts refuses to build it after its rows are begun.
SPECIFICATION Spec
CONSTANTS
  Models = {m1, m2}
  MaxSize = 2
INVARIANT OnlyAcceptedStaysInFlight
CHECK_DEADLOCK FALSE
