SPECIFICATION SoloSpec
CONSTANTS
  None = None
  LastId = 2
  Operators = {o1}
  Hosted = TRUE
  CallsWhileOpening = TRUE
  IdsInOrder = FALSE
  Events = {"crash", "append", "stop"}
  MaxFaults = 2
  MaxAnchors = 2
  Sealed = {1, 2}
  Schemas = 2
  Costs = {1}
  MaxRecords = 2
  MaxHeads = 1
  MaxTampers = 2
  p1 = p1
  p2 = p2
  f1 = f1
  f2 = f2
  Processes = {p1, p2}
  Files = {f1, f2}
  Scenarios <- MCScenarios
  MaxRows = 4
  Models = {m1, m2}
  MaxSize = 3
  Fold <- MCFold
  Shape <- MCShape
  Honorifics = {"Mr"}
  Vocabulary <- MCVocabulary
  Caller = {"Oslo"}
  Docs <- MCDocs
  MaxBuilds = 3
  Hold = 4
  MaxText = 6
  MaxPiece = 3
  Cases <- MCCases
  Default = 1
  Above = 4
  LongRate = 5
INVARIANTS ChainIsTrue LedgerIsWhole BatchIsItsOwn RedactionHolds CallIsAsJudged
PROPERTIES BeforeTheAnchorDetected
CHECK_DEADLOCK FALSE
