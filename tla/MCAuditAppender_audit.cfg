SPECIFICATION ProxySpec
CONSTANTS
  LastId = 3
  Operators = {}
  Hosted = FALSE
  CallsWhileOpening = FALSE
  IdsInOrder = TRUE
  Events = {"crash", "stop"}
  MaxFaults = 2
  MaxAnchors = 1
INVARIANTS AppenderKeepsTrack VerifyClean
PROPERTIES AskedIsSealed CompletedRowsAreSealed
