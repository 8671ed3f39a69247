SPECIFICATION Spec
CONSTANTS
  r1 = r1
  r2 = r2
  r3 = r3
  Requests = {r1, r2, r3}
  Workers = {"w1", "w2"}
  Teams <- MCTeams
  Scopes <- MCScopes
  Questions <- MCQuestions
  Similarity <- MCSimilarity
  Threshold = 90
  MaxEntries = 1
  MaxPending = 1
  MaxPieces = 2
  MaxCancels = 1
  Scenarios <- MCScenarios
INVARIANTS StreamIsFaithful CachesHold ReportedInTime
PROPERTIES EveryWaitEnds
CHECK_DEADLOCK FALSE
