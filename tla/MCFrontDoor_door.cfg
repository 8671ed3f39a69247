SPECIFICATION Spec
CONSTANTS
  Requests = {r1, r2, r3, r4}
  Workers = {w1, w2}
  Teams = {"t1", "t2"}
  Providers <- MCProviders
  Explicit <- MCExplicit
  Routes <- MCRoutes
  TeamOf <- MCTeamOf
  Limit <- MCLimit
  Models <- MCModels
  MaxTokens <- MCMaxTokens
  Scenarios <- MCScenarios
  Window = 2
  Pieces = {"ann", "ANN", "lee", "hi", "nl"}
  Break = "nl"
  None = None
INVARIANTS DataStaysWithinRule RefusalsAreOnRecord AnswerIsTheCallers
INVARIANTS QuotaIsExact ReportMissesNothing
SYMMETRY MCSymmetry
CHECK_DEADLOCK FALSE
