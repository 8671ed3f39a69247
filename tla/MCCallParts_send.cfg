SPECIFICATION PartsSpec
CONSTANTS
  MaxAttempts = 3
  MaxEvents = 4
  Faults = {"lost", "protocol"}
  None = None
  Unset = Unset
  Threads = {t1, t2}
  Life = 6
  Skew = 3
  Timeout = 2
  MaxTime = 9
  MaxTalk = 3
  AnswerEvents = 3
  AnswerTokens = 2
  Rates <- MCRates
  Keys = {k1, k2, k3}
  Concurrency = 2
  MaxUsd = 2
  ChunkSize = 2
  MaxKills = 1
  MaxErrors = 1
  Moved = {u1, u2}
  Importers = {i1, i2}
  MaxLocal = 2
  Letters = {"U", "K"}
  Initialisms <- MCInitialisms
  MaxWords = 4
  Paged = {u1}
  Viewers = {v1, v2}
  Workers = {w1}
  Ttl = 1
  Horizon = 2
  Batches = {b1}
  Size = 3
  Collectors = {c1, c2}
  Uploads = TRUE
  BatchAttempts = 2
  Cap = 3
  SubmitterDies = TRUE
  AnswersLost = FALSE
  Keyless = TRUE
  MayOmit = TRUE
INVARIANTS PiecesAreText RowIsTrue OneRefreshServesAll WireIsFaithful RestartsLoseNothing NamesAreMasked PageIsRecent
INVARIANT BatchIsCounted
PROPERTIES AfterTheFirstByte EveryCallEnds OutcomeIsFinal
CHECK_DEADLOCK FALSE
