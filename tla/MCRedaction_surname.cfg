SPECIFICATION Spec
CONSTANTS
  Fold <- MCFold
  Shape <- MCShape
  Honorifics = {"Mr"}
  Vocabulary <- MCVocabulary
  Caller = {"Oslo"}
  Docs <- MCSurname
  MaxBuilds = 3
INVARIANTS DetectedIsMasked
CHECK_DEADLOCK FALSE
