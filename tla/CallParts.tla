------------------------------ MODULE CallParts ------------------------------
(***************************************************************************)
(* What a call of the gateway goes through, and what is made of many       *)
(* calls, put side by side: each behaviour is one of one part.  The        *)
(* variables of the others stay None, and SendRetry's, which this module   *)
(* extends, those of a call that is over.                                  *)
(***************************************************************************)
EXTENDS SendRetry, FiniteSets

CONSTANTS
  None, Unset,
  Threads, Life, Skew, Timeout, MaxTime,                               \* AccessToken
  MaxTalk,                                                             \* WireRequest
  AnswerEvents, AnswerTokens, Rates,                                   \* VendorAnswers
  Keys, Concurrency, MaxUsd, ChunkSize, MaxKills, MaxErrors,           \* QualityRun
  Moved, Importers, MaxLocal,                                          \* HostedMove
  Letters, Initialisms, MaxWords,                                      \* NameRuns
  Paged, Viewers, Workers, Ttl, Horizon,                               \* DashboardPage
  Batches, Size, Collectors, Uploads, BatchAttempts, Cap,              \* BatchLifecycle
  SubmitterDies, AnswersLost, Keyless, MayOmit

VARIABLES
  part,
  now, pasted, current, sources, threads, minted,
  wireStage, asked, entry, request, body,
  vendor, answerStage, streamed, read, cost, told,
  answers, verdicts, run, asks, lost, bad,
  old, hosted, up, anchor, imports, pushed,
  text, nameRun, afterTitle, lastKind, masked,
  tables, clock, rows, page, push, view, stood, answered,
  batchRow, batchId, pc, turn, creates, accepted, results, cpc, id, ids, found

tokenVars   == <<now, pasted, current, sources, threads, minted>>
wireVars    == <<wireStage, asked, entry, request, body>>
answerVars  == <<vendor, answerStage, streamed, read, cost, told>>
qualityVars == <<answers, verdicts, run, asks, lost, bad>>
moveVars    == <<old, hosted, up, anchor, imports, pushed>>
nameVars    == <<text, nameRun, afterTitle, lastKind, masked>>
pageVars    == <<tables, clock, rows, page, push, view, stood, answered>>
batchVars   == <<batchRow, batchId, pc, turn, creates, accepted, results, cpc, id, ids, found>>
partsVars   ==
  <<part, vars, tokenVars, wireVars, answerVars, qualityVars, moveVars, nameVars, pageVars,
    batchVars>>

-----------------------------------------------------------------------------
Token == INSTANCE AccessToken

Wire == INSTANCE WireRequest WITH Default <- "five", stage <- wireStage

Answers == INSTANCE VendorAnswers WITH
  MaxEvents <- AnswerEvents, MaxTokens <- AnswerTokens, stage <- answerStage, parser <- streamed

Quality == INSTANCE QualityRun

Move == INSTANCE HostedMove WITH Calls <- Moved

Names == INSTANCE NameRuns WITH run <- nameRun, runs <- masked

Dashboard == INSTANCE DashboardPage WITH Calls <- Paged

Batch == INSTANCE BatchLifecycle WITH
  MaxAttempts <- BatchAttempts, row <- batchRow, at <- turn, attempt <- creates

ASSUME PartsAssumption ==
  /\ Token!AccessTokenAssumption /\ Wire!WireRequestAssumption
  /\ Answers!VendorAnswersAssumption /\ Quality!QualityAssumption
  /\ Move!HostedMoveAssumption /\ Names!NameRunsAssumption
  /\ Dashboard!DashboardAssumption /\ Batch!ConstantsAssumption

-----------------------------------------------------------------------------
SendIdle ==
  /\ call = [api |-> "chat", passthrough |-> FALSE, stored |-> FALSE, onText |-> FALSE,
             strict |-> FALSE, priced |-> FALSE]
  /\ at = "escaped" /\ attempt = 1 /\ sent = 0 /\ result = "none" /\ error = "none"
  /\ parser = Fresh /\ handed = <<>> /\ held = FALSE /\ row = NewRow
TokenIdle ==
  /\ now = None /\ pasted = None /\ current = None
  /\ sources = None /\ threads = None /\ minted = None
WireIdle ==
  /\ wireStage = None /\ asked = None /\ entry = None /\ request = None /\ body = None
AnswersIdle ==
  /\ vendor = None /\ answerStage = None /\ streamed = None
  /\ read = None /\ cost = None /\ told = None
QualityIdle ==
  /\ answers = None /\ verdicts = None /\ run = None
  /\ asks = None /\ lost = None /\ bad = None
MoveIdle ==
  /\ old = None /\ hosted = None /\ up = None
  /\ anchor = None /\ imports = None /\ pushed = None
NamesIdle ==
  /\ text = None /\ nameRun = None /\ afterTitle = None /\ lastKind = None /\ masked = None
PageIdle ==
  /\ tables = None /\ clock = None /\ rows = None /\ page = None
  /\ push = None /\ view = None /\ stood = None /\ answered = None

BatchIdle ==
  /\ batchRow = None /\ batchId = None /\ pc = None /\ turn = None /\ creates = None
  /\ accepted = None /\ results = None /\ cpc = None /\ id = None /\ ids = None
  /\ found = None

PartsInit ==
  \/ part = "send" /\ Init
       /\ TokenIdle /\ WireIdle /\ AnswersIdle /\ QualityIdle /\ MoveIdle /\ NamesIdle
       /\ PageIdle /\ BatchIdle
  \/ part = "token" /\ Token!Init
       /\ SendIdle /\ WireIdle /\ AnswersIdle /\ QualityIdle /\ MoveIdle /\ NamesIdle
       /\ PageIdle /\ BatchIdle
  \/ part = "wire" /\ Wire!Init
       /\ SendIdle /\ TokenIdle /\ AnswersIdle /\ QualityIdle /\ MoveIdle /\ NamesIdle
       /\ PageIdle /\ BatchIdle
  \/ part = "answers" /\ Answers!Init
       /\ SendIdle /\ TokenIdle /\ WireIdle /\ QualityIdle /\ MoveIdle /\ NamesIdle
       /\ PageIdle /\ BatchIdle
  \/ part = "quality" /\ Quality!Init
       /\ SendIdle /\ TokenIdle /\ WireIdle /\ AnswersIdle /\ MoveIdle /\ NamesIdle
       /\ PageIdle /\ BatchIdle
  \/ part = "move" /\ Move!Init
       /\ SendIdle /\ TokenIdle /\ WireIdle /\ AnswersIdle /\ QualityIdle /\ NamesIdle
       /\ PageIdle /\ BatchIdle
  \/ part = "names" /\ Names!Init
       /\ SendIdle /\ TokenIdle /\ WireIdle /\ AnswersIdle /\ QualityIdle /\ MoveIdle
       /\ PageIdle /\ BatchIdle
  \/ part = "page" /\ Dashboard!Init
       /\ SendIdle /\ TokenIdle /\ WireIdle /\ AnswersIdle /\ QualityIdle /\ MoveIdle
       /\ NamesIdle /\ BatchIdle
  \/ part = "batch" /\ Batch!Init
       /\ SendIdle /\ TokenIdle /\ WireIdle /\ AnswersIdle /\ QualityIdle /\ MoveIdle
       /\ NamesIdle /\ PageIdle

PartsNext ==
  /\ part' = part
  /\ \/ part = "send" /\ Next
          /\ UNCHANGED <<tokenVars, wireVars, answerVars, qualityVars, moveVars, nameVars,
                         pageVars, batchVars>>
     \/ part = "token" /\ Token!Next
          /\ UNCHANGED <<vars, wireVars, answerVars, qualityVars, moveVars, nameVars,
                         pageVars, batchVars>>
     \/ part = "wire" /\ Wire!Next
          /\ UNCHANGED <<vars, tokenVars, answerVars, qualityVars, moveVars, nameVars,
                         pageVars, batchVars>>
     \/ part = "answers" /\ Answers!Next
          /\ UNCHANGED <<vars, tokenVars, wireVars, qualityVars, moveVars, nameVars,
                         pageVars, batchVars>>
     \/ part = "quality" /\ Quality!Next
          /\ UNCHANGED <<vars, tokenVars, wireVars, answerVars, moveVars, nameVars,
                         pageVars, batchVars>>
     \/ part = "move" /\ Move!Next
          /\ UNCHANGED <<vars, tokenVars, wireVars, answerVars, qualityVars, nameVars,
                         pageVars, batchVars>>
     \/ part = "names" /\ Names!Next
          /\ UNCHANGED <<vars, tokenVars, wireVars, answerVars, qualityVars, moveVars,
                         pageVars, batchVars>>
     \/ part = "page" /\ Dashboard!Next
          /\ UNCHANGED <<vars, tokenVars, wireVars, answerVars, qualityVars, moveVars,
                         nameVars, batchVars>>
     \/ part = "batch" /\ Batch!Next
          /\ UNCHANGED <<vars, tokenVars, wireVars, answerVars, qualityVars, moveVars,
                         nameVars, pageVars>>

\* A call's fairness is SendRetry's.
PartsSpec == PartsInit /\ [][PartsNext]_partsVars /\ WF_vars(Step) /\ SF_vars(EndBody)

-----------------------------------------------------------------------------
\* However many wait for a token, one refresh serves them all (AccessToken).
OneRefreshServesAll == part = "token" => Token!OneRefreshServesAll

\* What a caller asks is what the vendor reads, and what the vendor bills is what is costed
\* and told (WireRequest, VendorAnswers).
WireIsFaithful ==
  (part = "wire" => Wire!CarriedOrRefused) /\ (part = "answers" => Answers!BilledIsCounted)

\* A measurement that is killed and a move that is repeated lose nothing and double nothing:
\* a run is resumed and its verdicts are about its answers (QualityRun), and what the old
\* proxy recorded is in the hosted one (HostedMove).
RestartsLoseNothing ==
  (part = "quality" => Quality!RunIsResumed) /\ (part = "move" => Move!MoveIsWhole)

\* The names of a text are masked whole, with their initials, and nothing else is (NameRuns).
NamesAreMasked == part = "names" => Names!NamesAreMasked

\* A page is no older than its lifetime, whatever pushes and renders cross it (DashboardPage).
PageIsRecent == part = "page" => Dashboard!PageIsRecent

\* A batch the vendor bills is in the ledger, and a collection that returned says of each
\* request what the vendor's file said (BatchLifecycle).
BatchIsCounted == part = "batch" => Batch!AcceptedIsCounted /\ Batch!CollectedAsReported

\* A row of a batch that has its outcome keeps it.
OutcomeIsFinal == [][part = "batch" => Batch!OutcomeStays]_partsVars
=============================================================================
