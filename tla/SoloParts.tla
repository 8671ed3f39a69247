----------------------------- MODULE SoloParts -----------------------------
(***************************************************************************)
(* The parts that share no state with the others, put side by side: each   *)
(* behaviour is one of one part, and the variables of the rest stay None.  *)
(* The fleet that appends to a chain is AuditAppender, which this module   *)
(* extends.                                                                *)
(***************************************************************************)
EXTENDS AuditAppender

CONSTANTS
  None,
  Sealed, Schemas, Costs, MaxRecords, MaxHeads, MaxTampers,            \* TamperEvidence
  Processes, Files, Scenarios, MaxRows,                                \* LedgerOpening
  Models, MaxSize,                                                     \* BatchHosts
  Fold, Shape, Honorifics, Vocabulary, Caller, Docs, MaxBuilds,        \* Redaction
  Hold, MaxText, MaxPiece,                                             \* Rehydrator
  Cases, Default, Above, LongRate                                      \* CallTarget

VARIABLES
  part,
  ledger, used, schema, records, heads, tampers, truth, trusted,
  scene, version, columns, rows, spend, counted, opening, plan, todo, overlap,
  host, models, hostRows, stage, named, vendor, keySent,
  doc, policy, sent, refused, builds,
  text, held, out, over,
  case, callStage, ref, body, callRow, usage

tamperVars  == <<ledger, used, schema, records, heads, tampers, truth, trusted>>
openingVars == <<scene, version, columns, rows, spend, counted, opening, plan, todo, overlap>>
hostVars    == <<host, models, hostRows, stage, named, vendor, keySent>>
redactVars  == <<doc, policy, sent, refused, builds>>
streamVars  == <<text, held, out, over>>
callVars    == <<case, callStage, ref, body, callRow, usage>>
partsVars   ==
  <<part, vars, tamperVars, openingVars, hostVars, redactVars, streamVars, callVars>>

-----------------------------------------------------------------------------
Tamper == INSTANCE TamperEvidence WITH
  Calls <- Sealed, MaxAnchors <- MaxHeads, chain <- records, anchors <- heads

Migration == INSTANCE LedgerOpening WITH pc <- opening

Hosts == INSTANCE BatchHosts WITH rows <- hostRows

Redacting == INSTANCE Redaction

Stream == INSTANCE Rehydrator

Call == INSTANCE CallTarget WITH Unset <- None, stage <- callStage, row <- callRow

ASSUME SoloAssumption ==
  /\ ConstantsAssumption /\ Tamper!TamperAssumption /\ Migration!OpeningAssumption
  /\ Hosts!HostsAssumption /\ Redacting!RedactionAssumption
  /\ Stream!RehydratorAssumption /\ Call!CallTargetAssumption

-----------------------------------------------------------------------------
TamperIdle ==
  /\ ledger = None /\ used = None /\ schema = None /\ records = None
  /\ heads = None /\ tampers = None /\ truth = None /\ trusted = None
FleetIdle ==
  /\ row = None /\ reported = None /\ scheduled = None /\ flushes = None /\ pc = None
  /\ opened = None /\ closing = None /\ task = None /\ view = None /\ bodies = None
  /\ base = None /\ pending = None /\ watermark = None /\ chain = None /\ anchors = None
  /\ anchoring = None /\ owed = None /\ faults = None
OpeningIdle ==
  /\ scene = None /\ version = None /\ columns = None /\ rows = None /\ spend = None
  /\ counted = None /\ opening = None /\ plan = None /\ todo = None /\ overlap = None
HostsIdle ==
  /\ host = None /\ models = None /\ hostRows = None /\ stage = None
  /\ named = None /\ vendor = None /\ keySent = None
RedactIdle ==
  /\ doc = None /\ policy = None /\ sent = None /\ refused = None /\ builds = None
StreamIdle == text = None /\ held = None /\ out = None /\ over = None
CallIdle ==
  /\ case = None /\ callStage = None /\ ref = None
  /\ body = None /\ callRow = None /\ usage = None

SoloInit ==
  \/ part = "tamper" /\ Tamper!Init
       /\ FleetIdle /\ OpeningIdle /\ HostsIdle /\ RedactIdle /\ StreamIdle
       /\ CallIdle
  \/ part = "fleet" /\ Init
       /\ TamperIdle /\ OpeningIdle /\ HostsIdle /\ RedactIdle /\ StreamIdle
       /\ CallIdle
  \/ part = "opening" /\ Migration!Init
       /\ TamperIdle /\ FleetIdle /\ HostsIdle /\ RedactIdle /\ StreamIdle
       /\ CallIdle
  \/ part = "hosts" /\ Hosts!Init
       /\ TamperIdle /\ FleetIdle /\ OpeningIdle /\ RedactIdle /\ StreamIdle
       /\ CallIdle
  \/ part = "redaction" /\ Redacting!Init
       /\ TamperIdle /\ FleetIdle /\ OpeningIdle /\ HostsIdle /\ StreamIdle
       /\ CallIdle
  \/ part = "stream" /\ Stream!Init
       /\ TamperIdle /\ FleetIdle /\ OpeningIdle /\ HostsIdle /\ RedactIdle
       /\ CallIdle
  \/ part = "call" /\ Call!Init
       /\ TamperIdle /\ FleetIdle /\ OpeningIdle /\ HostsIdle /\ RedactIdle
       /\ StreamIdle

SoloNext ==
  /\ part' = part
  /\ \/ part = "tamper" /\ Tamper!Next
          /\ UNCHANGED <<vars, openingVars, hostVars, redactVars, streamVars,
                         callVars>>
     \/ part = "fleet" /\ Next
          /\ UNCHANGED <<tamperVars, openingVars, hostVars, redactVars, streamVars,
                         callVars>>
     \/ part = "opening" /\ Migration!Next
          /\ UNCHANGED <<tamperVars, vars, hostVars, redactVars, streamVars,
                         callVars>>
     \/ part = "hosts" /\ Hosts!Next
          /\ UNCHANGED <<tamperVars, vars, openingVars, redactVars, streamVars,
                         callVars>>
     \/ part = "redaction" /\ Redacting!Next
          /\ UNCHANGED <<tamperVars, vars, openingVars, hostVars, streamVars,
                         callVars>>
     \/ part = "stream" /\ Stream!Next
          /\ UNCHANGED <<tamperVars, vars, openingVars, hostVars, redactVars,
                         callVars>>
     \/ part = "call" /\ Call!Next
          /\ UNCHANGED <<tamperVars, vars, openingVars, hostVars, redactVars,
                         streamVars>>

SoloSpec == SoloInit /\ [][SoloNext]_partsVars

-----------------------------------------------------------------------------
\* A chain that verifies is the one that was sealed and anchored, without a record too many,
\* or shows what was changed (TamperEvidence); and however many append, and whatever is killed
\* or raises, verify reports no break in a chain nobody touched (AuditAppender).
ChainIsTrue ==
  /\ part = "tamper" => Tamper!ChainIsTrue
  /\ part = "fleet" => VerifyClean

\* Each kind of corruption before the last anchor is a break at once.
BeforeTheAnchorDetected == [][part = "tamper" => Tamper!CorruptionShows]_partsVars

\* A ledger that was opened is whole, whoever was killed opening it (LedgerOpening).
LedgerIsWhole == part = "opening" => Migration!LedgerIsWhole

\* Each batch's answers reach its own rows, once it is over, and the key stays with the
\* vendor it belongs to (BatchHosts).
BatchIsItsOwn == part = "hosts" => Hosts!BatchIsItsOwn

\* What was detected is not in what was sent, and comes back as it was written, today and
\* with every later policy (Redaction), in a streamed answer as in a whole one (Rehydrator).
RedactionHolds ==
  /\ part = "redaction" => Redacting!PlaceholdersStand /\ Redacting!NothingDetectedLeaves
  /\ part = "stream" => Stream!TextIsWhole

\* A call goes where its row and its rule say, and is reserved and costed by its own rates
\* (CallTarget).
CallIsAsJudged == part = "call" => Call!CallIsAsJudged
=============================================================================
