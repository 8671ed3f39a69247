---------------------------- MODULE AuditAppender ----------------------------
(***************************************************************************)
(* The audit chain and the processes that append to it: AuditAppender of   *)
(* boundary/audit/appender.py, _seal and append_bodies of audit/log.py,    *)
(* verify of audit/chain.py, and what drives them.                         *)
(*                                                                         *)
(* Two deployments.  ~Hosted: the proxy seals its own SQLite chain, from a *)
(* flush each answered call schedules (server/app.py), from /audit/head    *)
(* and when it shuts down.  Hosted: `boundary audit follow` (cli.py) is a  *)
(* process of its own that polls a ledger in Postgres.  In both an         *)
(* operator may run `boundary audit seal` beside the appender.             *)
(*                                                                         *)
(* A ledger row is its id and whether it is in flight or complete; a hash  *)
(* is the sequence of bodies it was computed over, which is injective as   *)
(* SHA-256 is assumed to be.                                               *)
(***************************************************************************)
EXTENDS Naturals, Sequences, FiniteSets, FiniteSetsExt

CONSTANTS
  LastId,            \* bound: the ledger's ids are 1 .. LastId
  Operators,         \* runs of `boundary audit seal`
  Hosted,            \* the appender is a process apart from the one that serves
  CallsWhileOpening, \* calls are served while the appender is not open
  IdsInOrder,        \* a row becomes visible before any higher id is given out
  Events,            \* which of "crash", "append" and "stop" may happen
  MaxFaults,         \* bound: crashes and appends that raise
  MaxAnchors         \* bound: heads published

\* What is assumed of the constants; the modules that give them their values check it.
ConstantsAssumption ==
  /\ LastId \in Nat /\ MaxFaults \in Nat /\ MaxAnchors \in Nat
  /\ {Hosted, CallsWhileOpening, IdsInOrder} \subseteq BOOLEAN
  /\ Events \subseteq {"crash", "append", "stop"}
  /\ "appender" \notin Operators

Ids     == 1 .. LastId
Writers == {"appender"} \cup Operators
Tasks   == {"flush", "anchor", "poll", "final"}

\* What a read of the ledger shows.  "allocated" is an id taken from the sequence whose
\* insert is not committed; "orphan" a row in flight whose process is gone.
RowStates == {"none", "allocated", "in_flight", "orphan", "complete"}
Shown(s)  == CASE s \in {"none", "allocated"}      -> "none"
               [] s \in {"in_flight", "orphan"}    -> "in_flight"
               [] s = "complete"                   -> "complete"

Body    == [id : Ids, state : {"in_flight", "complete"}]
Hash    == Seq(Body)
Genesis == <<>>
Link(prev, body) == Append(prev, body)

VARIABLES
  row,         \* [Ids -> RowStates]
  reported,    \* ids whose call's done callback has run
  scheduled,   \* ServerState.audit_scheduled
  flushes,     \* worker threads started by _flush that have not taken the lock
  pc,          \* [Writers -> where the writer is]
  opened,      \* AuditAppender.__init__ has returned
  closing,     \* "no"; "stop": shutting down; "raise": the follower's finally clause
  task,        \* on whose behalf after_call runs
  view,        \* [Writers -> the ledger rows _seal was given]
  bodies,      \* [Writers -> the bodies to append]
  base,        \* [Writers -> the head read inside the transaction]
  pending,     \* AuditAppender._pending
  watermark,   \* AuditAppender._watermark
  chain,       \* the audit table
  anchors,     \* the heads published
  anchoring,   \* "no", "asked", "sealed": where AuditAppender.anchor is
  owed,        \* the rows complete when anchor was called
  faults       \* crashes and failed appends so far

ledgerVars   == <<row, reported>>
serverVars   == <<scheduled, flushes, closing>>
appenderVars == <<opened, task, pending, watermark>>
writerVars   == <<pc, view, bodies, base>>
anchorVars   == <<anchors, anchoring, owed>>
vars == <<ledgerVars, serverVars, appenderVars, writerVars, chain, anchorVars, faults>>

NoView == [i \in Ids |-> "none"]
Head0  == [seq |-> 0, hash |-> Genesis]

\* AuditLog.head
ChainHead == IF chain = <<>> THEN Head0
        ELSE [seq |-> chain[Len(chain)].seq, hash |-> chain[Len(chain)].hash]

Rows     == [i \in Ids |-> Shown(row[i])]        \* LedgerStore.rows
Visible  == {i \in Ids : Rows[i] # "none"}
Complete == {i \in Ids : row[i] = "complete"}

\* ids in ascending order.
InOrder(ids) ==
  CHOOSE s \in [1 .. Cardinality(ids) -> ids] :
    /\ \A i \in ids : \E k \in DOMAIN s : s[k] = i
    /\ \A j, k \in DOMAIN s : j < k => s[j] < s[k]

\* The bodies of the rows of ids, in id order, as states shows them.
BodiesOf(ids, states) ==
  LET order == InOrder(ids)
  IN  [k \in DOMAIN order |-> [id |-> order[k], state |-> states[order[k]]]]

\* A plausible bug: prev is not moved on from one body of the batch to the next.
LinkedFlat(head, bs) ==
  [k \in 1 .. Len(bs) |-> [seq |-> head.seq + k, prev |-> head.hash,
                           hash |-> Link(head.hash, bs[k]), body |-> bs[k]]]

\* The records append_bodies writes after a head, each linked to the one before.
Linked(head, bs) ==
  LET hash[k \in 0 .. Len(bs)] == IF k = 0 THEN head.hash ELSE Link(hash[k - 1], bs[k])
  IN  [k \in 1 .. Len(bs) |->
         [seq |-> head.seq + k, prev |-> hash[k - 1], hash |-> hash[k], body |-> bs[k]]]

RecordsOf(i) == {k \in 1 .. Len(chain) : chain[k].body.id = i}

\* latest_sealed: the newest record's state for a row, "none" when it has none.
LatestSealed(i) ==
  IF RecordsOf(i) = {} THEN "none" ELSE chain[Max(RecordsOf(i))].body.state

NeedsSeal(i, shown) == LatestSealed(i) # shown

Init ==
  /\ row = [i \in Ids |-> "none"] /\ reported = {}
  /\ scheduled = FALSE /\ flushes = 0 /\ closing = "no"
  /\ opened = FALSE /\ task = "final" /\ pending = {} /\ watermark = 0
  /\ pc = [w \in Writers |-> IF w = "appender" THEN "down" ELSE "ready"]
  /\ view = [w \in Writers |-> NoView]
  /\ bodies = [w \in Writers |-> <<>>]
  /\ base = [w \in Writers |-> Head0]
  /\ chain = <<>>
  /\ anchors = {} /\ anchoring = "no" /\ owed = {}
  /\ faults = 0

-----------------------------------------------------------------------------
(* Calls and their rows (Gateway, LedgerStore, PgLedger).                  *)

Serving == CallsWhileOpening \/ (opened /\ closing = "no")

\* Postgres takes the id from a sequence before the insert commits.
Allocate(i) ==
  /\ ~IdsInOrder /\ Serving
  /\ row[i] = "none" /\ \A j \in Ids : j < i => row[j] # "none"
  /\ row' = [row EXCEPT ![i] = "allocated"]
  /\ UNCHANGED <<reported, serverVars, appenderVars, writerVars, chain, anchorVars, faults>>

Begin(i) ==
  /\ Serving
  /\ \/ row[i] = "allocated"
     \/ IdsInOrder /\ row[i] = "none" /\ \A j \in Ids : j < i => row[j] # "none"
  /\ row' = [row EXCEPT ![i] = "in_flight"]
  /\ UNCHANGED <<reported, serverVars, appenderVars, writerVars, chain, anchorVars, faults>>

Finish(i) ==
  /\ Serving /\ row[i] = "in_flight"
  /\ row' = [row EXCEPT ![i] = "complete"]
  /\ UNCHANGED <<reported, serverVars, appenderVars, writerVars, chain, anchorVars, faults>>

\* The hosted proxy dies with a call in flight; the sealer is another process.
Lose(i) ==
  /\ Hosted /\ Serving /\ row[i] = "in_flight"
  /\ row' = [row EXCEPT ![i] = "orphan"]
  /\ UNCHANGED <<reported, serverVars, appenderVars, writerVars, chain, anchorVars, faults>>

\* A plausible bug: an append under way is taken to cover the call.
ReportUnlessSealing(i) ==
  /\ ~Hosted /\ opened
  /\ row[i] = "complete" /\ i \notin reported
  /\ reported' = reported \cup {i}
  /\ scheduled' = (scheduled \/ (flushes = 0 /\ pc["appender"] = "idle"))
  /\ UNCHANGED <<row, flushes, closing, appenderVars, writerVars, chain, anchorVars, faults>>

\* The call's done callback: ServerState.sealed.
Report(i) ==
  /\ ~Hosted /\ opened
  /\ row[i] = "complete" /\ i \notin reported
  /\ reported' = reported \cup {i}
  /\ scheduled' = TRUE
  /\ UNCHANGED <<row, flushes, closing, appenderVars, writerVars, chain, anchorVars, faults>>

\* ServerState._flush: the flag is cleared before the worker thread runs.
Flush ==
  /\ opened /\ scheduled
  /\ scheduled' = FALSE
  /\ flushes' = flushes + 1
  /\ UNCHANGED <<ledgerVars, closing, appenderVars, writerVars, chain, anchorVars, faults>>

-----------------------------------------------------------------------------
(* Opening, and a seal of the whole ledger (AuditAppender.__init__, _seal, *)
(* cmd_audit_seal).                                                        *)

\* ledger.rows(), handed to seal
ReadRows(w) ==
  /\ view' = [view EXCEPT ![w] = Rows]
  /\ pc' = [pc EXCEPT ![w] = "read"]
  /\ UNCHANGED <<ledgerVars, serverVars, appenderVars, bodies, base, chain, anchorVars, faults>>

Open     == pc["appender"] \in {"down", "stopped"} /\ ReadRows("appender")
SealRun(o) == pc[o] = "ready" /\ ReadRows(o)

AfterSeal(w) == IF w = "appender" THEN "sealed" ELSE "done"

\* The rows in flight _seal may find past the settling time: a day for the appender, which
\* no call outlives, and whatever --settle-hours says for an operator.
Settled(w) == IF w = "appender" THEN {i \in Ids : row[i] = "orphan"} ELSE Ids

\* _seal reads the log after it was given the rows.
Seal(w) ==
  /\ pc[w] = "read"
  /\ \E old \in SUBSET Settled(w) :
       LET due == {i \in Ids : /\ view[w][i] # "none"
                               /\ NeedsSeal(i, view[w][i])
                               /\ view[w][i] = "complete" \/ i \in old}
       IN  /\ bodies' = [bodies EXCEPT ![w] = BodiesOf(due, view[w])]
           /\ pc' = [pc EXCEPT ![w] = IF due = {} THEN AfterSeal(w) ELSE "append"]
  /\ view' = [view EXCEPT ![w] = NoView]
  /\ UNCHANGED <<ledgerVars, serverVars, appenderVars, base, chain, anchorVars, faults>>

\* The second ledger.rows() of __init__ gives the pending ids and the watermark.  The server
\* starts with nothing scheduled.
Opened ==
  /\ pc["appender"] = "sealed"
  /\ pending' = {i \in Visible : Rows[i] = "in_flight"}
  /\ watermark' = Max(Visible \cup {0})
  /\ opened' = TRUE /\ scheduled' = FALSE /\ flushes' = 0
  /\ pc' = [pc EXCEPT !["appender"] = "idle"]
  /\ UNCHANGED <<ledgerVars, closing, task, view, bodies, base, chain, anchorVars, faults>>

-----------------------------------------------------------------------------
(* after_call, anchor and close.                                           *)

Asked(t) == CASE t = "flush"  -> flushes > 0
              [] t = "anchor" -> anchoring = "asked"
              [] t = "poll"   -> Hosted /\ closing = "no"
              [] t = "final"  -> closing # "no"

\* after_call has returned to the task it ran for.
Return(t) ==
  /\ anchoring' = IF t = "anchor" THEN "sealed" ELSE anchoring
  /\ opened' = (t # "final")
  /\ closing' = IF t = "final" THEN "no" ELSE closing
  /\ pc' = [pc EXCEPT !["appender"] = IF t # "final" THEN "idle"
                                      ELSE IF closing = "stop" THEN "stopped" ELSE "down"]

\* A plausible bug: a row sealed already above one that is pending is sealed again.
FreshSealedAgain ==
  LET low == IF pending = {} THEN watermark ELSE Min(pending) - 1
  IN  {i \in Visible : i > low}

\* The ids after_call looks at: rows after low, but for those sealed already.
Fresh ==
  LET low == IF pending = {} THEN watermark ELSE Min(pending) - 1
  IN  {i \in Visible : i > low /\ ~(i <= watermark /\ i \notin pending)}

\* pc = "idle" is the appender's lock.  The watermark and the pending ids have moved on
\* before the append, and stay so when it raises.
AfterCall(t) ==
  /\ opened /\ pc["appender"] = "idle" /\ Asked(t)
  /\ task' = t
  /\ flushes' = IF t = "flush" THEN flushes - 1 ELSE flushes
  /\ watermark' = Max(Fresh \cup {watermark})
  /\ pending' = (pending \cup Fresh) \ Complete
  /\ LET due == Fresh \cap Complete
     IN  /\ bodies' = [bodies EXCEPT !["appender"] = BodiesOf(due, Rows)]
         /\ IF due = {} THEN Return(t)
            ELSE /\ pc' = [pc EXCEPT !["appender"] = "append"]
                 /\ UNCHANGED <<opened, closing, anchoring>>
  /\ UNCHANGED <<ledgerVars, scheduled, view, base, chain, anchors, owed, faults>>

\* BEGIN IMMEDIATE, or pg_advisory_xact_lock: one writer at a time, and then the head.
TxnBegin(w) ==
  /\ pc[w] = "append" /\ \A v \in Writers : pc[v] # "commit"
  /\ pc' = [pc EXCEPT ![w] = "commit"]
  /\ base' = [base EXCEPT ![w] = ChainHead]
  /\ UNCHANGED <<ledgerVars, serverVars, appenderVars, view, bodies, chain, anchorVars, faults>>

\* Where a writer goes when its append is over.
Resume(w) ==
  IF w = "appender" /\ opened THEN Return(task)
  ELSE /\ pc' = [pc EXCEPT ![w] = AfterSeal(w)]
       /\ UNCHANGED <<opened, closing, anchoring>>

TxnCommit(w) ==
  /\ pc[w] = "commit"
  /\ chain' = chain \o Linked(base[w], bodies[w])
  /\ bodies' = [bodies EXCEPT ![w] = <<>>] /\ base' = [base EXCEPT ![w] = Head0]
  /\ Resume(w)
  /\ UNCHANGED <<ledgerVars, scheduled, flushes, task, pending, watermark, view,
                 anchors, owed, faults>>

\* Where a writer goes when its append raises: the constructor ends its process; the proxy
\* keeps serving after a flush, whose task nobody reads, and answers /audit/head with an
\* error; the follower's finally clause calls after_call once more; an operator's run ends.
Raise(w) ==
  IF w # "appender" THEN /\ pc' = [pc EXCEPT ![w] = "done"]
                         /\ UNCHANGED <<opened, closing, anchoring>>
  ELSE LET ends == ~opened \/ task = "final"
       IN  /\ pc' = [pc EXCEPT ![w] = IF ends THEN "down" ELSE "idle"]
           /\ opened' = ~ends
           /\ closing' = IF ends THEN "no" ELSE IF task = "poll" THEN "raise" ELSE closing
           /\ anchoring' = IF task = "anchor" THEN "no" ELSE anchoring

\* append_bodies raises: the database is locked or full.  The transaction is rolled back.
TxnFail(w) ==
  /\ "append" \in Events /\ faults < MaxFaults
  /\ pc[w] \in {"append", "commit"}
  /\ faults' = faults + 1
  /\ bodies' = [bodies EXCEPT ![w] = <<>>] /\ base' = [base EXCEPT ![w] = Head0]
  /\ Raise(w)
  /\ UNCHANGED <<ledgerVars, scheduled, flushes, task, pending, watermark, view, chain,
                 anchors, owed>>

\* A plausible bug: the head is read without sealing first.
AskAnchorUnsealed ==
  /\ ~Hosted /\ opened /\ closing = "no" /\ anchoring = "no"
  /\ Cardinality(anchors) < MaxAnchors
  /\ anchoring' = "sealed" /\ owed' = Complete
  /\ UNCHANGED <<ledgerVars, serverVars, appenderVars, writerVars, chain, anchors, faults>>

\* GET /audit/head of a proxy that seals its own chain
AskAnchor ==
  /\ ~Hosted /\ opened /\ closing = "no" /\ anchoring = "no"
  /\ Cardinality(anchors) < MaxAnchors
  /\ anchoring' = "asked" /\ owed' = Complete
  /\ UNCHANGED <<ledgerVars, serverVars, appenderVars, writerVars, chain, anchors, faults>>

Anchor ==
  /\ opened /\ pc["appender"] = "idle" /\ anchoring = "sealed"
  /\ anchors' = anchors \cup {ChainHead}
  /\ anchoring' = "no" /\ owed' = {}
  /\ UNCHANGED <<ledgerVars, serverVars, appenderVars, writerVars, chain, faults>>

\* GET /audit/head of the hosted proxy, or `boundary audit anchor`: the head as it is.
ReadHead ==
  /\ Cardinality(anchors) < MaxAnchors
  /\ anchors' = anchors \cup {ChainHead}
  /\ UNCHANGED <<ledgerVars, serverVars, appenderVars, writerVars, chain, anchoring, owed, faults>>

\* ServerState.close up to its last after_call: every call has ended, its callback and the
\* flushes under way have run.  The follower is simply interrupted.
Close ==
  /\ "stop" \in Events
  /\ opened /\ closing = "no" /\ pc["appender"] = "idle" /\ anchoring = "no"
  /\ ~Hosted => /\ \A i \in Ids : row[i] # "in_flight"
                /\ Complete \subseteq reported /\ flushes = 0
  /\ closing' = "stop"
  /\ UNCHANGED <<ledgerVars, scheduled, flushes, appenderVars, writerVars, chain, anchorVars, faults>>

\* The appender's process dies; an uncommitted append is rolled back.  When it is the proxy,
\* the calls in flight die with it.
Crash ==
  /\ "crash" \in Events /\ faults < MaxFaults
  /\ pc["appender"] \notin {"down", "stopped"}
  /\ faults' = faults + 1
  /\ IF Hosted THEN UNCHANGED ledgerVars
     ELSE /\ row' = [i \in Ids |-> IF row[i] = "in_flight" THEN "orphan" ELSE row[i]]
          /\ reported' = reported \cup Complete
  /\ scheduled' = FALSE /\ flushes' = 0 /\ closing' = "no"
  /\ opened' = FALSE /\ pending' = {} /\ watermark' = 0
  /\ pc' = [pc EXCEPT !["appender"] = "down"]
  /\ view' = [view EXCEPT !["appender"] = NoView]
  /\ bodies' = [bodies EXCEPT !["appender"] = <<>>]
  /\ base' = [base EXCEPT !["appender"] = Head0]
  /\ anchoring' = "no" /\ owed' = {}
  /\ UNCHANGED <<task, chain, anchors>>

-----------------------------------------------------------------------------
AppenderStep ==
  \/ pc["appender"] = "down" /\ Open
  \/ Seal("appender") \/ Opened
  \/ \E t \in Tasks : AfterCall(t)
  \/ TxnBegin("appender") \/ TxnCommit("appender")
  \/ Anchor

OperatorStep(o) == Seal(o) \/ TxnBegin(o) \/ TxnCommit(o)

\* The steps of one process that serves and seals, or seals what others serve.
ProxyNext ==
  \/ \E i \in Ids : Begin(i) \/ Finish(i) \/ Report(i)
  \/ Flush \/ AskAnchor \/ ReadHead \/ Close \/ Crash
  \/ pc["appender"] = "stopped" /\ Open
  \/ AppenderStep

\* With what other processes do, and appends that raise.
Next ==
  \/ ProxyNext
  \/ \E i \in Ids : Allocate(i) \/ Lose(i)
  \/ \E o \in Operators : SealRun(o) \/ OperatorStep(o)
  \/ \E w \in Writers : TxnFail(w)

\* The event loop runs its callbacks and timers, worker threads get the lock, a started
\* command goes on, and a process that died is started again (restart: unless-stopped in
\* deploy/compose.yaml).  No call need be made or end, and nobody need restart what was
\* stopped on purpose.
Fairness ==
  /\ WF_vars(AppenderStep) /\ WF_vars(Flush)
  /\ \A i \in Ids : WF_vars(Report(i))
  /\ \A o \in Operators : WF_vars(OperatorStep(o))

Spec == Init /\ [][Next]_vars /\ Fairness

\* A proxy by itself, whose appends succeed.
ProxySpec == Init /\ [][ProxyNext]_vars /\ Fairness

-----------------------------------------------------------------------------
(* Properties                                                              *)

TypeOK ==
  /\ row \in [Ids -> RowStates] /\ reported \subseteq Ids
  /\ scheduled \in BOOLEAN /\ flushes \in 0 .. LastId
  /\ closing \in {"no", "stop", "raise"}
  /\ pc \in [Writers -> {"down", "stopped", "ready", "read", "append", "commit",
                         "sealed", "idle", "done"}]
  /\ opened \in BOOLEAN /\ task \in Tasks
  /\ view \in [Writers -> [Ids -> {"none", "in_flight", "complete"}]]
  /\ bodies \in [Writers -> Seq(Body)]
  /\ base \in [Writers -> [seq : Nat, hash : Hash]]
  /\ pending \subseteq Ids /\ watermark \in 0 .. LastId
  /\ chain \in Seq([seq : Nat, prev : Hash, hash : Hash, body : Body])
  /\ anchors \subseteq [seq : Nat, hash : Hash]
  /\ anchoring \in {"no", "asked", "sealed"} /\ owed \subseteq Ids
  /\ faults \in 0 .. MaxFaults

\* verify(records, anchors, ledger_rows=...): the breaks it reports.
Breaks ==
  LET n == Len(chain)
      before(k) == IF k = 1 THEN Genesis ELSE chain[k - 1].hash
  IN  {<<"sequence", k>>  : k \in {k \in 1 .. n : chain[k].seq # k}}
 \cup {<<"link", k>>      : k \in {k \in 1 .. n : chain[k].prev # before(k)}}
 \cup {<<"hash", k>>      : k \in {k \in 1 .. n :
                                     Link(chain[k].prev, chain[k].body) # chain[k].hash}}
 \cup {<<"truncated", a>> : a \in {a \in anchors : a # Head0 /\ a.seq > n}}
 \cup {<<"anchor", a>>    : a \in {a \in anchors : /\ a # Head0 /\ a.seq <= n
                                                  /\ chain[a.seq].hash # a.hash}}
 \cup {<<"ledger_changed", i>> :
          i \in {i \in Visible : /\ LatestSealed(i) \notin {"none", Rows[i]}
                                /\ ~(LatestSealed(i) = "in_flight" /\ Rows[i] = "complete")}}
 \cup {<<"ledger_missing", i>> : i \in {i \in Ids : LatestSealed(i) # "none" /\ i \notin Visible}}

(* An honest ledger never verifies as tampered with.  Whoever appends, in   *)
(* whatever order, with crashes and failed appends between any two steps,   *)
(* `boundary audit verify` (verify, audit/chain.py) reports no break, and   *)
(* every head ever published still names the record at its position.        *)
VerifyClean == Breaks = {}

SealedComplete(i) ==
  \E k \in 1 .. Len(chain) : chain[k].body = [id |-> i, state |-> "complete"]

About(i) == \E k \in 1 .. Len(bodies["appender"]) : bodies["appender"][k].id = i

(* The appender's memory (_watermark, _pending: after_call) forgets no row: *)
(* every row a read can see is above the watermark, pending, on its way to  *)
(* the chain, or in the chain with its outcome.                             *)
NothingForgotten ==
  opened => \A i \in Visible : \/ i > watermark \/ i \in pending
                              \/ About(i) \/ SealedComplete(i)

(* One record per row, and a second one only when the row was sealed in     *)
(* flight and then completed (docs/audit.md:15-16): nothing is sealed twice *)
(* by the opening seal and after_call, across crashes and restarts.         *)
OneRecordPerChange ==
  \A j, k \in 1 .. Len(chain) :
    j < k /\ chain[j].body.id = chain[k].body.id =>
      chain[j].body.state = "in_flight" /\ chain[k].body.state = "complete"

AppenderKeepsTrack == TypeOK /\ NothingForgotten /\ OneRecordPerChange

(* A head read through AuditAppender.anchor covers every call that had      *)
(* completed when it was asked for, with calls completing and other flushes *)
(* running while it is prepared.                                            *)
HeadCovers ==
  anchoring = "sealed" /\ anchoring' = "no" /\ faults' = faults =>
    \A i \in owed : SealedComplete(i)

(* A proxy that is stopped, not killed (ServerState.close), leaves no       *)
(* completed row behind unsealed.                                           *)
StopSeals ==
  closing = "stop" /\ closing' = "no" /\ faults' = faults =>
    (\A i \in Complete : SealedComplete(i))'

AskedIsSealed == [][HeadCovers /\ StopSeals]_vars

(* Every completed row is sealed with its outcome, whatever crashes between *)
(* the completion, the callback, the timer, the thread and the append.      *)
CompletedRowsAreSealed ==
  \A i \in Ids : (row[i] = "complete") ~> SealedComplete(i)

=============================================================================
