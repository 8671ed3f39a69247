# Formal models of Inside the Boundary

TLA+ models of this repository's gateway (`boundary/`): the ledger and its spend caps, the
audit chain over it, the data policy and redaction a call passes, its attempts and its stream,
vendor batches, and the ledgers copied, pushed and moved. Each module is translated from the
code and model-checked by TLC on small instances, and the results that matter most are proved
by TLAPS for every size. `PROJECT.json` lists, for each definition, the lines it stands for.

To run: `tlc -config MCParts_parts.cfg MCParts` (each `.cfg` is named after its module), and
`tlapm` on each of `SetTheorems`, `GatewayLedgerProofs`, `AuditProofs`, `LedgerMergeProofs`,
`FrontDoorProofs`, `ProxyCallProofs`, `PartsProofs`, `SoloPartsProofs` (from nothing, `PartsProofs`
takes about a quarter of an hour, the others less).

## 1. The system

A library and a proxy through which every call to a model goes. One process (or four workers,
when hosted) serves calls; each writes a row in a ledger before anything is sent, and
completes it with the outcome.

| Component | Code | State | Operations | Correct when | Module |
|---|---|---|---|---|---|
| Spend admission and ledger | `gateway.py`, `ledger/store.py`, `ledger/schema.sql`, `pg.py` (`PgLedger`) | rows, `ledger_spend`, the admission lock | `chat`/`achat`/streams, `raw`, `record_refusal`, `record_cache_hit`; `admit`, `begin`, `complete` | no cap is passed by calls admitted together; nothing is sent without a row; the spend table equals the rows | `GatewayLedger`, `SpendBudget` |
| Retry and streams | `gateway.py` (`_send_retrying`, `_stream*`, `_finish`), `transport.py`, `providers/sse.py` | attempts, parser, text handed on | send, back off, resend, read a chunk, hand on, finish | a stream is never resent once a byte came; the row says what happened | `SendRetry` |
| Data policy, request quota, front door | `enforce.py`, `server/app.py`, `server/teams.py`, `pg.py` (`RedisQuota`), `residency.py`, `enforce_eval.py` | windows of timestamps, rows | every gate from the key to the call | text leaves only where its class may go; refusals are on record; no minute passes the limit | `FrontDoor` |
| Proxy pipeline, semantic cache | `server/app.py`, `semcache.py`, `pg.py` (`PgSemanticCache`) | calls in flight, queues, entries per team | a request from its gates to its answer, disconnects, shutdown | a call outlives its client; a cached answer is the caller's own kind | `ProxyCall`, `SemanticCache` |
| Redaction | `redact/` | a vault | build a policy, redact, guard, rehydrate, whole or streamed | what was detected does not leave, and comes back as it was | `Redaction`, `NameRuns`, `Rehydrator` |
| Configuration to request | `config.py`, `routes.py`, `ledger/prices.py`, `residency.py`, `providers/` | lists read at start | resolve, judge, build, reserve, cost | a call goes where its row and its rule say, at the rates it was reserved at | `CallTarget` |
| Wire formats | `server/wire.py`, `types.py`, `providers/` | a request, an answer | parse, build, read, count, tell | what the caller sets arrives; what is billed is costed | `WireRequest`, `VendorAnswers` |
| Access tokens | `credentials.py`, `gateway.py` (`_google_token`) | sources, a cached token | ask, judge, refresh | one refresh serves all | `AccessToken` |
| Batches | `gateway.py` (`batch_*`), `providers/*_batch.py` | rows in flight with a batch id | submit, status, collect, possibly by another process | every request billed is a row; results land on their own rows | `BatchLifecycle`, `BatchHosts` |
| Audit chain | `audit/chain.py`, `audit/log.py`, `audit/tamper.py`, `pg.py` (`PgAuditLog`) | linked records, anchors | seal, anchor, verify | an anchor is never contradicted; an honest ledger never verifies as changed | `TamperEvidence` |
| Audit appender | `audit/appender.py`, `server/app.py` (`sealed`, `_flush`, `close`), `cli.py` (`audit follow`, `audit seal`) | watermark, pending ids, scheduled flush | open, after_call, anchor, close | every completed row is sealed, once, across restarts | `AuditAppender` |
| Merge and central ledger | `store.py` (`merge_*`), `central.py`, `pg.py` (`PgCentral`), `cli.py` (`ledger push`) | rows by `call_uid`, receipts per source | merge, push, ingest | repeated and reordered merges converge, and never revert an outcome | `LedgerMerge` |
| Dashboard page | `server/app.py`, `central.py` (`union`) | a page per worker | render, keep, drop at a push | no page outlives its lifetime | `DashboardPage` |
| Migration | `store.py` (`_migrate`) | schema version | open | a killed migration is finished by the next open | `LedgerOpening` |
| Move to Postgres | `cli.py` (`db import`), `pg.py` | both ledgers | import, again, beside the proxy | nothing lost, doubled or set back | `HostedMove` |
| Quality measurement | `redact/quality.py` | two files of results | collect, judge, killed and resumed | nothing paid twice; a verdict is about its answer | `QualityRun` |
| Development cache, raw store, telemetry, page rendering, load test and evaluations, site | `cache.py`, `rawstore.py`, `telemetry.py`, `server/dashboard.py`, `loadtest.py`, ... | files | write, count, render | | not modelled |

**How they interact.** The proxy calls the library in tasks and worker threads; the library
takes the ledger's admission lock (a thread lock per file, or a Postgres advisory lock);
database triggers keep `ledger_spend` as rows are written; a completed call's callback
schedules the appender, which reads the ledger by id and appends to the chain in a
transaction of its own; anchors are read from the chain. Hosted, the appender is a process of
its own that polls, and other environments push their rows to the central ledger, whose page a
worker renders and keeps.

**What is hard here.** Checks and writes that must be one step across threads and processes;
reads made one after another while others commit; a date that changes between two reads of
the clock; a process that dies between two writes; ids that become visible out of order; a
wake-up that must not be lost; a batch whose answer arrives in another process; repeated and
reordered pushes; a stream cut anywhere; a rule that is judged by one class and enforced by
another. The hazards in `PROJECT.json` name the line each bites at.

**How the modules are composed.** Modules that share state are composed by it: `ProxyCall`
extends `SemanticCache`, `GatewayLedger` maps onto `SpendBudget`, the gates of `FrontDoor` are one
module. `FrontDoor`, `ProxyCall`, `SendRetry`, `GatewayLedger` and `AuditAppender` follow one call
from its key to its seal and each keeps of its neighbours what it needs: `ProxyCall`'s `task` is
`SendRetry`'s whole course, its row is `GatewayLedger`'s `begin` and `complete`, its `reported` is
`AuditAppender`'s `Report`. Parts that share nothing are put side by side in one run, where each
behaviour is one of one part and the variables of the others stay `None`: `SoloParts` and
`CallParts`. Both are written for any constants, so that what is proved about a part is proved about
the same specification that `MCParts` and `MCCallParts` give small values. The proxy's appender has a
run of its own; the hosted sealer is a part of `SoloParts`. `Places` has the one operator that three
modules share, the places of a set in their order.

| Run | Module | Parts or question | Distinct states |
|---|---|---|---|
| `ledger_caps`, `ledger_kinds` | `MCGatewayLedger` | the caps, and every kind of call | 3.0 million; 118 thousand |
| `audit` | `MCAuditAppender` | the proxy's appender | 173 thousand |
| `merge` | `MCLedgerMerge` | merges and pushes | 4.0 million |
| `proxy` | `MCProxyCall` | requests, streams, caches, disconnects, shutdown | 252 thousand |
| `door` | `MCFrontDoor` | the gates, the policy suite, the quota, the report | 304 thousand |
| `parts` | `MCParts` | `TamperEvidence`, `AuditAppender` hosted with an operator, `LedgerOpening`, `BatchHosts`, `Redaction`, `Rehydrator`, `CallTarget` | 2.5 million |
| `send` | `MCCallParts` | `SendRetry`, `AccessToken`, `WireRequest`, `VendorAnswers`, `QualityRun`, `HostedMove`, `NameRuns`, `DashboardPage`, `BatchLifecycle` | 4.8 million |
| `send_protocol`, `redaction_surname`, `opening_killed`, `batch_refused` | | **violated**: one finding each, below | |

## 2. Modules

### GatewayLedger, SpendBudget

`GatewayLedger` follows each call `c` through `pc[c]`:

    new -> stamped -> queued -> project -> day -> run -> portfolio -> insert -> admitted -> sent -> done
                                   \______________ denied ______________/        \___ lost ___/

`Stamp` builds and dates the row (`_prepare`, `utc_now` for `ts_utc`), `ReadClock` is
`_admission`'s second `utc_now`, `Acquire` the admission lock, `CheckCap`/`Deny` one read and
comparison each of `Admission.check`, `Admit` the insert that ends admission, `Send` the first
transmission, `Finish` the outcome. `raw` calls read the caps without the lock and insert
without a cost; `local` calls (policy and proxy refusals, semantic cache hits) begin and
complete a row of no cost. `row[c]` is the row's state and `cost_usd` (`NoCost` for NULL),
`ledgerSpend` the table the triggers keep. `NextDay` moves the UTC date between any two steps;
`Crash(p)` stops every call of a process and frees its lock. `unreserved` is history: spend no
check covered, which the code allows in two places, an answer costing more than its estimate
and a row dated in a month its check did not read.

`SpendBudget` is the promise: a reservation is one step and fits, a charge is settled once.
`AdmissionIsOneStep` states that `GatewayLedger` implements it under the mapping
`spent <- ledgerSpend`, `charge <- ChargeOf`.

| Run | Asks | Bounds |
|---|---|---|
| `ledger_caps` | do the month's, the day's and the run's cap hold, does `ledger_spend` equal the rows | 3 chats of US$1 or 2, 2 workers, one project, 2 days of a month; month cap 4, day and run cap 3: two fit a month, one a day |
| `ledger_kinds` | is nothing sent without a row, does the ceiling over projects hold, does the refinement hold, does every call settle | 2 calls of every kind, 2 projects, 2 one-day months, costs above the estimate |

Two calls are enough for a check-then-write race and three for one call that reserves, one that
settles and one that is checked between them; two days in two months are enough for a date
that differs between any two reads. Amounts are whole dollars: the code adds floats, whose
rounding is not modelled.

**Fairness.** Weak fairness of a call's own steps: a thread or task is scheduled, the lock is
granted (finitely many calls take it, once each), and each send ends with an answer or with the
transport's timeout. Arrivals, crashes, abandoning and the date have none.

**Seen.** `HardMonthlyCap`, what "a hard cap" would mean to the letter, fails with no cost above
its estimate (`ledger_kinds` with two-dollar chats and `INVARIANT HardMonthlyCap` shows it):
`_prepare` dates the row with one `utc_now()` and `_admission` names the month with another, so at
the turn of the month a call is checked against the new month and charged to the old one.

**Proof** (`GatewayLedgerProofs`). `TypeOK`, `ProjectCapHolds`, `NothingEscapes` and
`AdmissionIsOneStep` are proved for any calls, processes, projects, days, caps and amounts,
from `ConstantsAssumption` alone (sets are arbitrary, amounts naturals, months nondecreasing).
None of the invariants is inductive as it stands. `IInv` adds `Progress` (what a call's place
says of its row, its dates and its kind), `Exclusive` (a chat between the lock and its release
is the one holder) and `Room`: once the holder's first check passed, its project's month still
has room for its estimate, because only a holder reserves, and everyone else only settles, and
what a settlement adds beyond its reservation is added to `unreserved` in the same step. One
lemma per action, the two that move money resting on `Covered`. The refinement is proved by
the same cases: every step is a step or a stutter of `SpendBudget`.

The sums over rows (`SpendMatchesRows`, `RunAndDayCapsHold`, `PortfolioCapHolds`) are proved from
a second invariant, `SumsInv`, on top of the first. It says that the rows are finitely many
(`FiniteRows`: each step begins at most one), that the table is the rows, and for each of the three
other caps what `Room` says of the first: the holder that passed its check still has room
(`DayRoom`, `RunRoom`, `MonthRoom`). What the sums then need are the lemmas of `SetTheorems` on the
sum of a function over a finite set: adding or changing one row changes its group's sum by that much
(`SumChange`) and no other's (`SumMoves`), and what a project's months hold adds up to the
portfolio's (`SumByClass`). One more assumption is used, `FiniteAssumption`: a configuration names
finitely many projects. Only model-checked: liveness.

### AuditAppender

The chain, the appender and everything that drives it, in both deployments: the proxy sealing
its own SQLite chain (`Hosted = FALSE`) and `boundary audit follow` sealing a Postgres ledger
(`Hosted = TRUE`), with `boundary audit seal` beside it (`Operators`).

    down -> read -> append -> commit -> sealed -> idle <-> append -> commit     the appender
             \___________ nothing due __________/            \-> stopped | down
    ready -> read -> append -> commit -> done                                   an operator's seal

`row[i]` is a ledger row by its id: an id given out but not committed, in flight, left in
flight by a process that is gone, or complete. `Open`/`Seal`/`Opened` are the constructor, with
its two reads of the ledger kept apart; `Report` and `Flush` are `ServerState.sealed` and
`_flush`; `AfterCall(t)` is `after_call` from taking the appender's lock to the append, with the
watermark and the pending ids moved on before it, as in the code; `TxnBegin`/`TxnCommit` are the
append transaction, `TxnFail` an append that raises, and `Raise` what each caller does then.
`AskAnchor`, `AfterCall("anchor")` and `Anchor` are `anchor()`, whose lock is released in between.
`Close` is the wait of `ServerState.close` before its last `after_call`. A hash is the sequence
of bodies it covers, so `Link` is injective; `Breaks` is `verify`. Postgres's primary key on
`seq`, its second guard, is not needed and not modelled.

| Run | Asks | Bounds |
|---|---|---|
| `audit` (`ProxySpec`: the steps of one process, whose appends succeed) | is every completed row sealed (liveness, and as an invariant), once, is a published head up to date, does stopping seal everything | 3 calls, 2 crashes, stops, 1 head |
| part `fleet` of `parts` | does `verify` ever report a break on an honest ledger (`ChainIsTrue`) | 2 calls served while the hosted sealer opens, ids visible late, one operator's seal, 2 crashes or failed appends, 2 heads |

Three ids are the fewest with one row pending below one that is sealed and one that is new; two
writers are enough to race for one head; a second crash finds what the first restart left.

**Fairness.** Weak fairness of the appender's steps (its thread gets the lock; the follower
polls; a process that *died* is started again, `restart: unless-stopped` in
`deploy/compose.yaml`), of the timer, of each done callback, and of a started command. None of
calls arriving or ending, of crashes, or of starting again what was stopped on purpose.

**Seen.** In the proxy without faults other than crashes every property holds. Hosted, a row can
be lost to the chain until the sealer is restarted, in two ways: it completes between the two
reads `__init__` makes (`appender.py:34-35`), or its id becomes visible after a higher one
(`PgLedger.begin` inserts outside the admission lock); `CompletedRowsAreSealed` with
`Hosted = TRUE` and `CallsWhileOpening = TRUE`, or `IdsInOrder = FALSE`, shows each. In either
deployment an append that raises has already moved the watermark past its rows, and in the proxy
nothing retries them (`AskedIsSealed` with `Events = {"append"}`). And sealing decides before its
transaction, so two sealers append one row twice: the chain stays intact, but holds more than one
record per change (`OneRecordPerChange` with an operator). The run `parts` has all of these, and
checks of the chain what they leave true, that it verifies; `audit` is the proxy without them.

**Proof** (`AuditProofs`). `VerifyClean` is proved of both deployments, for any number of
ids, operators, faults and heads, from `ConstantsAssumption` alone. `LogInv` says why it holds: every
record links to the one before (`Chained`), the base of a transaction is the head for as long as it
is open, because it holds the lock on the chain (`Held`), every published anchor is a prefix of the
chain (`Published`), and a record tells a state its row has or had (`Truthful`). TLC found it to hold
in all 356,267 states of that part and the 173,482 of `audit` before it was proved.

`AppenderKeepsTrack` and `AskedIsSealed` (the action property of what a head covers and what a stop
leaves) are proved of a proxy that seals its own chain with nobody beside it (`Alone`), for any
number of rows, crashes, restarts and stops. What `Alone` excludes is what is listed under **Seen**:
calls served while the appender opens, ids that become visible out of order, an append that raises,
an operator who seals at the same time. Each of these by itself falsifies `AppenderKeepsTrack`, as
TLC shows, so none is left out for the proof's sake; and `create_app` makes the appender before it
serves, and SQLite gives out ids in the order in which they become visible, so that a proxy meets the
first two. A hosted sealer does not, which is why the theorems are of the proxy. `TrackInv` (checked in
the same states of `audit`) is: ids are taken in order (`RowsInOrder`); what the watermark has passed
is pending, under way or sealed (`Remembered`); what is under way is not sealed yet (`NotSealedYet`)
and is news (`News`), so that no row is sealed twice for one change; and what a head was asked for is
covered once the bodies of that call are ready to append (`AskedFor`).

### BatchLifecycle

Vendor batches, from `batch_submit` in one process to `batch_results` in another.

    new -> begin -> upload -> create -> name -> submitted          a submission; dead from any
      \-> refused      \--------\-> fail -> failed    \-> unread
    new -> poll -> complete -> done                                 a collection; stopped from
             \-> raised                                             poll and complete

`row[b][k]` is the ledger row of a request: in flight, failed at no cost, missing from the
results, or a verdict and the request it is about. Every loop over rows is one step a row, since
each row is a statement of its own and the process may stop in between; `Create` is one attempt
of `_send_retrying`, what the vendor made of it and what came back; `NameRow` is one row of
`set_batch_id`. `RowsForBatch` and `Start` are `batch_handle`; `Fetch` is `batch_results` up to
its loop, with `ByCustomId` its table and the count check on results that carry no id;
`CompleteRow` is `_complete_batch_row`. The vendor (`End`) is external: a batch ends once, its
file does not change, and it is in the order of the requests.

Checked as the part `batch` of `send` (below): one batch of 3, an upload, 2 attempts, 2
collections, all of which may stop, any result omitted or without its id. Three requests let one
result be left out while two shift; two collections are enough for one to come after, during or
instead of another.

**Seen.** A timeout of the create request is taken for a request that did not arrive, so rows the
vendor bills end as failures (`AcceptedIsCounted` with `AnswersLost = TRUE`). The cap is checked
apart from the rows (`CapHolds` with two batches of 2 under a cap of 3). And `CollectedAsReported`
excludes one case the code gets wrong: a submitter that dies between two updates of `set_batch_id`
leaves a short handle, and a file that carries no ids and omits as many results as rows were left
unnamed passes the count check; dropping the second conjunct of the property's condition shows it.

**Proof** (`PartsProofs`). `OutcomeIsFinal`, that a row keeps the outcome it has, for any batches,
sizes, attempts and collectors, whoever dies where; and `BatchIsCounted` as long as no answer to a
create request is lost (`~AnswersLost`). That hypothesis is the code's own limit and not the
proof's: with lost answers `AcceptedIsCounted` is false, as said above, and the switch changes nothing
but whether an answer arrives.

`BatchInv` says what the processes share. Every id stored is of the submitter's last request, and is
stored only once that one is through (`Named`). `Fate(i)` is the verdict the vendor's file gives each
row, and is fixed from the moment the batch ends. A collector that has fetched has exactly that
before it (`Collected`), and a row with an outcome has it from there (`Told`), so that a second
collection, or two at once, write what is already written. The loops go through rows in order, and
`InOrder` chooses the sequence they follow: `InOrderIs` shows that there is one, by induction over
finite sets. `BilledInv` adds that a submitter which may send has all its rows begun (`Begun`), and
that a batch the vendor has accepted is of the last create request (`Billed`).

### BatchHosts

What `BatchLifecycle` leaves to "a vendor": the four batch adapters, from the request each builds
or refuses, through the vendor's words for its batch (`Over` is when one has ended), to how each
results file is read back to the rows. A vendor may leave results out, repeat them or give them out
of order (a file has no more lines than the batch has requests, and the last line of a request
counts), name them by position, or call its batch or its file anything at all. `Collect` reads the
file; `Complete` then completes the rows one by one, and `Recollect` is a collection cut off between
two of them and called again. The properties are that a row gets its own answer or none, only once
the batch is over; that a file not understood completes no row, and one understood completes them all,
in order and however often it is begun again (`TogetherOrNot`); and that the key is put into no request
but the configured host's (`KeyStaysHome`). Checked as the part `hosts` of `parts`.

**Proof** (`SoloPartsProofs`). `BatchesAreTheirOwn`: `BatchIsItsOwn` for any models and any number of
requests. `HostsInv` says at which stages the vendor has accepted the batch and at which its word for
it is one that means it is over (no word means both, `WordsTellApart`), that a row is done or missing
only once all are collected, and that Google's file, which names no request, is in the order of the
requests. `FullListIsTheBatch` is the step from there: a file in that order, with as many lines as there are
requests, has the k-th answer at its k-th line, which is what the count check rests on.

**Finding** (`batch_refused`, a run of its own). `batch_submit` begins the rows and only then builds
the request, outside any `try`: Google's adapter raises for a batch of two models and Document
Intelligence's for two documents, and the rows stay in flight though nothing was sent.

### LedgerMerge

Ledgers copied to each other: `boundary ledger merge` (file to file) and `boundary ledger push`
(file to the central ledger). A place in `Jobs` runs one command after another:

    idle | ok -> copying -> merging -> ok                              a merge
                   \-> pushing -> waiting -> pushing .. -> ok | idle    a push, killed at any point
    none -> merging -> merged -> answered                              its request at the server
                \---------\----> failed

`Copy` and `CopyLog` are the two copies of `_read_source_rows`, `Fold` (external) what SQLite may
do to the source in between. `Decision` is the rule of `merge_rows`, in one transaction for a
file (`MergeFile`) and row by row beside other workers for Postgres (`Decide`, `Commit`, where
the unique `call_uid` fails the whole request); the central file of SQLite is the special case of
one request at a time. `Receipt` is `ingest`'s second transaction; `Post`, `Answer` and `Refused`
are the loop of `cmd_ledger_push`. A request whose client is gone goes on.

| Run | Asks | Bounds |
|---|---|---|
| `merge` | is an outcome ever undone, a receipt ever without its row, success ever short of a row | 2 calls, 1 row a request, 2 commands at once, any number one after another, over 3 flows: a file pushed, merged into a second, and that one pushed |

Two commands are enough for a late request beside a new push, for two inserts of one call and for
an older copy arriving after a newer; two calls for a push that has done one of two. The runs of
`merge` use the symmetry of commands and of calls; no liveness is checked with it.

**Seen.** A log folded into its file between the two copies is in neither: `ledger merge` and
`ledger push` then report success without rows the source had committed (`CopyIsWhole`, with one
command).

**Proof** (`LedgerMergeProofs`). All four properties of `merge` are proved for any calls, files,
flows, commands and batch size, from `ConstantsAssumption` alone. `IInv` adds, per command:
`Planned`, a decision not to touch a row is still right when the transaction commits, whatever
others committed meanwhile; `Merged`, a request past its first transaction finds its rows there;
`Place`, a command's state decides where it writes and whether it has a request; `Sent`, a row a
push has read is held, still to be sent, or in the request it waits for. Every step of every
action is first shown to undo nothing (`KeptStep`), from which all four survive the steps of other
commands; the order of the three states replaces arithmetic (`AtLeast`). The receipts play no part
in it: success rests on `Sent`, and the count at the end of `cmd_ledger_push` is a second check.

### SendRetry

One call from its row to its end:

    ready -> waiting -> body <-> chunk;  finish -> returned | raised
      ^----- backoff <-----/                    escaped, from waiting and body

`Send` is an attempt, `Respond` its status, `Lose` a timeout or a network error (retried unless a
byte of a stream came), `Escape` any other error of httpx, which leaves every retry loop. `Chunk`
and `Feed` are the bytes of a body and the SSE decoder's lines, cut anywhere; `HandText` gives
`on_text` what is new, and if it raises the stream is read to its end in silence (`held`);
`EndBody` is the end of a body with what the last event still holds. `Finish` is `_finish` and
`_record`: cost, error, retries, first-token time. A piece of text is named by its attempt and its
place in it, so that text of an abandoned attempt can be told from the answer's.

Part `send` of run `send`: 3 attempts, streams of up to 4 events, both kinds of fault. Three
attempts are one that fails first, one that fails after something was heard, and the last.

**Fairness.** Weak fairness of the call's own steps: the process runs on, and every wait ends with
an answer or the transport's timeout. Strong fairness of `EndBody`, enabled only between two
chunks: an answer is at most `max_tokens` long, so a body ends. A host that sent comments for ever
would keep a stream open; nothing in the code bounds a whole stream, and `EveryCallEnds` does not
claim it.

**Finding** (`send_protocol`). `TRANSPORT_ERRORS` holds timeouts and network errors; httpx reports a
connection closed within a body as `RemoteProtocolError`, which is neither. The call then ends with
its row in flight and its estimate held against the caps.

**Proof** (`PartsProofs`). `PiecesAreText`, `RowIsTrue` and `AfterTheFirstByte` for every number
of attempts, length of stream and set of faults. `RetryInv` adds what none of them says of the states in
between: a parser nothing has come to is empty (`Where`), so an attempt that is repeated leaves
nothing behind; requests are counted by attempts (`Counted`); and how far `on_text` has come in the
text (`ToldSoFar`), the prefix stated position by position (`Begins`).

### FrontDoor

Every gate between a caller and the wire, for a request of the proxy and a call of the library:

    idle -> asking -> through -> calling -> sent -> done
                         \          \-> policy_refused -> done
                          \-> injection_blocked, redaction_refused -> done

`Arrive` is the key and the class header (`_team`, `_data_class`); `Take` the quota, in the worker's
memory or in one Redis script; `Handle` the model list, the limits, the screen and the redaction, in
the code's order; `Call` is `Gateway._enforce`; `Return` what comes back. A refusal about data is two
writes, `Refuse` (the row is begun) and `Refuses` (it is completed with its reason, and only then the
caller is told): either may fail, which the caller gets as an error, and the process may be killed
between them (`Restart`, `Quit`), after which the row is in flight for good. `Restorer` is
`caller_scoped`: the vault holds for each placeholder the first spelling met of its value, and with
`caller` a placeholder is put back only if that spelling stands in the caller's messages, joined by
line breaks (`Joined`); a text is a sequence of pieces. `Decide` and `Judge` are `enforce.py`;
`Oracle` is `enforce_eval.py`'s own reading of the policy file as plain data, so that the two are
compared.
`Summarise` and `Violations` are the residency report, read from the rows. Which body parses, and on
which text the screen fires, is given with the request.

Run `door`: the Canadian policy with `injection` at `flag` and at `block` and a sparse one, every class,
absent and malformed header, provider (one of an unknown residency and one of none), route and team,
one request at a time and two of a library; a name in the system prompt and in the messages, whole,
over two messages, in another case or only a part of it, found in either order (`Told`); and the
quota with 3 and 4 requests over 3 and 4 steps of a window of two, hosted and not, with workers
restarted. Two steps of window put a request exactly at its edge. `DataStaysWithinRule` includes the three counts of the policy suite.

**Proof** (`FrontDoorProofs`). `DataStaysWithinRule`, `RefusalsAreOnRecord` and `AnswerIsTheCallers`
for every policy that loads, route table, team and caller and any number of requests, from
`FrontDoorAssumption`. Requests meet only in the quota's windows, so `IInv` is a conjunct for each
request: what was sent, cached, recorded and answered, in terms of the verdict of its own rule
(`Verdict`), wherever the request is, and at a refusal which of its two writes is done.
`JudgeIsOracle` is the lemma that `Judge` is the suite's reading. `OccursInJoined` is what makes the
scope right: a value without a line break stands in the joined text exactly when it stands in one of
the messages. It goes by induction over the number of messages, on the recursive function that joins
them (`JoinsExists` shows that there is one); joined without the break, it is false.

`QuotaIsExact` is proved for any window, limit, number of workers, requests and restarts. What a
worker or Redis still keeps of a team is exactly what it let through within the last window
(`Kept`), of which there are never more than the limit (`Bounded`), and who was refused was told a
wait before which the window has no room and after which it has, whoever came since (`ToldRight`).
Dropping what has expired, counting and adding are one step in the code (a worker's one thread, Redis'
one script), and so in the proof: the window after the step is the one before it, without a set of
old requests and with one new (`SetTheorems` has what cardinalities that takes).

`ReportMissesNothing` needs no invariant beyond that every row was placed by the map of providers in force (`AllPlaced`); a group's `sent` is the number of its rows, and a
limit is passed by a group as soon as it is by one of its rows, since `Reach` is a function of what
the group has in common.

**Seen.** The report's `sent` counts refused rows too (`SentAreTheSent`, for `residency.py:136`). A
class no rule lists, asked for with `x-boundary-cache: question`, raises `KeyError` in `_semcache`
and is a 500 with no row (`app.py:1038`). A header that is absent is `personal`, whatever
`undeclared` says.

### ProxyCall, SemanticCache

The handler of `/v1/chat/completions` from its gates on: lookups in worker threads, the budget of
embeddings, the task that makes the call and outlives its client, the queue a stream is handed over,
`sealed`, and `close`. A client may disconnect at any await (`Cancel`), which cancels the handler's
wait and never the task nor the thread. `SemanticCache` has who may read and store which entry: in
memory, where the nearest is found, and in the hosted table, where the approximate index may find
any entry in scope or none.

Run `proxy`: pairs of requests chosen so that the second may or may not be served by the first
(same question, near, far, another team, another scope, every bar, hosted over two workers or in
memory), a native stream beside a redacted one, and three at once for one place in the cache and one
in the embedding budget; one disconnect; streams of two pieces.

**Fairness.** Weak fairness of handlers, worker threads, tasks and `close`: the event loop runs
whatever is ready, the thread pool whatever is queued, and each call ends (`SendRetry`). Clients,
arrivals and shutdown have none.

**Seen.** The hosted cache overshoots `max_entries` by at most one entry per other worker, which
`CacheBounded` states as it is. The row of a cancelled cache hit is written, and `sealed` comes late.

**Proof** (`ProxyCallProofs`). `StreamIsFaithful`, `ReportedInTime` and `CachesHold` for any number of
requests, workers, pieces, disconnects and entries, from `ProxyAssumption`: requests and workers are
finitely many (the code starts a fixed number of processes, and what is served between two starts is
finite), a worker's name is a string, and none is named as the shared cache is. `IInv` is a
conjunction for each request, one for the cache and one for the count of embeddings:

- `CallInv(r)`: what handler, thread and task of one request may be at together. A thread outlives
  its handler, so that both the waits and what a cancelled wait leaves behind are said.
- `StreamInv(r)`: what was written to the client, what the rehydrator holds back, and what the queue
  still has are the pieces handed over, each at its position; the end marker comes last, and only
  once the task is over.
- `CacheInv`: no entry is of another team, scope or kind than who stored it (`EntriesInv`), a store
  under way has the lock of its worker (`LockInv`), and what a request found is an entry it may read
  (`HitInv`), though entries are replaced and evicted between its search and its answer.
- `CountInv`: a worker's counter is the number of its handlers that wait for an embedding, with the
  threads that outlive them counted beside it.

A step is of one request, and leaves what the invariant says of every other `Untouched`: this lemma
is why the number of requests does not matter. The hosted table's limit is proved as `Size` and the
inserts under way together: each is checked under its worker's lock, so that other workers add at
most one each. TLC found `IInv` to hold in all 252,224 states of the run. Only model-checked:
`EveryWaitEnds`.

### Redaction, NameRuns, Rehydrator

`Redaction` has a text as a sequence of words and placeholders: `Resolve` and `Sweep` decide the
spans, `Build` mints placeholders into the vault of the last request, `Redact` is the three passes
(whole values, parts of names, shapes), `Leaks` the guard, `Rehydrate` the way back. Up to three
documents are redacted into one vault, one of which contains a placeholder of its own.

`NameRuns` is the second pass's scan, `_name_runs`, word by word. Its property says what a name is
from the text by itself (which words touch, which are initials, what a title does) and that the scan
masks exactly those. All texts of up to 4 words of 6 kinds and 4 gaps.

`Rehydrator` is `StreamRehydrator`, character by character: a placeholder cut over any number of
pieces comes back as it does in the whole text. All texts of up to 6 characters, in all pieces of up
to 3, longer than the longest text that is held.

**Proof** (`PartsProofs`). `NamesAreMaskedWhole`: `NamesAreMasked` for texts of any length, over any
capitals and any set of initialisms. The property reads the text from outside, all of it; the scan sees
one word and a run. `NameInv` relates the two at every word: the run is the longest chain of parts and
particles that touch and end at the last word read (`RunIsChain`), and what is masked is exactly the
names that end before the run begins (`MaskedIsWhole`), so that what a word ends, and only that, is
flushed. `NamesAreMasked` then follows when the last run is flushed. That a run without
the particles at its end is the longest name in it are `TrimmedIs` and `FlushIs`.

**Finding** (`redaction_surname`). A surname that is a vocabulary word, detected with its first name
and again by itself, is left to the parts, and a part the vocabulary allows is no part: at the second
place it goes out in clear, and the guard, built from the same lists, does not see it.

**Seen.** A document that writes a placeholder itself makes the guard refuse once its value has been
rebuilt, which fails closed. A capital without a full stop after a name (`Mr John A`) is no initial.
`_code_runs` skips a whole run where its docstring says that it breaks it.

### TamperEvidence

A chain sealed under successive record schemas, its anchors, every check of `verify`, and the twelve
corruptions of `audit tamper-test` by someone who can rewrite the chain and the ledger and recompute
every hash, but not what was published. `trusted` is history: how much was anchored before anything
was touched. Part of `parts`: two calls, two schemas, two records, one anchor, two corruptions one
after the other, so that the second may hide the first. Naive deletion of the last unanchored record
is not seen by `verify` (`docs/audit.md:133` says so), which is why the properties speak of what is
below an anchor.

**Proof** (`AuditProofs`). `ChainsAreTrue` and `CorruptionsAreDetected`, for any calls, schemas,
records, anchors, corruptions and costs of nothing or something. `TamperInv` says what is left of the
truth: before the first corruption the ledger is as the gateway wrote it and the chain honest (linked,
numbered, each record of its row at the time, no outcome twice); after any number of them a row that
was completed is complete or gone, and one of the anchors still in the hands of others vouches for
what was sealed up to it. That a corruption cannot move the last one is because a hash stands for
everything before it: a head at a position is contradicted by any chain that differs below it.
`CorruptionsAreDetected` follows one corruption of an honest chain kind by kind, from what it does to
the numbers, the links and the bodies (`CorruptChain`).

### LedgerOpening

`LedgerStore.__init__` and `_migrate` as the autocommitted statements they are, from a file of each
version that changes what is done, by two processes that may be killed between any two of them, on
one file or on two copies of one, with a process of the older library writing beside them.

**Finding** (`opening_killed`). `_rebuild_spend` empties the table and refills it in two statements.
When two processes open an old file, one may record the new version between them; killed there, the
other leaves a table no later opening rebuilds, and the caps read too little. A single process that
is killed is finished by the next open, as the comment says (`LedgerIsWhole`).

**Proof** (`SoloPartsProofs`). `LedgersAreWhole`, for any files, processes, rows and earlier versions,
wherever each process is killed. The statements are always one list of eleven from some place on
(`From`), so that `OpeningInv` says, for each opener, what the file must already have at its place
(`OpenerOk`), and for each file what its version vouches for (`FileOk`): a file is given its version
only after everything else. A row without a uid that the statements have passed is none of the
file's own (`Nulls`), which is the induction over a killed migration: the next opener's list begins
where what is missing begins. The sum is right, or is still to be counted by the one who opens
(`AloneAt`), unless two were opening at once. The assumption says two things of the scenarios that
were left unsaid: `None` is no uid, and no older process writes to a file that does not exist yet.

### CallTarget

One call from a configuration to a host: the two price lists checked when a gateway is made, a model
or alias resolved, the rule judged, what an adapter builds or refuses, the reservation and the cost.
`CallCases` lists the configurations: every Bedrock and Vertex host, region and declaration under
every rule and route, and every price list, estimate and `extra` at a host that names no place. The
checks on place hold only where host or model says anything; `extra` from a route or a caller can
name another model and another length after every check, which the properties exclude by name.

**Proof** (`SoloPartsProofs`). `CallsAreAsJudged`: `CallIsAsJudged` for any set of configurations and
any reserve, threshold and rate, which is to say that it holds by what the stages do and not by which
cases were listed. In `CallInv` each stage vouches for what the stages before it found: a call that
was judged was allowed, what was built was what the adapter builds for the resolved entry, and a row
is the one that was reserved, with the cost of the counts once they have come. What the property adds
is arithmetic: counts within a reservation cost no more than it, at the same rates.

### WireRequest, VendorAnswers, AccessToken

`WireRequest` is a body on its way in: `parse_request`, `ChatRequest`, each adapter's body, compared
with how each vendor reads one (external). `VendorAnswers` is an answer on its way back: the vendor
bills five counts and says them in its own words, whole, in a batch's results, in the events of a
stream, or through `raw`; `BilledIsCounted` is that the cost and the usage told are the bill, each
token once and at its rate. Only a whole answer's shape is checked: a batch's result at Anthropic,
OpenAI and Google is taken for an answer whatever object it is (`Inline`), and completes its row at a
cost of nothing. So the property says of what has no counts what the code does: what no reader
takes, and a stream that did not give any, has no cost; the rest may cost nothing, and of the whole
answers only those with an answer's shape. Conversations have up to three messages (`MaxTalk`), the fewest with a
system message out of place between two others; each count is at most 2 (`AnswerTokens`), so that
a count taken twice differs from one taken once.

**Proof** (`PartsProofs`). `WireIsFaithfulAlways`: `WireIsFaithful`, both halves of it, for
conversations of any length, counts of any size, any number of events in a stream and any rates. On
the way in `WireInv` says that what is parsed passed every check and is `Parsed` of what was asked, and
that what is built is `Built` of the request; each vendor is then a lemma of its own, of its
settings, each under that vendor's name for it, and of its texts. Anthropic and Google take the system
messages apart, and the texts come in order because these are the first of the conversation
(`SystemFirst`) and a stretch of places in order is that stretch (`IntervalInOrder`). On the way back
`AnswerInv` follows the answer: what is read has the bill's counts, whichever vendor says them how
(`ReadTrue`, with `UsageIs` one vendor at a time), what it costs is what these come to (`CostTrue`), and
what the caller is told is what was read (`ToldTrue`). A stream's counts come with or after the
model's name (`StreamNames`), so that a stream is never costed at another model's rates.
`CostIsCharge` is that the sum the code makes is the vendor's charge.

`AccessToken` is `GoogleADCToken` and the dictionary of sources, made by a check and a set without a
lock: two first calls may make two sources and two tokens, and from then on one refresh serves all.
`OneRefreshServesAll` for any threads and any times with
`Timeout < Skew < Life` (the code's are 120 s, 300 s and about an hour). `TokenInv` says that who
refreshes holds the lock of a source whose token is of no more use (`Refreshing`), that what a source
minted is what it has or is used up (`Minted`), so that two tokens of one source are a useful life
apart (`Apart`), and that the key of an attempt outlives what is left of it (`Held`).

### QualityRun, HostedMove, DashboardPage

`QualityRun` is `collect` and `judge` with their two append-only files, killed and resumed: a vendor
is paid again only for what was in flight, and verdicts are joined to their own answers.
`HostedMove` is `db import`, killed, repeated and run twice, while the proxy it started serves,
seals and takes pushes.

`DashboardPage` is the page: looked at, rendered in a thread from two reads (one, hosted), kept by
its worker, dropped by a push. A push does not drop a render that has begun, and another worker's
page is never dropped, so "rebuilt ... after every push" (`docs/central.md:88`) holds with those two
exceptions; what `PageIsRecent` states is that the stamp of a page is read before its render, so that
whatever crosses it, nobody sees less than what stood one lifetime before he came. A clock of two
steps, two viewers that look any number of times and one worker, since no worker reads another's
page; the proxy's own calls, which drop no page, stand for pushes to another worker too.

**Proofs** (`PartsProofs`). `RestartsLoseNothing` and `PageIsRecent` for any keys, kills, failures,
chunks and sums; any calls, importers and pushes; any viewers, workers, calls and times.

- *The measurement.* `QualityInv`: what is asked or still to be asked is not stored (`Asking`: `collect`
  asks for what is not settled, `judge` for what has neither a verdict nor a reply); a key was paid
  for no more often than it was lost, and once more if its answer is stored or about to be (`PaidOnce`); and
  every verdict is about the line now stored (`Owned`). The last one holds across later runs of
  `collect` because a new line is only ever stored for a key that was not settled, and so had no
  verdict (`LineIsStored`). The sum is kept by counting what is asked as if it were spent.
- *The move.* `MoveInv`: each ledger seals what is complete, once (`Sound`); what the old proxy left is
  reached by the hosted ledger as far as each import has come (`Brought`), and is all there once one
  is through (`Through`), which is what lets the proxy start; the hosted chain begins with the old one
  as soon as it has a record (`Starts`). Merges never take a row back, so imports beside each other,
  and pushes and calls beside them, only add.
- *The page.* `PageInv` keeps `stood`, what the tables said at each time: they only get further
  (`Past`), a page that is kept reaches what stood when its stamp was read (`KeptBy`), and a render
  between its two reads has each call in what it has read or will read (`ViewedBy`). A page shown is
  younger than its lifetime, so that it reaches what stood a lifetime before.

## 3. Plan

Done: every module above, and a proof of every safety property a run checks but one,
`RedactionHolds`. What would come next, in this order:

1. The folds of `Redaction` (spans resolved best first, placeholders minted in document order) shown
   on TLC to be what a condition on the set of spans says, which could then be proved about.
2. `ProxyCall` composed with `AuditAppender` through `Report`, in one module: a client that has its
   answer has its row in the next published head. Each half is now proved (`ReportedInTime`,
   `AskedIsSealed`).
3. The demo page's spend, kept over midnight; ingest's count of a source's rows set by a late request.

## 4. What is proved, what is checked, what is left out

**Proved**, for every value of the constants, from each module's own named assumption:

| Module | Proved | Only checked |
|---|---|---|
| `GatewayLedger` | types, every cap, the spend table, that nothing is sent without a row, the refinement of `SpendBudget` | that every call settles |
| `TamperEvidence`, in `SoloParts` | that a chain that verifies is the one sealed, that corruptions below an anchor are detected | |
| `AuditAppender` | that an honest chain verifies, in both deployments; that nothing is forgotten, sealed twice or left out of a head, of a proxy | that every row is sealed in the end |
| `LedgerMerge` | all that `merge` checks | |
| `SendRetry` | the stream, the row, nothing after the first byte | that calls end |
| `FrontDoor` | the policy and its suite, the record of refusals, scoped answers, the quota, the report | |
| `ProxyCall`, `SemanticCache` | streams, reports and seals, both caches, the budget of embeddings | that waits end |
| `BatchLifecycle`, in `CallParts` | that outcomes are final; that what is billed is counted and collected as reported, while no answer to a create request is lost | |
| `AccessToken`, `WireRequest`, `VendorAnswers`, `NameRuns`, `QualityRun`, `HostedMove`, `DashboardPage`, in `CallParts` | all that `send` checks of them | |
| `LedgerOpening`, `BatchHosts`, `CallTarget`, in `SoloParts` | all that `parts` checks of them | |
| `Redaction`, `Rehydrator`, in `SoloParts` | | `RedactionHolds` |

Each rests on an inductive invariant described with its module, whose three facts (it holds at first,
every action keeps it, it implies the property) are lemmas of their own, one per action. In `PartsProofs`
and `SoloPartsProofs` a behaviour is one of one part (`EachPartStarts`, `OnePartActs`), and the
invariant is that part's.

`SetTheorems` has what they share: induction over the finite sets and over the naturals, both with
the *set* of what has the property in place of a predicate (the library's induction theorems take an
operator as a parameter, which the provers cannot instantiate); the greatest and least of a finite set
of naturals; and sums. `FoldFunctionOnSet`, which the model adds with, is a recursive function that
chooses an element at every step; `SumsExists` shows that such a function exists on the subsets of a
finite set, and `SumAdd`, that the choice does not matter.

**Only checked** by TLC on the instances above: liveness under fairness, which is out of the prover's
reach (`EveryCallSettles`, `CompletedRowsAreSealed`, `EveryWaitEnds`, `EveryCallEnds`); and
`RedactionHolds`, of `Redaction` and `Rehydrator`, where what is compared is computed by folds, by
sorting and by recursion over a text, and to say what these come to for every text would be an
induction over data.

**What proving changed.** A library operator defined by recursion over a sequence (`SelectSeq`, a
fold) is a closed name to the provers; where a module only picked places of a list with one, it now
writes the places in order (`Places`), which is also how the code's loop reads. Assumptions that held
of every configuration and stood nowhere are named (`OpeningAssumption`, `NameRunsAssumption`,
`WireRequestAssumption`), and bounds that stood as literals in a definition are constants (`MaxTalk`,
`MaxTokens`), so that a theorem is of any of them.

**Bounds** stand as a constant or in a guard where they are declared: ids, records, anchors, faults,
events, pieces, words, steps of the clock, attempts. Those of each run are said with its module; a
bound is the fewest with which every action fires and the hazard it is for can happen.

**Seen, and not a run.** Where the code does less than one could wish but promises no more, or a
finding's property is only true in part, the statement is kept in its module and left out of the
runs: `HardMonthlyCap`, `OneRecordPerChange`, `AskedIsSealed` and `CompletedRowsAreSealed` of a
hosted sealer, `AcceptedIsCounted` with lost answers, `CapHolds`, `CopyIsWhole`, `SentAreTheSent`; §2
says how each is made to fail. Read along the way, and not stated by any property:

- *Prices.* A whole 2xx answer without counts, and a batch's result that is an object of any other
  shape, is costed at nothing (only streams are guarded, `gateway.py:1738`); a stream's error event after its counts leaves its row without a cost; `raw` at
  Google is never costed; collecting a batch costs it with the price list then in force while its row
  cites the one it was submitted under; a model that is free cites a list it was not costed with.
- *Formats.* A blocked Google prompt's `blocked` reaches the caller untranslated; a decision's body
  drops `max_tokens` in silence; only the first part of an answer is kept, as documented.
- *Tokens.* A key is used for up to four attempts of 120 s, and the skew is 300 s, where
  `credentials.py:36-39` says that a token fresh at the start of a call cannot expire during it.
- *Batches.* A status the adapter does not know counts as over at Document Intelligence; an empty
  state at Google never does.
- *Files.* The development cache's files are not written atomically and may hold an answer that could
  not be parsed; a torn last line of a quality run must be repaired by hand; `db import` run again
  after the old chain grew leaves the hosted chain alone.
- *Policy.* `raw` does not pass `check_residency`, which is for Bedrock alone.

**Left out** of the modules, on purpose: amounts are whole numbers and not floats; prompts and names
are reduced to what the properties tell apart; recognisers, regular expressions and the spelling of a
body are given with the input they read; rows without a `call_uid`, and an operator's edits other
than those `audit/tamper.py` has, are not represented; the clock is the date in `GatewayLedger`,
whole steps in `FrontDoor`, `AccessToken` and `DashboardPage`, and absent elsewhere.

**Not modelled at all**: telemetry, which nothing reads back; the development cache and raw store,
files written whole whose failure is `Abandon` of `GatewayLedger`; page layout, percentiles and the
demo page's text; and the load test, benchmarks, evaluations and web site, which drive the system and
count.
