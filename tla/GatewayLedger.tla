--------------------------- MODULE GatewayLedger ---------------------------
(***************************************************************************)
(* The life of a model call as the ledger sees it: boundary/gateway.py     *)
(* writes a row before anything is sent and completes it with the outcome, *)
(* boundary/ledger/store.py admits the row under the spend caps, and the   *)
(* triggers of schema.sql keep the table the caps read.                    *)
(*                                                                         *)
(* Three kinds of call are told apart by how they reach the ledger:        *)
(*   chat   Gateway.chat, achat and both streams: admitted under the       *)
(*          admission lock at the estimate of the request;                 *)
(*   raw    Gateway.raw: the caps are read without the lock and with an    *)
(*          estimate of zero, and the row is begun without a cost;         *)
(*   local  a row nothing is sent for: a policy refusal, a refusal by the  *)
(*          proxy, a semantic cache hit.  Begun and completed at no cost.  *)
(*                                                                         *)
(* One admission lock is modelled.  It is the process's lock on the ledger *)
(* file for SQLite, which one process serves, and the advisory lock of     *)
(* ledger_admit for Postgres, which every process takes.                   *)
(***************************************************************************)
EXTENDS Integers, FiniteSets, Functions

CONSTANTS
  Calls,         \* calls the gateway is asked for, over the life of a ledger
  Processes,     \* processes that serve them (the workers of the proxy)
  ProcessOf,     \* [Calls -> Processes]
  Projects,      \* the projects (a team of the proxy is one) rows belong to
  Runs,          \* run ids a caller may name
  NoRun,         \* run_id = None
  MaxEstimate,   \* bound: estimates are 0 .. MaxEstimate
  Requests,      \* what callers may ask for, out of AllRequests
  MaxCost,       \* bound: what an answered call may cost is 0 .. MaxCost
  LastDay,       \* bound: the clock stops at day LastDay
  MonthOf,       \* [Days -> Nat]: the month a day is in
  ProjectCap,    \* [Projects -> Nat]: project_monthly_usd
  DayCap,        \* project_daily_usd, the same for every project here
  RunCap,        \* per_run_usd
  PortfolioCap   \* portfolio_monthly_usd

\* Only a chat is estimated, and only when a price list knows its model.
AllRequests == [kind : {"chat", "raw", "local"}, project : Projects,
                run : Runs \cup {NoRun}, estimate : 0 .. MaxEstimate, priced : BOOLEAN]

Days   == 1 .. LastDay
Months == {MonthOf[d] : d \in Days}

ASSUME ConstantsAssumption ==
  /\ ProcessOf \in [Calls -> Processes]
  /\ NoRun \notin Runs
  /\ Requests \subseteq AllRequests
  /\ MaxEstimate \in Nat /\ MaxCost \in Nat
  /\ LastDay \in Nat \ {0}
  /\ MonthOf \in [Days -> Nat]
  /\ \A d, e \in Days : d <= e => MonthOf[d] <= MonthOf[e]
  /\ ProjectCap \in [Projects -> Nat]
  /\ DayCap \in Nat /\ RunCap \in Nat /\ PortfolioCap \in Nat

\* The portfolio's spend is a sum over the projects there are.
ASSUME FiniteAssumption == IsFiniteSet(Projects)

\* cost_usd = NULL: a price no list knows, a failure, a stream without counts.
NoCost == -1
NoDay  == 0

\* COALESCE(cost_usd, 0) of the triggers and of the sums.
Coalesce(cost) == IF cost = NoCost THEN 0 ELSE cost

VARIABLES
  today,        \* the date utc_now() gives
  req,          \* req[c]: what the caller of c asks for, fixed
  pc,           \* pc[c]: how far c is through _prepare, the send and _finish
  stamp,        \* stamp[c]: the day of row.ts_utc, read when the row is built
  asked,        \* asked[c]: the day _admission read, which names the month and day
  holder,       \* the calls inside `with self.admission()`
  row,          \* row[c]: the ledger row of c
  ledgerSpend,  \* table ledger_spend: project and month to the sum of cost_usd
  sent,         \* the calls whose request has left the machine
  unreserved    \* history: spend of a project and month that no check covered

vars == <<today, req, pc, stamp, asked, holder, row, ledgerSpend, sent, unreserved>>
-----------------------------------------------------------------------------
Scopes == {"project", "day", "run", "portfolio"}

\* A plausible bug: a check that is never reached.
AfterSkippingRun(scope) == CASE scope = "project"   -> "day"
                             [] scope = "day"       -> "portfolio"
                             [] scope = "run"       -> "portfolio"
                             [] scope = "portfolio" -> "insert"

\* The caps in the order Admission.check reads them, then the insert.
After(scope) == CASE scope = "project"   -> "day"
                  [] scope = "day"       -> "run"
                  [] scope = "run"       -> "portfolio"
                  [] scope = "portfolio" -> "insert"

Settled == {"denied", "done", "lost"}
PCs == {"new", "stamped", "queued", "insert", "admitted", "sent", "local", "closing"}
         \cup Scopes \cup Settled

NoRow == [state |-> "none", cost |-> 0]
RowStates == {"none", "in_flight", "complete"}

Project(c) == req[c].project
Month(c)   == MonthOf[stamp[c]]
\* The line of ledger_spend a row counts in, and the one its admission reads.
Account(c)      == <<Project(c), Month(c)>>
AskedAccount(c) == <<Project(c), MonthOf[asked[c]]>>

\* The row's estimate: cost_usd of a row begun by _prepare, NULL when unpriced.
Reserve(c) == IF req[c].priced THEN req[c].estimate ELSE NoCost
\* What Admission.check adds to the spend it reads: zero when the model is unpriced.
Estimate(c) == IF req[c].kind = "chat" /\ req[c].priced THEN req[c].estimate ELSE 0

\* A query over the rows: SUM(cost_usd) of the rows in S.
SumOfRows(S) == SumFunctionOnSet([c \in Calls |-> Coalesce(row[c].cost)], S)
Written == {c \in Calls : row[c].state # "none"}

\* spend_usd for each scope: the month's sums come from ledger_spend, the others
\* are sums over the rows.
SpendUsd(c, scope) ==
  CASE scope = "project"   -> ledgerSpend[AskedAccount(c)]
    [] scope = "day"       -> SumOfRows({o \in Written : Project(o) = Project(c)
                                                          /\ stamp[o] = asked[c]})
    [] scope = "run"       -> SumOfRows({o \in Written : Project(o) = Project(c)
                                                          /\ req[o].run = req[c].run})
    [] scope = "portfolio" -> SumFunction([p \in Projects |-> ledgerSpend[<<p, MonthOf[asked[c]]>>]])

CapUsd(c, scope) ==
  CASE scope = "project"   -> ProjectCap[Project(c)]
    [] scope = "day"       -> DayCap
    [] scope = "run"       -> RunCap
    [] scope = "portfolio" -> PortfolioCap

\* One check of Admission.check; the run's cap is read only for a call that names a run.
Fits(c, scope) ==
  \/ scope = "run" /\ req[c].run = NoRun
  \/ SpendUsd(c, scope) + Estimate(c) <= CapUsd(c, scope)

\* A plausible bug: an update trigger that adds the new cost and leaves the old one in.
TriggerAddsNew(c, old, new) ==
  ledgerSpend' = [ledgerSpend EXCEPT ![Account(c)] = @ + Coalesce(new)]

\* The triggers ledger_spend_insert and ledger_spend_update: the month's sum moves by
\* the new cost less the old one, a missing cost counting as nothing.
Trigger(c, old, new) ==
  ledgerSpend' = [ledgerSpend EXCEPT ![Account(c)] =
                    @ + Coalesce(new) - Coalesce(old)]

\* A plausible bug: begin() leaves error_type as the caller set it, which is None.
BeginRowUnmarked(c, cost) ==
  /\ row' = [row EXCEPT ![c] = [state |-> "complete", cost |-> cost]]
  /\ Trigger(c, NoCost, cost)

\* LedgerStore.begin: the row is inserted in flight with the cost it was built with.
BeginRow(c, cost) ==
  /\ row' = [row EXCEPT ![c] = [state |-> "in_flight", cost |-> cost]]
  /\ Trigger(c, NoCost, cost)

\* LedgerStore.complete: the outcome is written over the row begin() returned.
CompleteRow(c, cost) ==
  /\ row' = [row EXCEPT ![c] = [state |-> "complete", cost |-> cost]]
  /\ Trigger(c, row[c].cost, cost)

Goto(c, l) == pc' = [pc EXCEPT ![c] = l]

\* History only: spend that goes past what an admission check allowed for.
Uncovered(c, amount) ==
  unreserved' = [unreserved EXCEPT ![Account(c)] = @ + amount]
-----------------------------------------------------------------------------
Init ==
  /\ today = 1
  /\ req \in [Calls -> Requests]
  /\ pc = [c \in Calls |-> "new"]
  /\ stamp = [c \in Calls |-> NoDay]
  /\ asked = [c \in Calls |-> NoDay]
  /\ holder = {}
  /\ row = [c \in Calls |-> NoRow]
  /\ ledgerSpend = [k \in Projects \X Months |-> 0]
  /\ sent = {}
  /\ unreserved = [k \in Projects \X Months |-> 0]

\* The UTC date changes under the calls in progress.
NextDay ==
  /\ today < LastDay
  /\ today' = today + 1
  /\ UNCHANGED <<req, pc, stamp, asked, holder, row, ledgerSpend, sent, unreserved>>

\* The row is built and dated.  A local row goes straight to begin; the others read the
\* clock again for the caps.
Stamp(c) ==
  /\ pc[c] = "new"
  /\ stamp' = [stamp EXCEPT ![c] = today]
  /\ Goto(c, IF req[c].kind = "local" THEN "local" ELSE "stamped")
  /\ UNCHANGED <<today, req, asked, holder, row, ledgerSpend, sent, unreserved>>

\* Gateway._admission: the month and the day the caps are checked for.  raw() calls
\* _check_caps, which takes no lock; the others go to LedgerStore.admit, which does.
ReadClock(c) ==
  /\ pc[c] = "stamped"
  /\ asked' = [asked EXCEPT ![c] = today]
  /\ Goto(c, IF req[c].kind = "raw" THEN "project" ELSE "queued")
  /\ UNCHANGED <<today, req, stamp, holder, row, ledgerSpend, sent, unreserved>>

\* Two plausible bugs: no lock at all, and a lock per store where the stores of several
\* projects write one file.
AcquireUnlocked(c) ==
  /\ pc[c] = "queued"
  /\ holder' = holder \cup {c}
  /\ Goto(c, "project")
  /\ UNCHANGED <<today, req, stamp, asked, row, ledgerSpend, sent, unreserved>>

AcquirePerStore(c) ==
  /\ pc[c] = "queued"
  /\ \A o \in holder : Project(o) # Project(c)
  /\ holder' = holder \cup {c}
  /\ Goto(c, "project")
  /\ UNCHANGED <<today, req, stamp, asked, row, ledgerSpend, sent, unreserved>>

\* `with self.admission()`, or the advisory lock of ledger_admit.
Acquire(c) ==
  /\ pc[c] = "queued"
  /\ holder = {}
  /\ holder' = {c}
  /\ Goto(c, "project")
  /\ UNCHANGED <<today, req, stamp, asked, row, ledgerSpend, sent, unreserved>>

\* One query and one comparison of Admission.check.  The four read the ledger one after
\* another, and completions of other calls commit between them.
CheckCap(c) ==
  /\ pc[c] \in Scopes
  /\ Fits(c, pc[c])
  /\ Goto(c, After(pc[c]))
  /\ UNCHANGED <<today, req, stamp, asked, holder, row, ledgerSpend, sent, unreserved>>

\* SpendCapExceeded: nothing is written and nothing will be sent.
Deny(c) ==
  /\ pc[c] \in Scopes
  /\ ~ Fits(c, pc[c])
  /\ Goto(c, "denied")
  /\ holder' = holder \ {c}
  /\ UNCHANGED <<today, req, stamp, asked, row, ledgerSpend, sent, unreserved>>

\* The row is written in flight; a chat's reserve counts from here on, a raw call's row
\* has no cost.  A row dated in a month the check did not read is uncovered spend.
Admit(c) ==
  /\ pc[c] = "insert"
  /\ LET cost == IF req[c].kind = "raw" THEN NoCost ELSE Reserve(c)
     IN  /\ BeginRow(c, cost)
         /\ Uncovered(c, IF MonthOf[asked[c]] = Month(c) THEN 0 ELSE Coalesce(cost))
  /\ holder' = holder \ {c}
  /\ Goto(c, "admitted")
  /\ UNCHANGED <<today, req, stamp, asked, sent>>

\* record_refusal, record_cache_hit and the refusal branch of _enforce.
LocalBegin(c) ==
  /\ pc[c] = "local"
  /\ BeginRow(c, 0)
  /\ Goto(c, "closing")
  /\ UNCHANGED <<today, req, stamp, asked, holder, sent, unreserved>>

LocalComplete(c) ==
  /\ pc[c] = "closing"
  /\ CompleteRow(c, 0)
  /\ Goto(c, "done")
  /\ UNCHANGED <<today, req, stamp, asked, holder, sent, unreserved>>

\* An answer of the development cache: completed at no cost, nothing sent.
FinishCached(c) ==
  /\ pc[c] = "admitted" /\ req[c].kind = "chat"
  /\ CompleteRow(c, 0)
  /\ Goto(c, "done")
  /\ UNCHANGED <<today, req, stamp, asked, holder, sent, unreserved>>

\* The request leaves the machine for the first time.
Send(c) ==
  /\ pc[c] = "admitted"
  /\ sent' = sent \cup {c}
  /\ Goto(c, "sent")
  /\ UNCHANGED <<today, req, stamp, asked, holder, row, ledgerSpend, unreserved>>

\* _finish and _record, or the tail of raw(): the actual cost, or none for a failure, an
\* unknown price or a stream whose counts never came.
Finish(c) ==
  /\ pc[c] = "sent"
  /\ \E cost \in 0 .. MaxCost \cup {NoCost} :
       /\ CompleteRow(c, cost)
       /\ LET over == Coalesce(cost) - Coalesce(row[c].cost)
          IN  Uncovered(c, IF over > 0 THEN over ELSE 0)
  /\ Goto(c, "done")
  /\ UNCHANGED <<today, req, stamp, asked, holder, sent>>

\* A call given up after its row was written and before it was completed: a cancelled
\* task, a raw store or a cache file that cannot be written.  The row stays in flight.
Abandon(c) ==
  /\ pc[c] \in {"admitted", "sent"}
  /\ Goto(c, "lost")
  /\ UNCHANGED <<today, req, stamp, asked, holder, row, ledgerSpend, sent, unreserved>>

\* A process dies: every call it was serving stops where it is, and the lock it held is
\* free again (a thread lock dies with the process, an advisory lock with its session).
Serving(p) == {c \in Calls : ProcessOf[c] = p /\ pc[c] \notin Settled \cup {"new"}}

\* A plausible bug: a lock kept in a table, which outlives the process that took it.
CrashHoldingLock(p) ==
  /\ Serving(p) # {}
  /\ pc' = [c \in Calls |-> IF c \in Serving(p) THEN "lost" ELSE pc[c]]
  /\ UNCHANGED <<today, req, stamp, asked, holder, row, ledgerSpend, sent, unreserved>>

Crash(p) ==
  /\ Serving(p) # {}
  /\ pc' = [c \in Calls |-> IF c \in Serving(p) THEN "lost" ELSE pc[c]]
  /\ holder' = holder \ Serving(p)
  /\ UNCHANGED <<today, req, stamp, asked, row, ledgerSpend, sent, unreserved>>

\* The steps the process takes by itself once a call has arrived.
Step(c) ==
  \/ ReadClock(c) \/ Acquire(c) \/ CheckCap(c) \/ Deny(c) \/ Admit(c)
  \/ LocalBegin(c) \/ LocalComplete(c) \/ FinishCached(c) \/ Send(c) \/ Finish(c)

Next ==
  \/ NextDay
  \/ \E c \in Calls : Stamp(c) \/ Step(c) \/ Abandon(c)
  \/ \E p \in Processes : Crash(p)

\* A call in progress runs on: a thread or a task is scheduled, and every send ends with
\* an answer or with the transport's timeout.  Callers, crashes and the date are free.
Fairness == \A c \in Calls : WF_vars(Step(c))

Spec == Init /\ [][Next]_vars /\ Fairness
-----------------------------------------------------------------------------
TypeOK ==
  /\ today \in Days
  /\ req \in [Calls -> Requests]
  /\ pc \in [Calls -> PCs]
  /\ stamp \in [Calls -> Days \cup {NoDay}]
  /\ asked \in [Calls -> Days \cup {NoDay}]
  /\ holder \in SUBSET Calls
  /\ row \in [Calls -> [state : RowStates, cost : Nat \cup {NoCost}]]
  /\ ledgerSpend \in [Projects \X Months -> Int]
  /\ sent \in SUBSET Calls
  /\ unreserved \in [Projects \X Months -> Nat]

\* The rows of a project's month, of one run, of a project's day, and the chats of a month
\* that were checked against it.
AccountRows(p, m) == {c \in Written : Project(c) = p /\ Month(c) = m}
RunRows(p, r)     == {c \in Written : Project(c) = p /\ req[c].run = r}
DayRows(p, d)     == {c \in Written : Project(c) = p /\ stamp[c] = d /\ asked[c] = d}
MonthRows(m)      == {c \in Written : /\ req[c].kind = "chat"
                                     /\ Month(c) = m /\ MonthOf[asked[c]] = m}

\* The table the caps read equals the sum of the rows it stands for, whatever became of
\* their costs: estimates replaced, estimates freed, costs that were never known
\* (schema.sql's two triggers; docs/ledger.md, "ledger_spend").
SpendMatchesRows ==
  \A p \in Projects, m \in Months :
    ledgerSpend[<<p, m>>] = SumOfRows(AccountRows(p, m))

\* A project's month never holds more than its cap, reserves of calls in flight included,
\* except for what answered calls cost beyond their estimates and for rows dated in a
\* month the check did not read (Admission.check and begin under one lock).
ProjectCapHolds ==
  \A p \in Projects, m \in Months :
    ledgerSpend[<<p, m>>] <= ProjectCap[p] + unreserved[<<p, m>>]

\* The part of a row's cost that its admission reserved.
Reserved(c) ==
  LET cost == Coalesce(row[c].cost)
  IN  IF req[c].kind # "chat" THEN 0 ELSE IF cost < Estimate(c) THEN cost ELSE Estimate(c)

SumReserved(S) == SumFunctionOnSet([c \in Calls |-> Reserved(c)], S)

\* The reserves of one run and of one project's day stay under their caps: sums over rows,
\* each read at a moment of its own, which other calls are completing meanwhile.
RunCapHolds ==
  \A p \in Projects, r \in Runs : SumReserved(RunRows(p, r)) <= RunCap

DayCapHolds ==
  \A p \in Projects, d \in Days : SumReserved(DayRows(p, d)) <= DayCap

RunAndDayCapsHold == RunCapHolds /\ DayCapHolds

\* The reserves of all projects' month stay under the portfolio's cap, which projects with
\* caps of their own share.
PortfolioCapHolds ==
  \A m \in Months : SumReserved(MonthRows(m)) <= PortfolioCap

\* No request leaves the machine without a row that is still in flight, at its estimate,
\* until its outcome is written; and a row is complete, or gone for good with its
\* process, once its call has settled (gateway.py's order of operations: nothing after
\* the row is begun can lose it).
NothingEscapes ==
  \A c \in Calls :
    /\ pc[c] \in {"admitted", "sent"} \/ (pc[c] = "lost" /\ c \in sent) =>
         row[c] = [state |-> "in_flight",
                   cost  |-> IF req[c].kind = "raw" THEN NoCost ELSE Reserve(c)]
    /\ c \in sent => row[c].state # "none"
    /\ pc[c] = "done" => row[c].state = "complete"
    /\ pc[c] = "denied" => row[c].state = "none" /\ c \notin sent

\* Every call that arrived is answered, refused or lost with its process: the admission
\* lock never keeps one waiting for ever.
EveryCallSettles == \A c \in Calls : pc[c] = "stamped" ~> pc[c] \in Settled

\* The charge a row stands for.
ChargeOf(c) ==
  IF row[c].state = "none" THEN [state |-> "none"]
  ELSE [state   |-> IF row[c].state = "complete" THEN "settled" ELSE "open",
        project |-> Project(c), month |-> Month(c), amount |-> Coalesce(row[c].cost)]

Budget == INSTANCE SpendBudget WITH
  month   <- MonthOf[today],
  spent   <- ledgerSpend,
  excess  <- unreserved,
  charge  <- [c \in Calls |-> ChargeOf(c)],
  Amounts <- 0 .. (MaxEstimate + MaxCost),
  Cap     <- ProjectCap

\* The lock, the four reads and the insert are together the one-step reservation of
\* SpendBudget, and every later write of a row settles its charge once.
AdmissionIsOneStep == Budget!Spec

\* What "a hard cap" would mean to the letter: a month is never charged past the cap.
HardMonthlyCap ==
  \A p \in Projects, m \in Months : ledgerSpend[<<p, m>>] <= ProjectCap[p]
=============================================================================
