---------------------------- MODULE LedgerMerge ----------------------------
(***************************************************************************)
(* Ledgers copied to each other: `boundary ledger merge` from file to file *)
(* (LedgerStore.merge_from) and `boundary ledger push` from a file to the  *)
(* central ledger (boundary/central.py and PgCentral of boundary/pg.py),   *)
(* which several workers serve at once.  A push sends every row, some at a *)
(* time; its requests may fail at either end, and one its client gave up   *)
(* on goes on.                                                             *)
(*                                                                         *)
(* A row is a call and whether it is complete.  A call is made in one      *)
(* file, its home, and only there completed by the call itself.            *)
(***************************************************************************)
EXTENDS Naturals, FiniteSets

CONSTANTS
  Calls,    \* call_uids
  Sources,  \* ledger files
  Home,     \* [Calls -> Sources]
  Flows,    \* the commands that are run: from which source to which ledger
  Jobs,     \* places `ledger push` and `ledger merge` run in, one after another
  Central,  \* the central ledger, where a push goes
  MaxRows   \* rows a request of a push carries (--batch)

ASSUME ConstantsAssumption ==
  /\ Sources # {} /\ Home \in [Calls -> Sources] /\ Central \notin Sources
  /\ Flows \subseteq Sources \X (Sources \cup {Central}) /\ \A f \in Flows : f[1] # f[2]
  /\ MaxRows \in Nat \ {0} /\ IsFiniteSet(Calls)

States    == {"none", "in_flight", "complete"}
Decisions == {"unread", "insert", "complete", "skip"}
Rows      == [Calls -> States]
NoRows    == [u \in Calls |-> "none"]
In(rows)  == {u \in Calls : rows[u] # "none"}

\* What a command read and has to send, and while it copies the state since which the source's
\* write-ahead log has what is newer.
JobType == [source : Sources, to : Sources \cup {Central}, rows : Rows, since : Rows,
            left : SUBSET Calls]
\* A request at the server, and what its transaction decided row by row.
RequestType == [at : {"none", "merging", "merged", "answered", "failed"},
                source : Sources, rows : Rows, plan : [Calls -> Decisions]]

VARIABLES
  state,    \* [Sources -> Rows]: what is committed in a file
  central,  \* Rows
  receipts, \* SUBSET (Sources \X Calls): ingest_row
  stage,    \* [Jobs -> where the command is]
  job,      \* [Jobs -> JobType]
  request   \* [Jobs -> RequestType]

centralVars == <<central, receipts>>
jobVars     == <<stage, job>>
vars == <<state, centralVars, jobVars, request>>

AnySource == CHOOSE s \in Sources : TRUE
NoJob     == [source |-> AnySource, to |-> Central, rows |-> NoRows, since |-> NoRows,
              left |-> {}]
NoRequest == [at |-> "none", source |-> AnySource, rows |-> NoRows,
              plan |-> [u \in Calls |-> "unread"]]

Init ==
  /\ state = [s \in Sources |-> NoRows]
  /\ central = NoRows /\ receipts = {}
  /\ stage = [j \in Jobs |-> "idle"] /\ job = [j \in Jobs |-> NoJob]
  /\ request = [j \in Jobs |-> NoRequest]

-----------------------------------------------------------------------------
(* A file's own calls.                                                     *)

Write(u, to) ==
  /\ state' = [state EXCEPT ![Home[u]][u] = to]
  /\ UNCHANGED <<centralVars, jobVars, request>>

Begin(u)    == state[Home[u]][u] = "none" /\ Write(u, "in_flight")
Complete(u) == state[Home[u]][u] = "in_flight" /\ Write(u, "complete")

-----------------------------------------------------------------------------
(* Reading a source: _read_source_rows copies the file, then its log, and  *)
(* reads the copy.                                                         *)

\* The file is copied before anything was folded into it: a process that has the ledger open
\* folds its log every thousand pages.
Copy(j, s, to) ==
  /\ stage[j] \in {"idle", "ok"} /\ request[j].at = "none" /\ <<s, to>> \in Flows
  /\ stage' = [stage EXCEPT ![j] = "copying"]
  /\ job' = [job EXCEPT ![j] = [NoJob EXCEPT !.source = s, !.to = to]]
  /\ UNCHANGED <<state, centralVars, request>>

\* SQLite moves the log into the file, which was copied, and starts it over or deletes it (a
\* checkpoint; the last connection closing).
Fold(j) ==
  /\ stage[j] = "copying" /\ job[j].since # state[job[j].source]
  /\ job' = [job EXCEPT ![j].since = state[job[j].source]]
  /\ UNCHANGED <<state, centralVars, stage, request>>

\* What the log says, the copied file having nothing.
InLog(j) == LET now == state[job[j].source] IN
  [u \in Calls |-> IF now[u] # job[j].since[u] THEN now[u] ELSE "none"]

CopyLog(j) ==
  /\ stage[j] = "copying"
  /\ stage' = [stage EXCEPT ![j] = IF job[j].to = Central THEN "pushing" ELSE "merging"]
  /\ job' = [job EXCEPT ![j].rows = InLog(j), ![j].since = NoRows, ![j].left = In(InLog(j))]
  /\ UNCHANGED <<state, centralVars, request>>

-----------------------------------------------------------------------------
(* merge_rows.                                                             *)

\* A plausible bug: the destination mirrors the source.
DecisionMirror(held, row) == IF held = "none" THEN "insert" ELSE "complete"

\* A call not held is inserted, one held in flight and complete in the source is completed.
Decision(held, row) ==
  IF held = "none" THEN "insert"
  ELSE IF held = "in_flight" /\ row # "in_flight" THEN "complete" ELSE "skip"

Written(held, row, decision) == IF decision \in {"insert", "complete"} THEN row ELSE held

Exit(j, status) ==
  stage' = [stage EXCEPT ![j] = status] /\ job' = [job EXCEPT ![j] = NoJob]

\* Into a file: one transaction that nothing else writes within (BEGIN IMMEDIATE).
MergeFile(j) ==
  /\ stage[j] = "merging"
  /\ LET row == job[j].rows
         does(held, u) == IF u \in In(row) THEN Decision(held, row[u]) ELSE "skip"
     IN  state' = [state EXCEPT ![job[j].to] =
                     [u \in Calls |-> Written(@[u], row[u], does(@[u], u))]]
  /\ Exit(j, "ok") /\ UNCHANGED <<centralVars, request>>

-----------------------------------------------------------------------------
(* The central ledger.  Postgres: a transaction reads a row and decides,   *)
(* row after row, beside other transactions; what it inserts must still be *)
(* missing when it commits (the unique call_uid).  The central file of     *)
(* SQLite is the case where requests follow each other.                    *)

ToDecide(j) == {u \in In(request[j].rows) : request[j].plan[u] = "unread"}

Decide(j, u) ==
  /\ request[j].at = "merging" /\ u \in ToDecide(j)
  /\ request' = [request EXCEPT ![j].plan[u] = Decision(central[u], request[j].rows[u])]
  /\ UNCHANGED <<state, centralVars, jobVars>>

\* A request that is over, if its client is still there to be told.
Over(j, at) ==
  request' = [request EXCEPT ![j] = IF stage[j] = "waiting" THEN [NoRequest EXCEPT !.at = at]
                                    ELSE NoRequest]

Commit(j) ==
  /\ request[j].at = "merging" /\ ToDecide(j) = {}
  /\ LET r == request[j] IN
     IF \E u \in Calls : r.plan[u] = "insert" /\ central[u] # "none"
     THEN Over(j, "failed") /\ UNCHANGED central
     ELSE /\ central' = [u \in Calls |-> Written(central[u], r.rows[u], r.plan[u])]
          /\ request' = [request EXCEPT ![j].at = "merged", ![j].plan = NoRequest.plan]
  /\ UNCHANGED <<state, receipts, jobVars>>

Deliver(j) == receipts' = receipts \cup ({request[j].source} \X In(request[j].rows))

\* A plausible bug: the receipts are written before the rows they are for.
ReceiptEarly(j) ==
  /\ request[j].at \in {"merging", "merged"} /\ Deliver(j)
  /\ IF request[j].at = "merged" THEN Over(j, "answered") ELSE UNCHANGED request
  /\ UNCHANGED <<state, central, jobVars>>

\* The second transaction of ingest: what this source has delivered.  (How
\* many rows it has, local_rows, only the page reads.)
Receipt(j) ==
  /\ request[j].at = "merged" /\ Deliver(j) /\ Over(j, "answered")
  /\ UNCHANGED <<state, central, jobVars>>

\* The worker dies, or its database is gone, before either transaction commits.
Fail(j) ==
  /\ request[j].at \in {"merging", "merged"} /\ Over(j, "failed")
  /\ UNCHANGED <<state, centralVars, jobVars>>

-----------------------------------------------------------------------------
(* Pushing: cmd_ledger_push.                                               *)

\* How many of a source's calls the central ledger has a receipt of (sources()).
HeldOf(s) == Cardinality({r \in receipts : r[1] = s})

\* The next rows, in whatever order they are in the file; of an empty file one empty request.
Post(j) ==
  /\ stage[j] = "pushing"
  /\ stage' = [stage EXCEPT ![j] = "waiting"]
  /\ \E chunk \in SUBSET job[j].left :
       /\ \/ Cardinality(chunk) = MaxRows
          \/ chunk = job[j].left /\ Cardinality(chunk) <= MaxRows
       /\ job' = [job EXCEPT ![j].left = @ \ chunk]
       /\ request' = [request EXCEPT ![j] =
            [NoRequest EXCEPT !.at = "merging", !.source = job[j].source,
               !.rows = [u \in Calls |-> IF u \in chunk THEN job[j].rows[u] ELSE "none"]]]
  /\ UNCHANGED <<state, centralVars>>

\* On to the next rows, or the end: success is as many rows held as the file has.
Proceed(j) ==
  /\ IF job[j].left # {} THEN stage' = [stage EXCEPT ![j] = "pushing"] /\ UNCHANGED job
     ELSE Exit(j, IF HeldOf(job[j].source) >= Cardinality(In(job[j].rows)) THEN "ok" ELSE "idle")
  /\ request' = [request EXCEPT ![j] = NoRequest]
  /\ UNCHANGED <<state, centralVars>>

Answer(j) == stage[j] = "waiting" /\ request[j].at = "answered" /\ Proceed(j)

\* A plausible bug: a request that failed is passed over.
RefusedGoesOn(j) == stage[j] = "waiting" /\ request[j].at = "failed" /\ Proceed(j)

Refused(j) ==
  /\ stage[j] = "waiting" /\ request[j].at = "failed"
  /\ Exit(j, "idle")
  /\ request' = [request EXCEPT ![j] = NoRequest]
  /\ UNCHANGED <<state, centralVars>>

\* The command is killed, or tired of waiting: what it sent goes on.
GiveUp(j) ==
  /\ stage[j] \in {"copying", "merging", "pushing", "waiting"} /\ Exit(j, "idle")
  /\ request' = IF request[j].at \in {"answered", "failed"}
                THEN [request EXCEPT ![j] = NoRequest] ELSE request
  /\ UNCHANGED <<state, centralVars>>

Next ==
  \/ \E u \in Calls : Begin(u) \/ Complete(u)
  \/ \E j \in Jobs :
       \/ \E f \in Flows : Copy(j, f[1], f[2])
       \/ Fold(j) \/ CopyLog(j) \/ MergeFile(j)
       \/ Post(j) \/ Answer(j) \/ Refused(j) \/ GiveUp(j)
       \/ \E u \in Calls : Decide(j, u)
       \/ Commit(j) \/ Receipt(j) \/ Fail(j)

Spec == Init /\ [][Next]_vars

-----------------------------------------------------------------------------
(* Properties.                                                             *)

\* Every variable stays in its type, and a request carries rows its command read, at most
\* --batch of them.
TypeOK ==
  /\ state \in [Sources -> Rows]
  /\ central \in Rows /\ receipts \subseteq Sources \X Calls
  /\ stage \in [Jobs -> {"idle", "ok", "copying", "merging", "pushing", "waiting"}]
  /\ job \in [Jobs -> JobType] /\ \A j \in Jobs : job[j].left \subseteq In(job[j].rows)
  /\ request \in [Jobs -> RequestType]
  /\ \A j \in Jobs : Cardinality(In(request[j].rows)) <= MaxRows

Rank == [none |-> 0, in_flight |-> 1, complete |-> 2]
Reaches(held, rows) == \A u \in Calls : Rank[held[u]] >= Rank[rows[u]]

\* Merges converge on the outcome: no ledger ever goes back on a call, whatever is merged
\* into it, in what order, however often and by how many at once (merge_rows).
OutcomeIsKept ==
  [][/\ Reaches(central', central)
     /\ \A s \in Sources : Reaches(state'[s], state[s])]_vars

\* The central ledger holds every call it has a receipt of, wherever ingest was cut off.
ReceiptsAreHeld == \A r \in receipts : central[r[2]] # "none"

\* A push or merge that ends in success brought every row it read, in the state it read it,
\* whatever became of other pushes of the same file (the exit status of cmd_ledger_push).
PushedIsHeld ==
  [][\A j \in Jobs : stage[j] # "ok" /\ stage'[j] = "ok" =>
       Reaches(IF job[j].to = Central THEN central' ELSE state'[job[j].to], job[j].rows)]_vars

\* The copy a source is read from holds everything the source has committed
\* (_read_source_rows).
CopyIsWhole ==
  [][\A j \in Jobs : stage[j] = "copying" /\ stage'[j] \in {"pushing", "merging"} =>
       Reaches(job'[j].rows, state[job[j].source])]_vars
=============================================================================
