------------------------- MODULE LedgerMergeProofs -------------------------
(***************************************************************************)
(* Theorems about LedgerMerge for every value of its constants.  The       *)
(* inductive invariant says what a decision read earlier is still worth:   *)
(* since no ledger goes back, a row that needed nothing when it was looked *)
(* at needs nothing when the transaction commits.                          *)
(***************************************************************************)
EXTENDS LedgerMerge, FiniteSetTheorems, TLAPS

\* Rank[held] >= Rank[row], without the arithmetic.
AtLeast(held, row) == row = "none" \/ held = "complete" \/ held = row

\* What was decided of a row, and what of it still holds.
Planned(j) ==
  \A u \in Calls :
    /\ request[j].plan[u] = "skip" => AtLeast(central[u], request[j].rows[u])
    /\ request[j].plan[u] = "insert" => request[j].rows[u] # "none"
    /\ request[j].plan[u] = "complete" => request[j].rows[u] = "complete"

\* A request whose rows are committed finds them there.
Merged(j) ==
  request[j].at = "merged" => \A u \in Calls : AtLeast(central[u], request[j].rows[u])

\* Where a command is decides where it writes.
Place(j) ==
  /\ stage[j] \in {"copying", "merging", "pushing"} => request[j].at = "none"
  /\ stage[j] = "merging" => job[j].to \in Sources
  /\ stage[j] \in {"pushing", "waiting"} => job[j].to = Central

\* A row a push has read is held, still to be sent, or in the request it waits for.
Sent(j) ==
  stage[j] \in {"pushing", "waiting"} =>
    \A u \in Calls \ job[j].left :
      \/ AtLeast(central[u], job[j].rows[u])
      \/ stage[j] = "waiting" /\ request[j].at = "failed"
      \/ /\ stage[j] = "waiting" /\ request[j].at \in {"merging", "merged"}
         /\ request[j].rows[u] = job[j].rows[u]

JobInv(j) == Planned(j) /\ Merged(j) /\ Place(j) /\ Sent(j)

IInv == TypeOK /\ ReceiptsAreHeld /\ \A j \in Jobs : JobInv(j)

\* No ledger goes back on a call in this step.
Kept == /\ \A u \in Calls : AtLeast(central'[u], central[u])
        /\ \A s \in Sources, u \in Calls : AtLeast(state'[s][u], state[s][u])
-----------------------------------------------------------------------------
LEMMA Ranks ==
  ASSUME NEW a \in States, NEW b \in States
  PROVE  Rank[a] >= Rank[b] <=> AtLeast(a, b)
BY DEF States, Rank, AtLeast

LEMMA ReachesAtLeast ==
  ASSUME NEW held \in Rows, NEW rows \in Rows
  PROVE  Reaches(held, rows) <=> \A u \in Calls : AtLeast(held[u], rows[u])
<1>1. \A u \in Calls : held[u] \in States /\ rows[u] \in States
  BY DEF Rows
<1>. QED
  BY <1>1, Ranks DEF Reaches

LEMMA AtLeastTransitive ==
  ASSUME NEW a, NEW b \in States, NEW c, AtLeast(a, b), AtLeast(b, c)
  PROVE  AtLeast(a, c)
BY DEF AtLeast, States

\* A decision carried out on the row it was made of leaves the ledger at least at both.
LEMMA DecisionReaches ==
  ASSUME NEW held \in States, NEW row \in States, row # "none"
  PROVE  /\ Decision(held, row) \in {"insert", "complete", "skip"}
         /\ Written(held, row, Decision(held, row)) \in States
         /\ AtLeast(Written(held, row, Decision(held, row)), held)
         /\ AtLeast(Written(held, row, Decision(held, row)), row)
         /\ Decision(held, row) = "skip" => AtLeast(held, row)
         /\ Decision(held, row) = "complete" => row = "complete"
BY DEF Decision, Written, AtLeast, States

\* A request without rows is within --batch.
LEMMA NoRequestFits == NoRequest \in RequestType /\ Cardinality(In(NoRequest.rows)) <= MaxRows
<1>1. AnySource \in Sources
  BY ConstantsAssumption DEF AnySource
<1>2. NoRequest \in RequestType
  BY <1>1 DEF NoRequest, RequestType, NoRows, Rows, States, Decisions
<1>3. In(NoRequest.rows) = {}
  BY DEF In, NoRequest, NoRows
<1>4. Cardinality({}) = 0
  BY FS_EmptySet
<1>. QED
  BY <1>2, <1>3, <1>4, ConstantsAssumption

LEMMA NoJobTyped == NoJob \in JobType /\ NoJob.left = {}
BY ConstantsAssumption DEF NoJob, JobType, AnySource, NoRows, Rows, States

-----------------------------------------------------------------------------
LEMMA InitInv == Init => IInv
<1>. SUFFICES ASSUME Init PROVE IInv
  OBVIOUS
<1>1. TypeOK
  <2>1. \A j \in Jobs : job[j] = NoJob /\ request[j] = NoRequest
    BY DEF Init
  <2>2. state \in [Sources -> Rows] /\ central \in Rows
    BY DEF Init, NoRows, Rows, States
  <2>3. job \in [Jobs -> JobType] /\ request \in [Jobs -> RequestType]
    BY NoJobTyped, NoRequestFits DEF Init
  <2>. QED
    BY <2>1, <2>2, <2>3, NoJobTyped, NoRequestFits DEF TypeOK, Init
<1>2. ReceiptsAreHeld
  BY DEF ReceiptsAreHeld, Init
<1>3. ASSUME NEW j \in Jobs PROVE JobInv(j)
  BY DEF JobInv, Planned, Merged, Place, Sent, Init, NoRequest
<1>. QED
  BY <1>1, <1>2, <1>3 DEF IInv

-----------------------------------------------------------------------------
(* The variables keep their types.                                         *)

\* One command's parts are replaced by others of their types.
LEMMA JobsTyped ==
  ASSUME TypeOK, NEW j \in Jobs, NEW st \in {"idle", "ok", "copying", "merging", "pushing", "waiting"},
         NEW new \in JobType, new.left \subseteq In(new.rows),
         stage' = [stage EXCEPT ![j] = st], job' = [job EXCEPT ![j] = new]
  PROVE  /\ stage' \in [Jobs -> {"idle", "ok", "copying", "merging", "pushing", "waiting"}]
         /\ job' \in [Jobs -> JobType] /\ \A i \in Jobs : job'[i].left \subseteq In(job'[i].rows)
BY DEF TypeOK

LEMMA RequestsTyped ==
  ASSUME TypeOK, NEW j \in Jobs, NEW new \in RequestType, Cardinality(In(new.rows)) <= MaxRows,
         request' = [request EXCEPT ![j] = new]
  PROVE  /\ request' \in [Jobs -> RequestType]
         /\ \A i \in Jobs : Cardinality(In(request'[i].rows)) <= MaxRows
BY DEF TypeOK

LEMMA OverTyped ==
  ASSUME TypeOK, NEW j \in Jobs, NEW at \in {"answered", "failed"}, Over(j, at)
  PROVE  /\ request' \in [Jobs -> RequestType]
         /\ \A i \in Jobs : Cardinality(In(request'[i].rows)) <= MaxRows
<1>. DEFINE new == IF stage[j] = "waiting" THEN [NoRequest EXCEPT !.at = at] ELSE NoRequest
<1>1. new \in RequestType /\ new.rows = NoRequest.rows
  BY NoRequestFits DEF RequestType, NoRequest
<1>2. Cardinality(In(new.rows)) <= MaxRows
  BY <1>1, NoRequestFits
<1>3. request' = [request EXCEPT ![j] = new]
  BY DEF Over
<1>. QED
  BY <1>1, <1>2, <1>3, RequestsTyped

LEMMA WriteType ==
  ASSUME TypeOK, NEW u \in Calls, NEW to \in States, Write(u, to)
  PROVE  TypeOK'
<1>1. Home[u] \in Sources
  BY ConstantsAssumption
<1>2. state' \in [Sources -> Rows]
  BY <1>1 DEF TypeOK, Write, Rows
<1>. QED
  BY <1>2 DEF TypeOK, Write, centralVars, jobVars

LEMMA ReadingType ==
  ASSUME TypeOK, NEW j \in Jobs,
         (\E f \in Flows : Copy(j, f[1], f[2])) \/ Fold(j) \/ CopyLog(j)
  PROVE  TypeOK'
<1>1. job[j] \in JobType /\ state[job[j].source] \in Rows
  BY DEF TypeOK, JobType
<1>2. CASE \E f \in Flows : Copy(j, f[1], f[2])
  <2>1. PICK f \in Flows : Copy(j, f[1], f[2])
    BY <1>2
  <2>2. f[1] \in Sources /\ f[2] \in Sources \cup {Central}
    BY ConstantsAssumption
  <2>. DEFINE new == [NoJob EXCEPT !.source = f[1], !.to = f[2]]
  <2>3. new \in JobType /\ new.left = {}
    BY <2>2, NoJobTyped DEF JobType, NoJob
  <2>4. stage' = [stage EXCEPT ![j] = "copying"] /\ job' = [job EXCEPT ![j] = new]
    BY <2>1 DEF Copy
  <2>. HIDE DEF new
  <2>. QED
    BY <2>1, <2>3, <2>4, JobsTyped DEF Copy, TypeOK, centralVars
<1>3. CASE Fold(j)
  <2>. DEFINE new == [job[j] EXCEPT !.since = state[job[j].source]]
  <2>1. new \in JobType /\ new.left \subseteq In(new.rows)
    BY <1>1 DEF JobType, TypeOK
  <2>2. job' = [job EXCEPT ![j] = new]
    BY <1>3 DEF Fold
  <2>. HIDE DEF new
  <2>. QED
    BY <1>3, <2>1, <2>2 DEF Fold, TypeOK, centralVars
<1>4. CASE CopyLog(j)
  <2>. DEFINE new == [job[j] EXCEPT !.rows = InLog(j), !.since = NoRows, !.left = In(InLog(j))]
  <2>1. InLog(j) \in Rows /\ In(InLog(j)) \subseteq Calls /\ NoRows \in Rows
    BY <1>1 DEF InLog, Rows, States, In, NoRows
  <2>2. new \in JobType /\ new.left \subseteq In(new.rows)
    BY <1>1, <2>1 DEF JobType
  <2>3. job' = [job EXCEPT ![j] = new]
    BY <1>4 DEF CopyLog
  <2>. HIDE DEF new
  <2>4. stage' \in [Jobs -> {"idle", "ok", "copying", "merging", "pushing", "waiting"}]
    BY <1>4 DEF CopyLog, TypeOK
  <2>5. job' \in [Jobs -> JobType] /\ \A i \in Jobs : job'[i].left \subseteq In(job'[i].rows)
    BY <2>2, <2>3 DEF TypeOK
  <2>6. UNCHANGED <<state, central, receipts, request>>
    BY <1>4 DEF CopyLog, centralVars
  <2>. QED
    BY <2>4, <2>5, <2>6 DEF TypeOK
<1>. QED
  BY <1>2, <1>3, <1>4

LEMMA MergeFileType ==
  ASSUME TypeOK, NEW j \in Jobs, MergeFile(j)
  PROVE  TypeOK'
<1>. DEFINE to     == job[j].to
            row    == job[j].rows
            merged == [u \in Calls |->
                         Written(state[to][u], row[u],
                                 IF u \in In(row) THEN Decision(state[to][u], row[u]) ELSE "skip")]
<1>1. row \in Rows
  BY DEF TypeOK, JobType
<1>2. state' = [state EXCEPT ![to] = merged]
  BY DEF MergeFile
<1>3. to \in Sources => merged \in Rows
  BY <1>1 DEF TypeOK, Rows, Written
<1>. HIDE DEF to, row, merged
<1>4. state' \in [Sources -> Rows]
  BY <1>2, <1>3 DEF TypeOK
<1>5. stage' = [stage EXCEPT ![j] = "ok"] /\ job' = [job EXCEPT ![j] = NoJob]
  BY DEF MergeFile, Exit
<1>6. UNCHANGED <<central, receipts, request>>
  BY DEF MergeFile, centralVars
<1>. QED
  BY <1>4, <1>5, <1>6, NoJobTyped, JobsTyped DEF TypeOK

LEMMA ServerType ==
  ASSUME TypeOK, NEW j \in Jobs,
         (\E u \in Calls : Decide(j, u)) \/ Commit(j) \/ Receipt(j) \/ Fail(j)
  PROVE  TypeOK'
<1>. DEFINE r == request[j]
<1>1. /\ r \in RequestType /\ r.rows \in Rows /\ r.source \in Sources
      /\ Cardinality(In(r.rows)) <= MaxRows
  BY DEF TypeOK, RequestType
<1>2. CASE \E u \in Calls : Decide(j, u)
  <2>1. PICK u \in Calls : Decide(j, u)
    BY <1>2
  <2>. DEFINE new == [r EXCEPT !.plan[u] = Decision(central[u], r.rows[u])]
  <2>2. Decision(central[u], r.rows[u]) \in Decisions
    BY DEF Decision, Decisions
  <2>3. new \in RequestType /\ new.rows = r.rows
    BY <1>1, <2>2 DEF RequestType
  <2>4. request' = [request EXCEPT ![j] = new]
    BY <2>1 DEF Decide
  <2>5. UNCHANGED <<state, central, receipts, stage, job>>
    BY <2>1 DEF Decide, centralVars, jobVars
  <2>. HIDE DEF new
  <2>. QED
    BY <1>1, <2>3, <2>4, <2>5, RequestsTyped DEF TypeOK
<1>3. CASE Commit(j)
  <2>1. UNCHANGED <<state, receipts, stage, job>>
    BY <1>3 DEF Commit, jobVars
  <2>2. CASE \E u \in Calls : r.plan[u] = "insert" /\ central[u] # "none"
    <3>1. Over(j, "failed") /\ UNCHANGED central
      BY <1>3, <2>2 DEF Commit
    <3>. QED
      BY <2>1, <3>1, OverTyped DEF TypeOK
  <2>3. CASE ~\E u \in Calls : r.plan[u] = "insert" /\ central[u] # "none"
    <3>. DEFINE new == [r EXCEPT !.at = "merged", !.plan = NoRequest.plan]
    <3>1. new \in RequestType /\ new.rows = r.rows
      BY <1>1, NoRequestFits DEF RequestType
    <3>2. request' = [request EXCEPT ![j] = new]
      BY <1>3, <2>3 DEF Commit
    <3>3. central' = [u \in Calls |-> Written(central[u], r.rows[u], r.plan[u])]
      BY <1>3, <2>3 DEF Commit
    <3>4. central' \in Rows
      BY <1>1, <3>3 DEF TypeOK, Rows, Written
    <3>. HIDE DEF new
    <3>. QED
      BY <1>1, <2>1, <3>1, <3>2, <3>4, RequestsTyped DEF TypeOK
  <2>. QED
    BY <2>2, <2>3
<1>4. CASE Receipt(j)
  <2>1. receipts' \subseteq Sources \X Calls
    BY <1>1, <1>4 DEF Receipt, Deliver, TypeOK, In
  <2>. QED
    BY <1>4, <2>1, OverTyped DEF Receipt, TypeOK, jobVars
<1>5. CASE Fail(j)
  BY <1>5, OverTyped DEF Fail, TypeOK, centralVars, jobVars
<1>. QED
  BY <1>2, <1>3, <1>4, <1>5

LEMMA PostType ==
  ASSUME TypeOK, NEW j \in Jobs, Post(j)
  PROVE  TypeOK'
<1>1. PICK chunk \in SUBSET job[j].left :
        /\ \/ Cardinality(chunk) = MaxRows
           \/ chunk = job[j].left /\ Cardinality(chunk) <= MaxRows
        /\ job' = [job EXCEPT ![j].left = @ \ chunk]
        /\ request' = [request EXCEPT ![j] =
             [NoRequest EXCEPT !.at = "merging", !.source = job[j].source,
                !.rows = [u \in Calls |-> IF u \in chunk THEN job[j].rows[u] ELSE "none"]]]
  BY DEF Post
<1>. DEFINE rows   == [u \in Calls |-> IF u \in chunk THEN job[j].rows[u] ELSE "none"]
            new    == [NoRequest EXCEPT !.at = "merging", !.source = job[j].source, !.rows = rows]
            newJob == [job[j] EXCEPT !.left = @ \ chunk]
<1>2. /\ job[j] \in JobType /\ job[j].rows \in Rows /\ job[j].source \in Sources
      /\ job[j].left \subseteq In(job[j].rows)
  BY DEF TypeOK, JobType
<1>3. rows \in Rows
  BY <1>2 DEF Rows, States
<1>4. In(rows) = chunk
  BY <1>2 DEF In
<1>5. Cardinality(chunk) <= MaxRows
  BY <1>1, ConstantsAssumption
<1>6. new \in RequestType /\ new.rows = rows
  BY <1>2, <1>3, NoRequestFits DEF RequestType, NoRequest
<1>7. newJob \in JobType /\ newJob.left \subseteq In(newJob.rows)
  BY <1>2 DEF JobType
<1>8. request' = [request EXCEPT ![j] = new] /\ job' = [job EXCEPT ![j] = newJob]
  BY <1>1
<1>. HIDE DEF rows, new, newJob
<1>9. stage' = [stage EXCEPT ![j] = "waiting"] /\ UNCHANGED <<state, central, receipts>>
  BY DEF Post, centralVars
<1>. QED
  BY <1>4, <1>5, <1>6, <1>7, <1>8, <1>9, JobsTyped, RequestsTyped DEF TypeOK

LEMMA ClientType ==
  ASSUME TypeOK, NEW j \in Jobs, Answer(j) \/ Refused(j) \/ GiveUp(j)
  PROVE  TypeOK'
<1>1. UNCHANGED <<state, central, receipts>>
  BY DEF Answer, Proceed, Refused, GiveUp, centralVars
<1>2. request' = request \/ request' = [request EXCEPT ![j] = NoRequest]
  BY DEF Answer, Proceed, Refused, GiveUp
<1>3. \/ stage' = [stage EXCEPT ![j] = "pushing"] /\ UNCHANGED job
      \/ Exit(j, "ok") \/ Exit(j, "idle")
  BY DEF Answer, Proceed, Refused, GiveUp
<1>4. /\ stage' \in [Jobs -> {"idle", "ok", "copying", "merging", "pushing", "waiting"}]
      /\ job' \in [Jobs -> JobType] /\ \A i \in Jobs : job'[i].left \subseteq In(job'[i].rows)
  BY <1>3, NoJobTyped DEF Exit, TypeOK
<1>5. /\ request' \in [Jobs -> RequestType]
      /\ \A i \in Jobs : Cardinality(In(request'[i].rows)) <= MaxRows
  BY <1>2, NoRequestFits, RequestsTyped DEF TypeOK
<1>. QED
  BY <1>1, <1>4, <1>5 DEF TypeOK

LEMMA TypeStep == TypeOK /\ [Next]_vars => TypeOK'
<1>. SUFFICES ASSUME TypeOK, [Next]_vars PROVE TypeOK'
  OBVIOUS
<1>1. CASE \E u \in Calls : Begin(u) \/ Complete(u)
  BY <1>1, WriteType DEF Begin, Complete, States
<1>2. ASSUME NEW j \in Jobs, (\E f \in Flows : Copy(j, f[1], f[2])) \/ Fold(j) \/ CopyLog(j)
      PROVE  TypeOK'
  BY <1>2, ReadingType
<1>3. ASSUME NEW j \in Jobs, MergeFile(j) \/ Post(j) \/ Answer(j) \/ Refused(j) \/ GiveUp(j)
      PROVE  TypeOK'
  BY <1>3, MergeFileType, PostType, ClientType
<1>4. ASSUME NEW j \in Jobs, (\E u \in Calls : Decide(j, u)) \/ Commit(j) \/ Receipt(j) \/ Fail(j)
      PROVE  TypeOK'
  BY <1>4, ServerType
<1>5. CASE UNCHANGED vars
  BY <1>5 DEF TypeOK, vars, centralVars, jobVars
<1>. QED
  BY <1>1, <1>2, <1>3, <1>4, <1>5 DEF Next
-----------------------------------------------------------------------------
(* No ledger goes back.                                                    *)

\* A transaction that commits carries out decisions that are still right.
LEMMA CommitKept ==
  ASSUME IInv, NEW j \in Jobs, Commit(j)
  PROVE  /\ \A u \in Calls : AtLeast(central'[u], central[u])
         /\ request'[j].at = "merged" =>
              \A u \in Calls : AtLeast(central'[u], request'[j].rows[u])
<1>. DEFINE r == request[j]
<1>1. /\ r \in RequestType /\ r.rows \in Rows /\ central \in Rows /\ request \in [Jobs -> RequestType]
  BY DEF IInv, TypeOK, RequestType
<1>2. CASE \E u \in Calls : r.plan[u] = "insert" /\ central[u] # "none"
  <2>1. Over(j, "failed") /\ UNCHANGED central
    BY <1>2 DEF Commit
  <2>2. request'[j].at # "merged"
    BY <1>1, <2>1 DEF Over, NoRequest
  <2>. QED
    BY <2>1, <2>2 DEF AtLeast
<1>3. CASE ~\E u \in Calls : r.plan[u] = "insert" /\ central[u] # "none"
  <2>1. /\ central' = [u \in Calls |-> Written(central[u], r.rows[u], r.plan[u])]
        /\ request' = [request EXCEPT ![j].at = "merged", ![j].plan = NoRequest.plan]
        /\ ToDecide(j) = {}
    BY <1>3 DEF Commit
  <2>2. request'[j].rows = r.rows
    BY <1>1, <2>1 DEF RequestType
  <2>3. ASSUME NEW u \in Calls
        PROVE  AtLeast(central'[u], central[u]) /\ AtLeast(central'[u], r.rows[u])
    <3>1. central'[u] = Written(central[u], r.rows[u], r.plan[u])
      BY <2>1
    <3>2. r.plan[u] \in Decisions /\ r.rows[u] \in States
      BY <1>1 DEF RequestType, Rows
    <3>3. r.plan[u] = "unread" => r.rows[u] = "none"
      BY <2>1 DEF ToDecide, In
    <3>4. /\ r.plan[u] = "skip" => AtLeast(central[u], r.rows[u])
          /\ r.plan[u] = "complete" => r.rows[u] = "complete"
      BY DEF IInv, JobInv, Planned
    <3>5. r.plan[u] = "insert" => central[u] = "none"
      BY <1>3
    <3>. HIDE DEF r
    <3>. QED
      BY <3>1, <3>2, <3>3, <3>4, <3>5 DEF Written, AtLeast, Decisions
  <2>. QED
    BY <2>2, <2>3
<1>. QED
  BY <1>2, <1>3

\* What is merged into a file is there afterwards, and nothing is undone.
LEMMA MergeFileKept ==
  ASSUME IInv, NEW j \in Jobs, MergeFile(j)
  PROVE  /\ \A s \in Sources, u \in Calls : AtLeast(state'[s][u], state[s][u])
         /\ \A u \in Calls : AtLeast(state'[job[j].to][u], job[j].rows[u])
<1>. DEFINE to     == job[j].to
            row    == job[j].rows
            merged == [u \in Calls |->
                         Written(state[to][u], row[u],
                                 IF u \in In(row) THEN Decision(state[to][u], row[u]) ELSE "skip")]
<1>1. to \in Sources /\ row \in Rows /\ state \in [Sources -> Rows]
  BY DEF IInv, JobInv, Place, MergeFile, TypeOK, JobType
<1>2. state' = [state EXCEPT ![to] = merged]
  BY DEF MergeFile
<1>3. ASSUME NEW u \in Calls
      PROVE  AtLeast(merged[u], state[to][u]) /\ AtLeast(merged[u], row[u])
  <2>1. state[to][u] \in States /\ row[u] \in States
    BY <1>1 DEF Rows
  <2>2. CASE u \in In(row)
    BY <2>1, <2>2, DecisionReaches DEF In
  <2>3. CASE u \notin In(row)
    BY <2>1, <2>3 DEF In, Written, AtLeast
  <2>. QED
    BY <2>2, <2>3
<1>. HIDE DEF to, row, merged
<1>4. \A s \in Sources : state'[s] = IF s = to THEN merged ELSE state[s]
  BY <1>1, <1>2
<1>5. \A s \in Sources, u \in Calls : AtLeast(state'[s][u], state[s][u])
  BY <1>3, <1>4 DEF AtLeast
<1>6. \A u \in Calls : AtLeast(state'[to][u], row[u])
  BY <1>1, <1>3, <1>4
<1>. QED
  BY <1>5, <1>6 DEF to, row

LEMMA KeptStep == IInv /\ [Next]_vars => Kept
<1>. SUFFICES ASSUME IInv, [Next]_vars PROVE Kept
  OBVIOUS
<1>1. state \in [Sources -> Rows]
  BY DEF IInv, TypeOK
<1>2. ASSUME NEW u \in Calls, Begin(u) \/ Complete(u)
      PROVE  Kept
  <2>1. PICK to \in {"in_flight", "complete"} :
          /\ Write(u, to)
          /\ AtLeast(to, state[Home[u]][u])
    BY <1>2 DEF Begin, Complete, AtLeast
  <2>2. ASSUME NEW s \in Sources, NEW v \in Calls
        PROVE  AtLeast(state'[s][v], state[s][v])
    <3>1. state'[s][v] = IF s = Home[u] /\ v = u THEN to ELSE state[s][v]
      BY <1>1, <2>1, ConstantsAssumption DEF Write, Rows
    <3>. QED
      BY <2>1, <3>1 DEF AtLeast
  <2>. QED
    BY <2>1, <2>2 DEF Kept, Write, centralVars, AtLeast
<1>3. ASSUME NEW j \in Jobs, MergeFile(j)
      PROVE  Kept
  BY <1>3, MergeFileKept DEF Kept, MergeFile, centralVars, AtLeast
<1>4. ASSUME NEW j \in Jobs, Commit(j)
      PROVE  Kept
  BY <1>4, CommitKept DEF Kept, Commit, AtLeast
<1>5. CASE UNCHANGED <<state, central>>
  BY <1>5 DEF Kept, AtLeast
<1>6. ASSUME NEW j \in Jobs,
             \/ (\E f \in Flows : Copy(j, f[1], f[2])) \/ Fold(j) \/ CopyLog(j)
             \/ Post(j) \/ Answer(j) \/ Refused(j) \/ GiveUp(j)
             \/ (\E u \in Calls : Decide(j, u)) \/ Receipt(j) \/ Fail(j)
      PROVE  UNCHANGED <<state, central>>
  BY <1>6 DEF Copy, Fold, CopyLog, Post, Answer, Proceed, Refused, GiveUp, Decide, Receipt, Fail,
              centralVars
<1>7. CASE UNCHANGED vars
  BY <1>5, <1>7 DEF vars, centralVars
<1>. QED
  BY <1>2, <1>3, <1>4, <1>5, <1>6, <1>7 DEF Next
-----------------------------------------------------------------------------
(* The invariant is kept.                                                  *)

\* What is held stays held.
LEMMA HeldStays ==
  ASSUME TypeOK, Kept, NEW u \in Calls, NEW row, AtLeast(central[u], row)
  PROVE  AtLeast(central'[u], row)
<1>1. central[u] \in States
  BY DEF TypeOK, Rows
<1>. QED
  BY <1>1, AtLeastTransitive DEF Kept

LEMMA RequestUnmoved ==
  ASSUME IInv, Kept, NEW i \in Jobs, request'[i] = request[i]
  PROVE  Planned(i)' /\ Merged(i)'
<1>1. Planned(i) /\ Merged(i) /\ TypeOK
  BY DEF IInv, JobInv
<1>. QED
  BY <1>1, HeldStays DEF Planned, Merged

LEMMA Unmoved ==
  ASSUME IInv, Kept, NEW i \in Jobs,
         stage'[i] = stage[i], job'[i] = job[i], request'[i] = request[i]
  PROVE  JobInv(i)'
<1>1. Place(i) /\ Sent(i) /\ TypeOK
  BY DEF IInv, JobInv
<1>2. Place(i)'
  BY <1>1 DEF Place
<1>3. Sent(i)'
  BY <1>1, HeldStays DEF Sent
<1>. QED
  BY <1>2, <1>3, RequestUnmoved DEF JobInv

\* A request that was just made or is over says nothing of the ledger.
LEMMA RequestAnew ==
  ASSUME NEW i \in Jobs, request'[i].plan = NoRequest.plan, request'[i].at # "merged"
  PROVE  Planned(i)' /\ Merged(i)'
BY DEF Planned, Merged, NoRequest

LEMMA ReadingInv ==
  ASSUME IInv, Kept, NEW j \in Jobs,
         (\E f \in Flows : Copy(j, f[1], f[2])) \/ Fold(j) \/ CopyLog(j)
  PROVE  JobInv(j)'
<1>1. /\ TypeOK /\ Place(j) /\ DOMAIN stage = Jobs /\ DOMAIN job = Jobs
      /\ job[j] \in JobType
  BY DEF IInv, JobInv, TypeOK
<1>2. request'[j] = request[j]
  BY DEF Copy, Fold, CopyLog
<1>3. CASE \E f \in Flows : Copy(j, f[1], f[2])
  <2>1. stage'[j] = "copying" /\ request[j].at = "none"
    BY <1>1, <1>3 DEF Copy
  <2>. QED
    BY <1>2, <2>1, RequestUnmoved DEF JobInv, Place, Sent
<1>4. CASE Fold(j)
  <2>1. stage'[j] = "copying" /\ request[j].at = "none"
    BY <1>1, <1>4 DEF Fold, Place
  <2>. QED
    BY <1>2, <2>1, RequestUnmoved DEF JobInv, Place, Sent
<1>5. CASE CopyLog(j)
  <2>1. /\ stage'[j] = IF job[j].to = Central THEN "pushing" ELSE "merging"
        /\ request[j].at = "none"
    BY <1>1, <1>5 DEF CopyLog, Place
  <2>2. /\ job'[j].to = job[j].to /\ job[j].to \in Sources \cup {Central}
        /\ job'[j].rows = InLog(j) /\ job'[j].left = In(InLog(j))
    BY <1>1, <1>5 DEF CopyLog, JobType
  <2>3. Sent(j)'
    BY <2>2 DEF Sent, In, AtLeast
  <2>. QED
    BY <1>2, <2>1, <2>2, <2>3, RequestUnmoved DEF JobInv, Place
<1>. QED
  BY <1>3, <1>4, <1>5

\* A command that ended keeps at most a request that goes on alone.
LEMMA ExitInv ==
  ASSUME IInv, Kept, NEW j \in Jobs, stage'[j] \in {"ok", "idle"},
         request'[j] = request[j] \/ request'[j] = NoRequest
  PROVE  JobInv(j)'
<1>1. NoRequest.at = "none"
  BY DEF NoRequest
<1>. QED
  BY <1>1, RequestUnmoved, RequestAnew DEF JobInv, Place, Sent

LEMMA PostInv ==
  ASSUME IInv, Kept, NEW j \in Jobs, Post(j)
  PROVE  JobInv(j)'
<1>1. /\ TypeOK /\ Place(j) /\ Sent(j) /\ stage[j] = "pushing" /\ DOMAIN stage = Jobs
      /\ DOMAIN request = Jobs /\ DOMAIN job = Jobs /\ job[j] \in JobType
  BY DEF IInv, JobInv, TypeOK, Post
<1>2. PICK chunk \in SUBSET job[j].left :
        /\ job' = [job EXCEPT ![j].left = @ \ chunk]
        /\ request' = [request EXCEPT ![j] =
             [NoRequest EXCEPT !.at = "merging", !.source = job[j].source,
                !.rows = [u \in Calls |-> IF u \in chunk THEN job[j].rows[u] ELSE "none"]]]
  BY DEF Post
<1>3. /\ job'[j].left = job[j].left \ chunk /\ job'[j].to = job[j].to
      /\ job'[j].rows = job[j].rows
  BY <1>1, <1>2 DEF JobType
<1>4. /\ request'[j].at = "merging" /\ request'[j].plan = NoRequest.plan
      /\ request'[j].rows = [u \in Calls |-> IF u \in chunk THEN job[j].rows[u] ELSE "none"]
  BY <1>1, <1>2 DEF NoRequest
<1>5. stage'[j] = "waiting"
  BY <1>1 DEF Post
<1>6. Place(j)'
  BY <1>1, <1>3, <1>5 DEF Place
<1>7. Sent(j)'
  <2>1. ASSUME NEW u \in Calls \ job'[j].left, u \notin chunk
        PROVE  AtLeast(central'[u], job'[j].rows[u])
    <3>1. AtLeast(central[u], job[j].rows[u])
      BY <1>1, <1>3, <2>1 DEF Sent
    <3>. QED
      BY <1>1, <1>3, <3>1, HeldStays
  <2>. QED
    BY <1>3, <1>4, <1>5, <2>1 DEF Sent
<1>. QED
  BY <1>4, <1>6, <1>7, RequestAnew DEF JobInv

LEMMA ProceedInv ==
  ASSUME IInv, Kept, NEW j \in Jobs, Answer(j)
  PROVE  JobInv(j)'
<1>1. /\ TypeOK /\ Place(j) /\ Sent(j) /\ stage[j] = "waiting" /\ request[j].at = "answered"
      /\ DOMAIN stage = Jobs /\ DOMAIN request = Jobs
  BY DEF IInv, JobInv, TypeOK, Answer
<1>2. request'[j] = NoRequest
  BY <1>1 DEF Answer, Proceed
<1>3. CASE job[j].left # {}
  <2>1. stage'[j] = "pushing" /\ job'[j] = job[j]
    BY <1>1, <1>3 DEF Answer, Proceed
  <2>2. Place(j)'
    BY <1>1, <1>2, <2>1 DEF Place, NoRequest
  <2>3. Sent(j)'
    BY <1>1, <2>1, HeldStays DEF Sent
  <2>. QED
    BY <1>2, <2>2, <2>3, RequestAnew DEF JobInv, NoRequest
<1>4. CASE job[j].left = {}
  <2>1. stage'[j] \in {"ok", "idle"}
    BY <1>1, <1>4 DEF Answer, Proceed, Exit
  <2>. QED
    BY <1>2, <2>1, ExitInv
<1>. QED
  BY <1>3, <1>4
\* A request that is over while its client waits: answered only when its rows are there.
LEMMA OverInv ==
  ASSUME IInv, Kept, NEW j \in Jobs, NEW at \in {"answered", "failed"}, Over(j, at),
         UNCHANGED <<stage, job>>, request[j].at \in {"merging", "merged"},
         at = "answered" => request[j].at = "merged"
  PROVE  JobInv(j)'
<1>1. /\ TypeOK /\ Place(j) /\ Sent(j) /\ Merged(j) /\ DOMAIN request = Jobs
      /\ stage[j] \notin {"copying", "merging", "pushing"}
  BY DEF IInv, JobInv, TypeOK, Place
<1>2. /\ request'[j].plan = NoRequest.plan
      /\ request'[j].at = IF stage[j] = "waiting" THEN at ELSE "none"
  BY <1>1 DEF Over, NoRequest
<1>3. Place(j)'
  BY <1>1 DEF Place
<1>4. Sent(j)'
  <2>1. ASSUME NEW u \in Calls \ job[j].left, stage[j] = "waiting", at = "answered"
        PROVE  AtLeast(central'[u], job[j].rows[u])
    <3>1. AtLeast(central[u], job[j].rows[u])
      BY <1>1, <2>1 DEF Sent, Merged
    <3>. QED
      BY <1>1, <3>1, HeldStays
  <2>. QED
    BY <1>1, <1>2, <2>1 DEF Sent
<1>. QED
  BY <1>2, <1>3, <1>4, RequestAnew DEF JobInv

LEMMA DecideInv ==
  ASSUME IInv, Kept, NEW j \in Jobs, NEW v \in Calls, Decide(j, v)
  PROVE  JobInv(j)'
<1>1. /\ TypeOK /\ Place(j) /\ Sent(j) /\ Planned(j) /\ request[j] \in RequestType
      /\ DOMAIN request = Jobs /\ DOMAIN stage = Jobs /\ DOMAIN job = Jobs
  BY DEF IInv, JobInv, TypeOK
<1>2. UNCHANGED <<stage, job, central>> /\ request[j].at = "merging" /\ v \in ToDecide(j)
  BY DEF Decide, jobVars, centralVars
<1>3. /\ request'[j].at = "merging" /\ request'[j].rows = request[j].rows
      /\ request'[j].plan = [request[j].plan EXCEPT ![v] = Decision(central[v], request[j].rows[v])]
  BY <1>1, <1>2 DEF Decide, RequestType
<1>4. Planned(j)'
  <2>1. /\ central[v] \in States /\ request[j].rows[v] \in States
        /\ request[j].rows[v] # "none"
    BY <1>1, <1>2 DEF TypeOK, RequestType, Rows, ToDecide, In
  <2>2. \A u \in Calls : request'[j].plan[u] =
          IF u = v THEN Decision(central[v], request[j].rows[v]) ELSE request[j].plan[u]
    BY <1>1, <1>3 DEF RequestType
  <2>. QED
    BY <1>1, <1>2, <1>3, <2>1, <2>2, DecisionReaches DEF Planned
<1>5. Merged(j)'
  BY <1>3 DEF Merged
<1>6. Place(j)'
  BY <1>1, <1>2 DEF Place
<1>7. Sent(j)'
  BY <1>1, <1>2, <1>3 DEF Sent
<1>. QED
  BY <1>4, <1>5, <1>6, <1>7 DEF JobInv

LEMMA CommitInv ==
  ASSUME IInv, Kept, NEW j \in Jobs, Commit(j)
  PROVE  JobInv(j)'
<1>1. /\ TypeOK /\ Place(j) /\ Sent(j) /\ request[j] \in RequestType /\ DOMAIN request = Jobs
  BY DEF IInv, JobInv, TypeOK
<1>2. UNCHANGED <<stage, job>> /\ request[j].at = "merging"
  BY DEF Commit, jobVars
<1>3. CASE Over(j, "failed")
  BY <1>2, <1>3, OverInv
<1>4. CASE request' = [request EXCEPT ![j].at = "merged", ![j].plan = NoRequest.plan]
  <2>1. /\ request'[j].at = "merged" /\ request'[j].rows = request[j].rows
        /\ request'[j].plan = NoRequest.plan
    BY <1>1, <1>4 DEF RequestType
  <2>2. Planned(j)'
    BY <2>1 DEF Planned, NoRequest
  <2>3. Merged(j)'
    BY <2>1, CommitKept DEF Merged
  <2>4. Place(j)'
    BY <1>1, <1>2 DEF Place
  <2>5. Sent(j)'
    BY <1>1, <1>2, <2>1, HeldStays DEF Sent
  <2>. QED
    BY <2>2, <2>3, <2>4, <2>5 DEF JobInv
<1>. QED
  BY <1>3, <1>4 DEF Commit

\* The steps of one command and of its request, for every command.
LEMMA JobsInv ==
  ASSUME IInv, Kept, NEW j \in Jobs,
         \/ (\E f \in Flows : Copy(j, f[1], f[2])) \/ Fold(j) \/ CopyLog(j) \/ MergeFile(j)
         \/ Post(j) \/ Answer(j) \/ Refused(j) \/ GiveUp(j)
         \/ (\E u \in Calls : Decide(j, u)) \/ Commit(j) \/ Receipt(j) \/ Fail(j)
  PROVE  \A i \in Jobs : JobInv(i)'
<1>1. TypeOK
  BY DEF IInv
<1>2. ASSUME NEW i \in Jobs, i # j
      PROVE  stage'[i] = stage[i] /\ job'[i] = job[i] /\ request'[i] = request[i]
  BY <1>1, <1>2 DEF Copy, Fold, CopyLog, MergeFile, Post, Answer, Proceed, Refused, GiveUp,
       Decide, Commit, Receipt, Fail, Over, Exit, jobVars, TypeOK
<1>3. JobInv(j)'
  <2>1. CASE MergeFile(j) \/ Refused(j) \/ GiveUp(j)
    <3>1. stage'[j] \in {"ok", "idle"} /\ (request'[j] = request[j] \/ request'[j] = NoRequest)
      BY <1>1, <2>1 DEF MergeFile, Refused, GiveUp, Exit, TypeOK
    <3>. QED
      BY <3>1, ExitInv
  <2>2. CASE Receipt(j) \/ Fail(j)
    <3>1. /\ UNCHANGED <<stage, job>> /\ request[j].at \in {"merging", "merged"}
          /\ \/ Over(j, "answered") /\ request[j].at = "merged"
             \/ Over(j, "failed")
      BY <2>2 DEF Receipt, Fail, jobVars
    <3>. QED
      BY <3>1, OverInv
  <2>. QED
    BY <2>1, <2>2, ReadingInv, PostInv, ProceedInv, DecideInv, CommitInv
<1>. QED
  BY <1>2, <1>3, Unmoved

LEMMA ReceiptsStep == IInv /\ Kept /\ [Next]_vars => ReceiptsAreHeld'
<1>. SUFFICES ASSUME IInv, Kept, [Next]_vars, NEW r \in receipts'
              PROVE  central'[r[2]] # "none"
  BY DEF ReceiptsAreHeld
<1>1. TypeOK /\ ReceiptsAreHeld
  BY DEF IInv
<1>2. CASE r \in receipts
  <2>1. r[2] \in Calls /\ central[r[2]] # "none"
    BY <1>1, <1>2 DEF TypeOK, ReceiptsAreHeld
  <2>. QED
    BY <2>1 DEF Kept, AtLeast
<1>3. ASSUME NEW j \in Jobs, Receipt(j), r \notin receipts
      PROVE  central'[r[2]] # "none"
  <2>1. /\ r[2] \in In(request[j].rows) /\ central' = central /\ request[j].at = "merged"
        /\ Merged(j)
    BY <1>3 DEF Receipt, Deliver, IInv, JobInv
  <2>. QED
    BY <2>1 DEF Merged, AtLeast, In
<1>4. ASSUME ~\E j \in Jobs : Receipt(j)
      PROVE  receipts' = receipts
  BY <1>4 DEF Next, vars, Begin, Complete, Write, Copy, Fold, CopyLog, MergeFile, Post, Answer,
       Proceed, Refused, GiveUp, Decide, Commit, Fail, centralVars
<1>. QED
  BY <1>2, <1>3, <1>4

LEMMA InvStep == IInv /\ [Next]_vars => IInv'
<1>. SUFFICES ASSUME IInv, [Next]_vars PROVE IInv'
  OBVIOUS
<1>1. TypeOK'
  BY TypeStep DEF IInv
<1>2. Kept
  BY KeptStep
<1>3. ReceiptsAreHeld'
  BY <1>2, ReceiptsStep
<1>4. \A i \in Jobs : JobInv(i)'
  <2>1. CASE UNCHANGED <<stage, job, request>>
    BY <1>2, <2>1, Unmoved
  <2>2. CASE (\E u \in Calls : Begin(u) \/ Complete(u)) \/ UNCHANGED vars
    BY <2>1, <2>2 DEF Begin, Complete, Write, jobVars, vars
  <2>. QED
    BY <1>2, <2>2, JobsInv DEF Next
<1>. QED
  BY <1>1, <1>3, <1>4 DEF IInv

\* A command ends in success with every row it read in the ledger it was for.
LEMMA PushedStep ==
  ASSUME IInv, TypeOK', Kept, [Next]_vars, NEW j \in Jobs, stage[j] # "ok", stage'[j] = "ok"
  PROVE  \A u \in Calls :
           AtLeast((IF job[j].to = Central THEN central' ELSE state'[job[j].to])[u],
                   job[j].rows[u])
<1>1. TypeOK /\ DOMAIN stage = Jobs /\ Place(j) /\ Sent(j)
  BY DEF IInv, JobInv, TypeOK
<1>2. MergeFile(j) \/ Answer(j)
  <2>1. stage' # stage
    OBVIOUS
  <2>2. ASSUME NEW i \in Jobs, MergeFile(i) \/ Answer(i)
        PROVE  i = j
    BY <1>1, <2>2 DEF MergeFile, Answer, Proceed, Exit
  <2>3. ASSUME NEW i \in Jobs,
               \/ (\E f \in Flows : Copy(i, f[1], f[2])) \/ Fold(i) \/ CopyLog(i)
               \/ Post(i) \/ Refused(i) \/ GiveUp(i)
        PROVE  FALSE
    BY <1>1, <2>3 DEF Copy, Fold, CopyLog, Post, Refused, GiveUp, Exit
  <2>4. ASSUME NEW i \in Jobs,
               (\E u \in Calls : Decide(i, u)) \/ Commit(i) \/ Receipt(i) \/ Fail(i)
        PROVE  FALSE
    BY <2>1, <2>4 DEF Decide, Commit, Receipt, Fail, jobVars
  <2>5. CASE (\E u \in Calls : Begin(u) \/ Complete(u)) \/ UNCHANGED vars
    BY <2>1, <2>5 DEF Begin, Complete, Write, jobVars, vars
  <2>. QED
    BY <2>2, <2>3, <2>4, <2>5 DEF Next
<1>3. CASE MergeFile(j)
  <2>1. job[j].to \in Sources /\ job[j].to # Central
    BY <1>1, <1>3, ConstantsAssumption DEF MergeFile, Place
  <2>. QED
    BY <1>3, <2>1, MergeFileKept
<1>4. CASE Answer(j)
  <2>1. stage[j] = "waiting" /\ request[j].at = "answered" /\ job[j].to = Central
    BY <1>1, <1>4 DEF Answer, Place
  <2>2. job[j].left = {}
    BY <1>1, <1>4 DEF Answer, Proceed
  <2>. QED
    BY <1>1, <2>1, <2>2, HeldStays DEF Sent
<1>. QED
  BY <1>2, <1>3, <1>4
-----------------------------------------------------------------------------
(* The theorems.                                                           *)

\* Every reachable state satisfies the invariant.
THEOREM Invariance == Spec => []IInv
<1>1. IInv /\ [Next]_vars => IInv'
  BY InvStep
<1>. QED
  BY <1>1, InitInv, PTL DEF Spec

\* No variable leaves its type, and no request carries more than --batch rows.
THEOREM TypeCorrect == Spec => []TypeOK
<1>1. IInv => TypeOK
  BY DEF IInv
<1>. QED
  BY <1>1, Invariance, PTL

\* The central ledger holds every call it has a receipt of, wherever an ingest was cut off.
THEOREM ReceiptSafety == Spec => []ReceiptsAreHeld
<1>1. IInv => ReceiptsAreHeld
  BY DEF IInv
<1>. QED
  BY <1>1, Invariance, PTL

\* No ledger ever goes back on a call, whatever is merged into it and by how many at once.
THEOREM Convergence == Spec => OutcomeIsKept
<1>1. IInv /\ IInv' /\ [Next]_vars =>
        [/\ Reaches(central', central)
         /\ \A s \in Sources : Reaches(state'[s], state[s])]_vars
  <2>. SUFFICES ASSUME IInv, IInv', [Next]_vars
                PROVE  /\ Reaches(central', central)
                       /\ \A s \in Sources : Reaches(state'[s], state[s])
    OBVIOUS
  <2>1. /\ central \in Rows /\ central' \in Rows
        /\ \A s \in Sources : state[s] \in Rows /\ state'[s] \in Rows
    BY DEF IInv, TypeOK
  <2>2. Kept
    BY KeptStep
  <2>. QED
    BY <2>1, <2>2, ReachesAtLeast DEF Kept
<1>. QED
  BY <1>1, Invariance, PTL DEF Spec, OutcomeIsKept

\* A push or merge that ends in success brought every row it read, in the state it read it.
THEOREM PushSafety == Spec => PushedIsHeld
<1>. DEFINE Brought ==
       \A j \in Jobs : stage[j] # "ok" /\ stage'[j] = "ok" =>
         Reaches(IF job[j].to = Central THEN central' ELSE state'[job[j].to], job[j].rows)
<1>1. IInv /\ IInv' /\ [Next]_vars => [Brought]_vars
  <2>. SUFFICES ASSUME IInv, IInv', [Next]_vars,
                       NEW j \in Jobs, stage[j] # "ok", stage'[j] = "ok"
                PROVE  Reaches(IF job[j].to = Central THEN central' ELSE state'[job[j].to],
                               job[j].rows)
    OBVIOUS
  <2>. DEFINE held == IF job[j].to = Central THEN central' ELSE state'[job[j].to]
  <2>1. held \in Rows /\ job[j].rows \in Rows
    BY DEF IInv, TypeOK, JobType
  <2>2. \A u \in Calls : AtLeast(held[u], job[j].rows[u])
    BY KeptStep, PushedStep DEF IInv
  <2>. HIDE DEF held
  <2>3. Reaches(held, job[j].rows)
    BY <2>1, <2>2, ReachesAtLeast
  <2>. QED
    BY <2>3 DEF held
<1>. QED
  BY <1>1, Invariance, PTL DEF Spec, PushedIsHeld
=============================================================================
