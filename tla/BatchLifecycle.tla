--------------------------- MODULE BatchLifecycle ---------------------------
(***************************************************************************)
(* Vendor batches: Gateway.batch_submit, batch_handle and batch_results of *)
(* boundary/gateway.py over the ledger of boundary/ledger/store.py.  One   *)
(* process submits, another may collect hours later with nothing but the   *)
(* batch id, and either may stop between any two writes.                   *)
(*                                                                         *)
(* Every request has the same estimate, one unit, which is also what a     *)
(* succeeded one costs; the vendor bills a batch when it accepts it.       *)
(***************************************************************************)
EXTENDS Naturals, Sequences, FiniteSets, Places

CONSTANTS
  Batches,       \* calls of batch_submit
  Size,          \* requests in each
  Collectors,    \* calls of batch_results
  Uploads,       \* the adapter uploads its requests first (uploads_input_file)
  MaxAttempts,   \* retry.max_attempts, of the create request
  Cap,           \* project_monthly_usd, in requests
  SubmitterDies, \* a submitting process may die, or a write of its raise
  AnswersLost,   \* an answer may be lost after the vendor acted on the request
  Keyless,       \* a result may come back without the caller's id
  MayOmit        \* a results file may leave a request out

\* What is assumed of the constants; the modules that give them their values check it.
ConstantsAssumption ==
  /\ Size \in Nat \ {0} /\ MaxAttempts \in Nat \ {0} /\ Cap \in Nat
  /\ {Uploads, SubmitterDies, AnswersLost, Keyless, MayOmit} \subseteq BOOLEAN

Requests == 1 .. Size
BatchIds == Batches \X (1 .. MaxAttempts)   \* what an accepted create request is named
NoId     == <<>>
Verdicts == {"succeeded", "errored"}

\* What a row says, and for a verdict whose request it is about.
Plain(s) == [of |-> 0, as |-> s]
Rows == [of : {0}, as : {"none", "in_flight", "failed", "missing"}] \cup [of : Requests, as : Verdicts]

VARIABLES
  row,      \* [Batches -> [Requests -> Rows]]
  batchId,  \* [Batches -> [Requests -> BatchIds \cup {NoId}]]: the batch_id column
  pc,       \* [Batches -> where batch_submit is]
  at,       \* [Batches -> the row its loop is at]
  attempt,  \* [Batches -> create requests sent]
  accepted, \* the vendor's batches, which it bills
  results,  \* [BatchIds -> the results file], once the batch has ended
  cpc,      \* [Collectors -> where batch_results is]
  id,       \* [Collectors -> the batch_id of its handle]
  ids,      \* [Collectors -> its custom_ids, those not completed yet]
  found     \* [Collectors -> [Requests -> Rows]]: by_custom_id

rowVars    == <<row, batchId>>
submitVars == <<pc, at, attempt>>
vendorVars == <<accepted, results>>
handVars   == <<cpc, id, ids, found>>
vars == <<rowVars, submitVars, vendorVars, handVars>>

NotEnded == [ended |-> FALSE, keyed |-> {}, verdict |-> [k \in Requests |-> "absent"]]
Missing  == [k \in Requests |-> Plain("missing")]

Init ==
  /\ row = [b \in Batches |-> [k \in Requests |-> Plain("none")]]
  /\ batchId = [b \in Batches |-> [k \in Requests |-> NoId]]
  /\ pc = [b \in Batches |-> "new"]
  /\ at = [b \in Batches |-> 1]
  /\ attempt = [b \in Batches |-> 0]
  /\ accepted = {}
  /\ results = [i \in BatchIds |-> NotEnded]
  /\ cpc = [c \in Collectors |-> "new"]
  /\ id = [c \in Collectors |-> NoId]
  /\ ids = [c \in Collectors |-> <<>>]
  /\ found = [c \in Collectors |-> Missing]

-----------------------------------------------------------------------------
(* Submitting.                                                             *)

\* What the month's spend counts.
Spent == Cardinality({q \in Batches \X Requests : row[q[1]][q[2]].as \in {"in_flight", "succeeded"}})

Goto(b, place) == pc' = [pc EXCEPT ![b] = place] /\ at' = [at EXCEPT ![b] = 1]

\* _check_caps, once for the whole batch, with no admission lock held
Check(b) ==
  /\ pc[b] = "new"
  /\ Goto(b, IF Spent + Size <= Cap THEN "begin" ELSE "refused")
  /\ UNCHANGED <<rowVars, attempt, vendorVars, handVars>>

\* One turn of a loop over the batch's rows, then on to the next place.
Turn(b, next) ==
  IF at[b] < Size THEN at' = [at EXCEPT ![b] = @ + 1] /\ UNCHANGED pc ELSE Goto(b, next)

BeginRow(b) ==
  /\ pc[b] = "begin"
  /\ row' = [row EXCEPT ![b][at[b]] = Plain("in_flight")]
  /\ Turn(b, IF Uploads THEN "upload" ELSE "create")
  /\ UNCHANGED <<batchId, attempt, vendorVars, handVars>>

\* An upload is not billed, whatever becomes of it.
Upload(b) ==
  /\ pc[b] = "upload"
  /\ Goto(b, "create") \/ Goto(b, "fail")
  /\ UNCHANGED <<rowVars, attempt, vendorVars, handVars>>

\* After the last attempt the rows are completed as failures.
RetryOrFail(b) ==
  IF attempt[b] + 1 < MaxAttempts THEN UNCHANGED <<pc, at>> ELSE Goto(b, "fail")

\* A plausible bug: an answer that cannot be read is taken for a refusal.
CreateUnreadFails(b) ==
  /\ pc[b] = "create"
  /\ attempt' = [attempt EXCEPT ![b] = @ + 1]
  /\ \/ /\ accepted' = accepted \cup {<<b, attempt[b] + 1>>}
        /\ Goto(b, "name") \/ Goto(b, "fail")
     \/ UNCHANGED accepted /\ (Goto(b, "fail") \/ RetryOrFail(b))
  /\ UNCHANGED <<rowVars, results, handVars>>

Create(b) ==
  /\ pc[b] = "create"
  /\ attempt' = [attempt EXCEPT ![b] = @ + 1]
  /\ \/ /\ accepted' = accepted \cup {<<b, attempt[b] + 1>>}
        /\ \/ Goto(b, "name")
           \/ Goto(b, "unread")                 \* a 2xx whose body cannot be read
           \/ AnswersLost /\ RetryOrFail(b)
     \/ /\ UNCHANGED accepted
        /\ Goto(b, "fail") \/ RetryOrFail(b)    \* refused; or busy, or never arrived
  /\ UNCHANGED <<rowVars, results, handVars>>

FailRow(b) ==
  /\ pc[b] = "fail"
  /\ row' = [row EXCEPT ![b][at[b]] = Plain("failed")]
  /\ Turn(b, "failed")
  /\ UNCHANGED <<batchId, attempt, vendorVars, handVars>>

\* set_batch_id updates its rows one statement each, outside a transaction.
NameRow(b) ==
  /\ pc[b] = "name"
  /\ batchId' = [batchId EXCEPT ![b][at[b]] = <<b, attempt[b]>>]
  /\ Turn(b, "submitted")
  /\ UNCHANGED <<row, attempt, vendorVars, handVars>>

SubmitterStops(b) ==
  /\ SubmitterDies /\ pc[b] \in {"begin", "upload", "create", "fail", "name"}
  /\ Goto(b, "dead")
  /\ UNCHANGED <<rowVars, attempt, vendorVars, handVars>>

-----------------------------------------------------------------------------
(* The vendor, as the gateway uses it: a batch ends once, its results do   *)
(* not change afterwards, and they are in the order of the requests.       *)
End(i) ==
  /\ i \in accepted /\ ~results[i].ended
  /\ \E keyed \in IF Keyless THEN SUBSET Requests ELSE {Requests},
        verdict \in [Requests -> Verdicts \cup IF MayOmit THEN {"absent"} ELSE {}] :
       results' = [results EXCEPT ![i] = [ended |-> TRUE, keyed |-> keyed, verdict |-> verdict]]
  /\ UNCHANGED <<rowVars, submitVars, accepted, handVars>>

-----------------------------------------------------------------------------
(* Collecting.                                                             *)

\* The rows of a batch, in the order they were submitted.
RowsForBatch(i) == InOrder({k \in Requests : batchId[i[1]][k] = i})

\* batch_handle: a handle rebuilt from the rows, or the one batch_submit returned, which
\* names the same requests.
Start(c, i) ==
  /\ cpc[c] = "new" /\ pc[i[1]] \in {"submitted", "dead"} /\ RowsForBatch(i) # <<>>
  /\ id' = [id EXCEPT ![c] = i]
  /\ ids' = [ids EXCEPT ![c] = RowsForBatch(i)]
  /\ cpc' = [cpc EXCEPT ![c] = "poll"]
  /\ UNCHANGED <<rowVars, submitVars, vendorVars, found>>

\* The results file: the requests its entries are about, and what an entry says.
Items(i) == InOrder({k \in Requests : results[i].verdict[k] # "absent"})
Item(i, k) == [of |-> k, as |-> results[i].verdict[k]]
Positional(i) == {n \in DOMAIN Items(i) : Items(i)[n] \notin results[i].keyed}

\* An entry that names its request is that request's; one that does not is its position's.
\* (by_custom_id also holds ids the handle does not name, which nothing reads.)
ByCustomId(c) ==
  LET i == id[c]
      Placed(k) == {n \in Positional(i) : n <= Len(ids[c]) /\ ids[c][n] = k}
  IN  [k \in Requests |->
         IF Placed(k) # {} THEN Item(i, Items(i)[CHOOSE n \in Placed(k) : TRUE])
         ELSE IF k \in results[i].keyed /\ results[i].verdict[k] # "absent" THEN Item(i, k)
         ELSE Plain("missing")]

\* Three plausible bugs: the file of a batch that has not ended is read, in which nothing is
\* listed; positions are trusted without counting the results; the results are put in place
\* by position though they name their requests.
FetchEarly(c) ==
  /\ cpc[c] = "poll"
  /\ found' = [found EXCEPT ![c] = ByCustomId(c)]
  /\ cpc' = [cpc EXCEPT ![c] = "complete"]
  /\ UNCHANGED <<rowVars, submitVars, vendorVars, id, ids>>

\* batch_results up to its loop: the batch has ended and its file is read.  Positions are
\* trusted only when there are as many results as ids.
Fetch(c) ==
  /\ cpc[c] = "poll" /\ results[id[c]].ended
  /\ IF Positional(id[c]) # {} /\ Len(Items(id[c])) # Len(ids[c])
     THEN cpc' = [cpc EXCEPT ![c] = "raised"] /\ UNCHANGED found
     ELSE /\ cpc' = [cpc EXCEPT ![c] = "complete"]
          /\ found' = [found EXCEPT ![c] = ByCustomId(c)]
  /\ UNCHANGED <<rowVars, submitVars, vendorVars, id, ids>>

\* A plausible bug: a row the results file does not mention is passed over.
OutcomeIfFound(c, k) == IF found[c][k] = Plain("missing") THEN row[id[c][1]][k] ELSE found[c][k]

Outcome(c, k) == found[c][k]

\* _complete_batch_row, in submission order
CompleteRow(c) ==
  /\ cpc[c] = "complete"
  /\ LET k == Head(ids[c]) IN row' = [row EXCEPT ![id[c][1]][k] = Outcome(c, k)]
  /\ ids' = [ids EXCEPT ![c] = Tail(@)]
  /\ cpc' = [cpc EXCEPT ![c] = IF Len(ids[c]) = 1 THEN "done" ELSE "complete"]
  /\ UNCHANGED <<batchId, submitVars, vendorVars, id, found>>

\* BatchNotReady, a fetch that fails, or the end of the process
CollectorStops(c) ==
  /\ cpc[c] \in {"poll", "complete"}
  /\ cpc' = [cpc EXCEPT ![c] = "stopped"]
  /\ UNCHANGED <<rowVars, submitVars, vendorVars, id, ids, found>>

Next ==
  \/ \E b \in Batches : \/ Check(b) \/ BeginRow(b) \/ Upload(b) \/ Create(b)
                        \/ FailRow(b) \/ NameRow(b) \/ SubmitterStops(b)
  \/ \E i \in BatchIds : End(i)
  \/ \E c \in Collectors : \/ \E i \in BatchIds : Start(c, i)
                           \/ Fetch(c) \/ CompleteRow(c) \/ CollectorStops(c)

Spec == Init /\ [][Next]_vars

-----------------------------------------------------------------------------
(* Properties.                                                             *)

\* Every variable stays in its type: a loop over a batch's rows stays on them, and a row is
\* named only after a create request that was sent.
TypeOK ==
  /\ row \in [Batches -> [Requests -> Rows]]
  /\ batchId \in [Batches -> [Requests -> BatchIds \cup {NoId}]]
  /\ pc \in [Batches -> {"new", "refused", "begin", "upload", "create", "fail", "failed",
                         "name", "submitted", "unread", "dead"}]
  /\ at \in [Batches -> Requests]
  /\ attempt \in [Batches -> 0 .. MaxAttempts]
  /\ accepted \subseteq BatchIds
  /\ results \in [BatchIds -> [ended : BOOLEAN, keyed : SUBSET Requests,
                               verdict : [Requests -> Verdicts \cup {"absent"}]]]
  /\ cpc \in [Collectors -> {"new", "poll", "complete", "done", "raised", "stopped"}]
  /\ id \in [Collectors -> BatchIds \cup {NoId}]
  /\ ids \in [Collectors -> Seq(Requests)]
  /\ found \in [Collectors -> [Requests -> Rows]]

\* What the vendor bills is in the ledger: a batch it accepted has all its rows, none of them
\* recorded as a failure that cost nothing, and no set of rows stands for two batches.  It
\* holds whenever the process stops, and whatever becomes of an answer that arrived
\* (batch_submit writes its rows first and leaves them in flight when it cannot read a 2xx).
AcceptedIsCounted ==
  /\ \A i \in accepted, k \in Requests : row[i[1]][k].as \notin {"none", "failed"}
  /\ \A i, j \in accepted : i[1] = j[1] => i = j

\* A collection that returned left no row of its batch in flight, and each says what the
\* vendor's file said of that request, whoever else was collecting and whoever stopped half way
\* (batch_results and _complete_batch_row).  Left out is a file without ids for a batch whose
\* submitter died while naming its rows: the count check compares the file with the rows that
\* were named, and a file that omits as many results is put in place on the wrong ones.
CollectedAsReported ==
  \A c \in Collectors :
    LET i == id[c]
        Named(k) == batchId[i[1]][k] = i
    IN  /\ cpc[c] = "done"
        /\ Positional(i) = {} \/ \A k \in Requests : Named(k)
        => \A k \in Requests : Named(k) =>
             row[i[1]][k] = IF results[i].verdict[k] = "absent" THEN Plain("missing")
                            ELSE Item(i, k)

\* A row that has an outcome keeps it: collecting again, or twice at once, changes nothing.
OutcomeStays ==
  \A b \in Batches, k \in Requests :
    row[b][k].as \in Verdicts \cup {"missing"} => row'[b][k] = row[b][k]
OutcomeIsFinal == [][OutcomeStays]_vars

\* Calls admitted at once do not together pass a cap only one of them fits under.
CapHolds == Spent <= Cap
=============================================================================
