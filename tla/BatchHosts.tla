----------------------------- MODULE BatchHosts -----------------------------
(***************************************************************************)
(* One batch at one vendor, as the four batch adapters speak to it: what   *)
(* each refuses to build, which of the vendor's words for its batch and    *)
(* its results are put into a request that carries the key, when a batch   *)
(* counts as ended, and how each results file is read back to the rows.    *)
(*                                                                         *)
(* BatchLifecycle has the crashes, retries and concurrent collectors of a  *)
(* batch at a vendor that names every result; here one caller submits and  *)
(* collects, and the vendor answers everything its adapter provides for.   *)
(***************************************************************************)
EXTENDS Naturals, Sequences, FiniteSets

CONSTANTS
  Models,    \* models the requests name
  MaxSize    \* bound: requests in the batch

HostsAssumption == Models # {} /\ MaxSize \in Nat \ {0}

VARIABLES
  host,      \* [kind, batches]: the provider entry
  models,    \* the model of each request, in the order they were given
  rows,      \* the ledger's row of each request: [state, answer]
  stage,     \* where the caller is
  named,     \* what the vendor called the batch, and then its results
  vendor,    \* [accepted, word, file]: the batch at the vendor
  keySent    \* where requests carrying the key went

vars == <<host, models, rows, stage, named, vendor, keySent>>

Kinds    == {"anthropic", "openai_compat", "google", "azure_docintel", "aws_bedrock"}
Requests == DOMAIN models

\* A name the vendor may give: one that stays where its adapter puts it, one whose slashes lead to
\* another path of the same host, and, where the name is a URL, one of another host.
Names  == {"plain", "walks", "abroad"}
Places == {"batch", "elsewhere", "abroad"}

-----------------------------------------------------------------------------
(* Words of the vendor's for a batch.                                      *)

Running(kind) ==
  CASE kind = "anthropic"     -> {"in_progress", "canceling"}
    [] kind = "openai_compat" -> {"validating", "in_progress", "finalizing", "cancelling"}
    [] kind = "google"        -> {"JOB_STATE_PENDING", "BATCH_STATE_RUNNING", ""}
    [] OTHER                  -> {"notStarted", "running"}
Over(kind) ==
  CASE kind = "anthropic"     -> {"ended"}
    [] kind = "openai_compat" -> {"completed", "failed", "expired"}
    [] kind = "google"        -> {"JOB_STATE_SUCCEEDED", "BATCH_STATE_SUCCEEDED", "JOB_STATE_FAILED"}
    [] OTHER                  -> {"succeeded", "failed", "canceled"}

AnthropicEnded(word) == word = "ended"
OpenAIEnded(word)    == word \in {"completed", "failed", "expired", "cancelled", "canceled"}
GoogleEnded(word)    ==
  word \notin {"JOB_STATE_PENDING", "JOB_STATE_RUNNING", "JOB_STATE_QUEUED",
               "BATCH_STATE_PENDING", "BATCH_STATE_RUNNING", ""}
DocIntelEnded(word)  == word \notin {"notStarted", "running"}

Ended(kind, word) ==
  CASE kind = "anthropic"     -> AnthropicEnded(word)
    [] kind = "openai_compat" -> OpenAIEnded(word)
    [] kind = "google"        -> GoogleEnded(word)
    [] OTHER                  -> DocIntelEnded(word)

\* Whether the status says where the results are.
HasResults(kind, word) ==
  CASE kind = "openai_compat" -> word # "failed"
    [] kind = "google"        -> word \in {"JOB_STATE_SUCCEEDED", "BATCH_STATE_SUCCEEDED"}
    [] OTHER                  -> TRUE

-----------------------------------------------------------------------------
(* Requests that carry the key, built from a name the vendor gave: the     *)
(* place one goes to, or "refused".                                        *)

\* An id put at the end of a path of the configured host.
AnthropicStatus(name) == IF name = "plain" THEN "batch" ELSE "elsewhere"
\* A URL of the vendor's, of the configured scheme and host.
AnthropicResults(name) ==
  CASE name = "plain" -> "batch" [] name = "walks" -> "elsewhere" [] OTHER -> "refused"
\* A plain id and nothing else.
SafeFileId(name) == IF name = "plain" THEN "batch" ELSE "refused"
\* batches/<id>, with no further slash.
BatchUrl(name) == IF name = "plain" THEN "batch" ELSE "refused"
\* A URL under the configured one.
OperationLocation(name) ==
  CASE name = "plain" -> "batch" [] name = "walks" -> "elsewhere" [] OTHER -> "refused"

OpenAIStatus(name)  == SafeFileId(name)
OpenAIResults(name) == SafeFileId(name)
GoogleStatus(name)  == BatchUrl(name)
GoogleResults(name) == BatchUrl(name)

StatusGoesTo(kind, name) ==
  CASE kind = "anthropic"     -> AnthropicStatus(name)
    [] kind = "openai_compat" -> OpenAIStatus(name)
    [] kind = "google"        -> GoogleStatus(name)
    [] OTHER                  -> OperationLocation(name)
ResultsComeFrom(kind, name) ==
  CASE kind = "anthropic"     -> AnthropicResults(name)
    [] kind = "openai_compat" -> OpenAIResults(name)
    [] kind = "google"        -> GoogleResults(name)
    [] OTHER                  -> OperationLocation(name)

-----------------------------------------------------------------------------
(* Results files: lines [of, as], the answer to request "of" as the vendor *)
(* writes it: with its custom_id, without, as something that is no object, *)
(* or as no JSON at all. Read, a file is items [id, of].                   *)

Uid(k)      == <<"uid", k>>
Position(i) == <<"#", i>>
NoId        == <<"">>

Lines(as) == [of : Requests, as : as]

\* Vendors that name each result write them in any order, may leave some out and may write one
\* again.  Bound: a file has no more lines than its batch has requests.
AnyOrder(as) == UNION {[1..n -> Lines(as)] : n \in 0..Len(models)}
\* Gemini's list follows the requests; it may be cut short of some of them.
Aligned(as) == {f \in AnyOrder(as) : \A i, j \in DOMAIN f : i < j => f[i].of < f[j].of}

ResultFiles ==
  CASE host.kind = "google"         -> Aligned({"named", "unnamed", "junk"})
    [] host.kind = "azure_docintel" -> {<<[of |-> 1, as |-> "unnamed"]>>}
    [] OTHER                        -> AnyOrder({"named", "unnamed", "junk", "broken"})

IdOf(line)    == IF line.as = "named" THEN Uid(line.of) ELSE NoId

\* What each adapter will not read the rest of.
Unreadable(kind) ==
  CASE kind = "anthropic"     -> {"unnamed", "junk", "broken"}
    [] kind = "openai_compat" -> {"broken"}
    [] OTHER                  -> {}
Readable(kind, file) == \A i \in DOMAIN file : file[i].as \notin Unreadable(kind)

AnthropicItems(file) == [i \in DOMAIN file |-> [id |-> Uid(file[i].of), of |-> file[i].of]]

OpenAIItems(file) ==
  LET objects == SelectSeq(file, LAMBDA line : line.as # "junk")
  IN  [i \in DOMAIN objects |-> [id |-> IdOf(objects[i]), of |-> objects[i].of]]

GoogleItems(file) ==
  [i \in DOMAIN file |->
     [id |-> IF file[i].as = "unnamed" THEN Position(i) ELSE IdOf(file[i]), of |-> file[i].of]]

DocIntelItems(file) == <<[id |-> Position(1), of |-> 1]>>

Items(kind, file) ==
  CASE kind = "anthropic"     -> AnthropicItems(file)
    [] kind = "openai_compat" -> OpenAIItems(file)
    [] kind = "google"        -> GoogleItems(file)
    [] OTHER                  -> DocIntelItems(file)

Positional(items) == {i \in DOMAIN items : items[i].id[1] = "#"}

\* Mutant: the count is not compared.
MappableAlways(items) == TRUE

\* Positions are believed only of a list as long as the batch.
Mappable(items) == Positional(items) = {} \/ Len(items) = Len(models)

\* The item of request k: the last of its position, or else the last of its uid; 0 if none.
ItemOf(items, k) ==
  LET Latest(id) == {i \in DOMAIN items : items[i].id = id
                       /\ \A j \in DOMAIN items : items[j].id = id => j <= i}
      found == IF Latest(Position(k)) # {} THEN Latest(Position(k)) ELSE Latest(Uid(k))
  IN  IF found = {} THEN 0 ELSE CHOOSE i \in found : TRUE

-----------------------------------------------------------------------------
(* Submitting.                                                             *)

HasAdapter(kind) == kind # "aws_bedrock"
ServesBatches(entry) ==
  CASE entry.batches = "yes" -> TRUE
    [] entry.batches = "no"  -> FALSE
    [] OTHER                 -> entry.kind \in {"anthropic", "google", "azure_docintel"}

GoogleBuilds   == Cardinality({models[k] : k \in Requests}) = 1
DocIntelBuilds == Len(models) = 1
Builds ==
  CASE host.kind = "google"         -> GoogleBuilds
    [] host.kind = "azure_docintel" -> DocIntelBuilds
    [] OTHER                        -> TRUE

Row(state, answer) == [state |-> state, answer |-> answer]

Init ==
  /\ host \in [kind : Kinds, batches : {"unset", "yes", "no"}]
  /\ models \in UNION {[1..n -> Models] : n \in 1..MaxSize}
  /\ rows = [k \in Requests |-> Row("none", 0)]
  /\ stage = "new"
  /\ named = "nothing"
  /\ vendor = [accepted |-> FALSE, word |-> "", file |-> <<>>]
  /\ keySent = {}

\* Refused before a row is written.
Refuse ==
  /\ stage = "new"
  /\ ~(HasAdapter(host.kind) /\ ServesBatches(host))
  /\ stage' = "refused"
  /\ UNCHANGED <<host, models, rows, named, vendor, keySent>>

\* The rows are begun, and then the request is built: what cannot be built raises.
Begin ==
  /\ stage = "new"
  /\ HasAdapter(host.kind) /\ ServesBatches(host)
  /\ rows' = [k \in Requests |-> Row("in_flight", 0)]
  /\ stage' = IF ~Builds THEN "raised"
              ELSE IF host.kind = "openai_compat" THEN "uploading" ELSE "submitting"
  /\ UNCHANGED <<host, models, named, vendor, keySent>>

Fail == rows' = [k \in Requests |-> [rows[k] EXCEPT !.state = "failed"]]

\* What is made of a 2xx to an upload, and to a submission: a name, or an error when it has none.
Uploaded(next)  == IF next = "raised" THEN Fail ELSE UNCHANGED rows
Submitted(next) ==
  \/ next = "submitted" /\ named' \in Names
  \/ next = "raised" /\ named' = "nothing"

\* The input file goes up; an answer without an id fails the rows, and nothing is billed.
Upload ==
  /\ stage = "uploading"
  /\ keySent' = keySent \cup {"batch"}
  /\ stage' \in {"submitting", "raised"} /\ Uploaded(stage')
  /\ UNCHANGED <<host, models, named, vendor>>

\* The vendor refuses the batch; or accepts it and calls it something; or accepts it in an
\* answer without a name, and the rows stay in flight at their estimate.
Submit ==
  /\ stage = "submitting"
  /\ keySent' = keySent \cup {"batch"}
  /\ \/ stage' = "raised" /\ Fail /\ UNCHANGED <<named, vendor>>
     \/ /\ stage' \in {"submitted", "raised"} /\ Submitted(stage')
        /\ \E word \in Running(host.kind) :
             vendor' = [vendor EXCEPT !.accepted = TRUE, !.word = word]
        /\ UNCHANGED rows
  /\ UNCHANGED <<host, models>>

-----------------------------------------------------------------------------
(* The vendor.                                                             *)

VendorEnds ==
  /\ vendor.accepted /\ vendor.word \in Running(host.kind)
  /\ \E word \in Over(host.kind), file \in ResultFiles :
       vendor' = [vendor EXCEPT !.word = word, !.file = file]
  /\ UNCHANGED <<host, models, rows, stage, named, keySent>>

-----------------------------------------------------------------------------
(* Collecting.                                                             *)

\* The status is asked for; a batch that has ended says where its results are.
Look ==
  /\ stage = "submitted"
  /\ LET place == StatusGoesTo(host.kind, named)
         ready == Ended(host.kind, vendor.word) /\ HasResults(host.kind, vendor.word)
     IN  /\ place # "refused"
         /\ keySent' = keySent \cup {place}
         /\ stage' = IF ready THEN "reading" ELSE stage
         /\ named' \in IF ready /\ host.kind \in {"anthropic", "openai_compat"} THEN Names ELSE {named}
  /\ UNCHANGED <<host, models, rows, vendor>>

Collected(k, items) ==
  LET i == ItemOf(items, k)
  IN  IF i = 0 THEN Row("missing", 0) ELSE Row("done", items[i].of)

\* The results are fetched, read and mapped to the requests; what raises completes no row.
Understood(file) == Readable(host.kind, file) /\ Mappable(Items(host.kind, file))
Collect ==
  /\ stage = "reading"
  /\ LET place == ResultsComeFrom(host.kind, named)
     IN  place # "refused" /\ keySent' = keySent \cup {place}
  /\ stage' = IF Understood(vendor.file) THEN "completing" ELSE "unreadable"
  /\ UNCHANGED <<host, models, rows, named, vendor>>

\* The rows are completed one by one, in the order of the batch.  To complete one again, from
\* the same file, writes what it holds.
Complete(k) ==
  /\ stage = "completing" /\ rows[k].state = "in_flight"
  /\ \A l \in Requests : l < k => rows[l].state # "in_flight"
  /\ rows' = [rows EXCEPT ![k] = Collected(k, Items(host.kind, vendor.file))]
  /\ stage' = IF k = Len(models) THEN "collected" ELSE stage
  /\ UNCHANGED <<host, models, named, vendor, keySent>>

\* Cut off between two rows and called again: the status is asked for as before, and may call
\* the results something else.
Recollect ==
  /\ stage = "completing"
  /\ stage' = "reading"
  /\ named' \in IF host.kind \in {"anthropic", "openai_compat"} THEN Names ELSE {named}
  /\ UNCHANGED <<host, models, rows, vendor, keySent>>

Next ==
  \/ Refuse \/ Begin \/ Upload \/ Submit \/ VendorEnds \/ Look \/ Collect \/ Recollect
  \/ \E k \in Requests : Complete(k)

Spec == Init /\ [][Next]_vars

-----------------------------------------------------------------------------
TypeOK ==
  /\ host.kind \in Kinds
  /\ \A k \in Requests : /\ rows[k].state \in {"none", "in_flight", "failed", "missing", "done"}
                         /\ rows[k].answer \in {0} \cup Requests
  /\ named \in Names \cup {"nothing"} /\ keySent \subseteq Places

\* Whatever a vendor leaves out, leaves unnamed or writes in another order, a row is completed
\* with the answer to its own request (batch_results and the four parse_batch_results).
AnswersAreTheirOwn == \A k \in Requests : rows[k].state = "done" => rows[k].answer = k

\* A row is completed from the results of a batch that will not change again
\* (the four parse_batch_status): one read too early would be called missing for good.
ReadOnceOver ==
  (\E k \in Requests : rows[k].state \in {"done", "missing"}) => vendor.word \in Over(host.kind)

\* The key goes to no host but the configured one, whatever the vendor calls its batch or its
\* results, and to no other path of it where the name is an id (_safe_file_id, _batch_url,
\* build_batch_results, _get).
KeyStaysHome ==
  /\ "abroad" \notin keySent
  /\ host.kind \in {"openai_compat", "google"} => keySent \subseteq {"batch"}

\* A file half understood completes no row, and one understood completes them all, in order
\* and however often the collecting is cut off between two of them.
TogetherOrNot ==
  /\ stage = "unreadable" => \A k \in Requests : rows[k].state = "in_flight"
  /\ stage = "collected" => \A k \in Requests : rows[k].state \in {"done", "missing"}
  /\ \A k, l \in Requests : k < l /\ rows[k].state = "in_flight" => rows[l].state = "in_flight"

\* Each batch's answers reach its own rows, once it is over, without the key leaving home.
BatchIsItsOwn == AnswersAreTheirOwn /\ ReadOnceOver /\ KeyStaysHome /\ TogetherOrNot

\* A row is left in flight by a submit that raised only when the vendor accepted the batch
\* (gateway.py:689, "the one case where the rows are left in flight").
OnlyAcceptedStaysInFlight ==
  stage = "raised" => \A k \in Requests : rows[k].state = "in_flight" => vendor.accepted
=============================================================================
