------------------------------ MODULE ProxyCall ------------------------------
(***************************************************************************)
(* The proxy's /v1/chat/completions (boundary/server/app.py): a handler    *)
(* per request on a worker's event loop, the threads it waits for, the     *)
(* task that makes the call and outlives it, the queue a stream is handed  *)
(* over, and shutdown.  The ledger row is reduced to its state; sealing,   *)
(* which ServerState.sealed schedules, is in AuditAppender.                *)
(*                                                                         *)
(*   new -> exact -> embed -> lookup -> call -> store -> answered          *)
(*      \     \--------------------\--> record --------->                  *)
(*       \-> call | first -> stream ---------------------->   gone, by     *)
(*        \-> answered (refused)                         a cancellation    *)
(***************************************************************************)
EXTENDS SemanticCache

CONSTANTS
  Requests, Workers,
  Scenarios,    \* what may be asked: [hosted, want, on], chosen by Init
  MaxPending,   \* SEMCACHE_MAX_PENDING
  MaxPieces,    \* bound: pieces of text in a stream
  MaxCancels    \* bound: handlers cancelled

Bars == {"unmarked", "class", "redacted", "injection", "shape"}
Kinds == [team : Teams, scope : Scopes, question : Questions,
          stream : {"no", "whole", "native"}, bars : SUBSET Bars]

ASSUME ProxyAssumption ==
  /\ Workers \cup {"shared"} \subseteq STRING /\ "shared" \notin Workers
  /\ \A s \in Scenarios : \E rs \in SUBSET Requests :
       s \in [hosted : BOOLEAN, want : [rs -> Kinds], on : [rs -> Workers]]
  /\ MaxPending \in Nat \ {0} /\ MaxPieces \in Nat /\ MaxCancels \in Nat
  /\ IsFiniteSet(Requests) /\ IsFiniteSet(Workers) /\ "none" \notin Requests

VARIABLES
  ask,        \* the scenario
  at,         \* [Requests -> where the handler is]
  thread,     \* [Requests -> the worker thread's job the handler waits or waited for]
  caching,    \* [Requests -> the handler's `semcache` is not None]
  hit,        \* [Requests -> the entry found, or 0]
  lock,       \* [Workers -> the request whose store holds the hosted cache's lock, or None]
  entries,    \* the cache's entries, in the order of their ids
  embedding,  \* [Workers -> ServerState.embedding]
  task,       \* [Requests -> the call's asyncio task]
  tasks,      \* ServerState.tasks: the tasks whose done callbacks have not run
  row,        \* [Requests -> its ledger row]
  answer,     \* [Requests -> the host's answer: "whole", or "cut" off or without text]
  queue,      \* [Requests -> the stream's asyncio.Queue]
  handed,     \* [Requests -> pieces of text the host has sent]
  held,       \* [Requests -> text the StreamRehydrator holds back]
  got,        \* [Requests -> text the client has been sent]
  reply,      \* [Requests -> what else the client has been sent]
  reported,   \* requests whose completed row ServerState.sealed has been called for
  server      \* "open", "closing", "closed"

handlerVars == <<at, caching, reply>>
cacheVars   == <<thread, hit, lock, entries, embedding>>
callVars    == <<task, tasks, row, answer>>
streamVars  == <<queue, handed, held, got>>
vars == <<ask, handlerVars, cacheVars, callVars, streamVars, reported, server>>

None == "none"
End  == 0                      \* the None put on the queue by the task's callback
Job(what, state) == [what |-> what, state |-> state]
NoJob == Job(None, "done")
Whats == {"exact", "embed", "lookup", "record", "store"}

Asked    == DOMAIN ask.want
Kind(r)  == ask.want[r]
On(r)    == ask.on[r]
KeyOf(r) == [shelf |-> IF ask.hosted THEN "shared" ELSE On(r), team |-> Kind(r).team,
             scope |-> Kind(r).scope, question |-> Kind(r).question]
Redacted(r) == "redacted" \in Kind(r).bars
Text(n)     == [i \in 1 .. n |-> i]

Init ==
  /\ ask \in Scenarios
  /\ at = [r \in Requests |-> "new"] /\ thread = [r \in Requests |-> NoJob]
  /\ caching = [r \in Requests |-> FALSE] /\ hit = [r \in Requests |-> 0]
  /\ lock = [w \in Workers |-> None] /\ entries = <<>>
  /\ embedding = [w \in Workers |-> 0]
  /\ task = [r \in Requests |-> None] /\ tasks = {} /\ row = [r \in Requests |-> None]
  /\ answer = [r \in Requests |-> None]
  /\ queue = [r \in Requests |-> <<>>] /\ handed = [r \in Requests |-> 0]
  /\ held = [r \in Requests |-> <<>>] /\ got = [r \in Requests |-> <<>>]
  /\ reply = [r \in Requests |-> None]
  /\ reported = {} /\ server = "open"

-----------------------------------------------------------------------------
(* The handler, from the request to the call or the cached answer.         *)

Answer(r, what) ==
  /\ at' = [at EXCEPT ![r] = "answered"]
  /\ reply' = [reply EXCEPT ![r] = what]

\* The handler submits a job and awaits it: an embedding to its worker's pool, anything
\* else to the default executor, which has a thread for it.
Await(r, what) ==
  /\ at' = [at EXCEPT ![r] = what]
  /\ thread' = [thread EXCEPT ![r] = Job(what, IF what = "embed" THEN "queued" ELSE "running")]

\* call.plain, stream_whole or stream_native: the task is made and kept in state.tasks, and
\* begins its row.
Dispatch(r) ==
  /\ row' = [row EXCEPT ![r] = "in_flight"]
  /\ task' = [task EXCEPT ![r] = "running"] /\ tasks' = tasks \cup {r}
  /\ at' = [at EXCEPT ![r] = IF Kind(r).stream = "native" THEN "first" ELSE "call"]

\* _semcache
Eligible(r) == Kind(r).bars = {} /\ Kind(r).stream = "no"

\* No key, a body that does not parse, a quota, an unknown model, a team's limits.
Refuse(r) ==
  /\ at[r] = "new" /\ server = "open"
  /\ Answer(r, "status")
  /\ UNCHANGED <<ask, caching, cacheVars, callVars, streamVars, reported, server>>

\* The screen blocks or the guard will not vouch: a refusal on the ledger, and its seal.
Block(r) ==
  /\ at[r] = "new" /\ server = "open"
  /\ Kind(r).bars \cap {"injection", "redacted"} # {}
  /\ row' = [row EXCEPT ![r] = "complete"]
  /\ reported' = reported \cup {r}
  /\ Answer(r, "status")
  /\ UNCHANGED <<ask, caching, cacheVars, task, tasks, answer, streamVars, server>>

Admit(r) ==
  /\ at[r] = "new" /\ server = "open"
  /\ caching' = [caching EXCEPT ![r] = Eligible(r)]
  /\ \/ Eligible(r) /\ Await(r, "exact") /\ UNCHANGED <<task, tasks, row>>
     \/ ~Eligible(r) /\ Dispatch(r) /\ UNCHANGED thread
  /\ UNCHANGED <<ask, reply, hit, lock, entries, embedding, answer, streamVars, reported,
                 server>>

Resumes(r, what) == at[r] = what /\ thread[r] = Job(what, "done")

\* A hit by fingerprint is recorded.  A miss is embedded if embed_budget allows it, which
\* a late event loop forbids; otherwise the call is made without the cache.
AfterExact(r) ==
  /\ Resumes(r, "exact")
  /\ \/ /\ hit[r] # 0 /\ Await(r, "record")
        /\ UNCHANGED <<caching, embedding, task, tasks, row>>
     \/ /\ hit[r] = 0 /\ embedding[On(r)] < MaxPending
        /\ embedding' = [embedding EXCEPT ![On(r)] = @ + 1]
        /\ Await(r, "embed")
        /\ UNCHANGED <<caching, task, tasks, row>>
     \/ /\ hit[r] = 0      \* too many ahead, or the loop is late at any other time
        /\ caching' = [caching EXCEPT ![r] = FALSE]
        /\ Dispatch(r)
        /\ UNCHANGED <<thread, embedding>>
  /\ UNCHANGED <<ask, reply, hit, lock, entries, answer, streamVars, reported, server>>

AfterEmbed(r) ==
  /\ Resumes(r, "embed")
  /\ embedding' = [embedding EXCEPT ![On(r)] = @ - 1]
  /\ Await(r, "lookup")
  /\ UNCHANGED <<ask, caching, reply, hit, lock, entries, callVars, streamVars, reported, server>>

AfterLookup(r) ==
  /\ Resumes(r, "lookup")
  /\ \/ hit[r] # 0 /\ Await(r, "record") /\ UNCHANGED <<task, tasks, row>>
     \/ hit[r] = 0 /\ Dispatch(r) /\ UNCHANGED thread
  /\ UNCHANGED <<ask, caching, reply, hit, lock, entries, embedding, answer, streamVars,
                 reported, server>>

\* Mutant of AfterRecord: a hit's row is not reported.
AfterRecordUnsealed(r) ==
  /\ Resumes(r, "record")
  /\ Answer(r, "hit")
  /\ UNCHANGED <<ask, caching, cacheVars, callVars, streamVars, reported, server>>

\* The hit's row is written; it is reported, and the stored answer sent.
AfterRecord(r) ==
  /\ Resumes(r, "record")
  /\ reported' = reported \cup {r}
  /\ Answer(r, "hit")
  /\ UNCHANGED <<ask, caching, cacheVars, callVars, streamVars, server>>

\* A whole answer of a request the cache was asked for is stored before it is sent.
Storable(r) == caching[r] /\ answer[r] = "whole"

\* A whole answer: a body, or a stream of one event for a client that asked for a stream.
AnswerWhole(r) == task[r] = "ok" /\ ~Storable(r) /\ Answer(r, "whole")

\* The end of the shielded wait.
AfterCall(r) ==
  /\ at[r] = "call" /\ r \notin tasks
  /\ \/ task[r] # "ok" /\ Answer(r, "status") /\ UNCHANGED thread
     \/ task[r] = "ok" /\ Storable(r) /\ Await(r, "store") /\ UNCHANGED reply
     \/ AnswerWhole(r) /\ UNCHANGED thread
  /\ UNCHANGED <<ask, caching, hit, lock, entries, embedding, callVars, streamVars, reported, server>>

-----------------------------------------------------------------------------
(* Worker threads.  Embeddings run in a pool of MaxPending threads of      *)
(* their worker, everything else in the default executor.                  *)

Embedding(w) == {r \in Asked : On(r) = w /\ thread[r] = Job("embed", "running")}

ThreadStarts(r) ==
  /\ thread[r].state = "queued" /\ Cardinality(Embedding(On(r))) < MaxPending
  /\ thread' = [thread EXCEPT ![r].state = "running"]
  /\ UNCHANGED <<ask, handlerVars, hit, lock, entries, embedding, callVars, streamVars,
                 reported, server>>

Works(r, what) ==
  /\ thread[r] = Job(what, "running")
  /\ thread' = [thread EXCEPT ![r].state = "done"]

LockFree(r) == lock[On(r)] = None

Search(r) ==
  /\ \/ Works(r, "exact") /\ LockFree(r) /\ hit' = [hit EXCEPT ![r] = Exact(entries, KeyOf(r))]
     \/ /\ Works(r, "lookup") /\ LockFree(r)
        /\ \E i \in Lookups(entries, KeyOf(r), ask.hosted) : hit' = [hit EXCEPT ![r] = i]
  /\ UNCHANGED <<ask, handlerVars, lock, entries, embedding, callVars, streamVars,
                 reported, server>>

Embed(r) ==
  /\ Works(r, "embed")
  /\ UNCHANGED <<ask, handlerVars, hit, lock, entries, embedding, callVars, streamVars,
                 reported, server>>

\* Gateway.record_cache_hit: a row complete from the start.
Record(r) ==
  /\ Works(r, "record")
  /\ row' = [row EXCEPT ![r] = "complete"]
  /\ UNCHANGED <<ask, handlerVars, hit, lock, entries, embedding, task, tasks, answer, streamVars,
                 reported, server>>

\* store: the count and the insert, two statements in the hosted cache, under the lock of
\* this worker only.
StoreCount(r) ==
  /\ thread[r] = Job("store", "running") /\ LockFree(r) /\ ask.hosted
  /\ IF Full(entries, KeyOf(r))
     THEN thread' = [thread EXCEPT ![r].state = "done"] /\ UNCHANGED lock
     ELSE lock' = [lock EXCEPT ![On(r)] = r] /\ UNCHANGED thread
  /\ UNCHANGED <<ask, handlerVars, hit, entries, embedding, callVars, streamVars, reported, server>>

StoreInsert(r) ==
  /\ Works(r, "store") /\ lock[On(r)] = r
  /\ lock' = [lock EXCEPT ![On(r)] = None]
  /\ entries' = Kept(entries, KeyOf(r), r)
  /\ UNCHANGED <<ask, handlerVars, hit, embedding, callVars, streamVars, reported, server>>

StoreInMemory(r) ==
  /\ Works(r, "store") /\ ~ask.hosted
  /\ entries' = IF Full(entries, KeyOf(r)) THEN entries ELSE Kept(entries, KeyOf(r), r)
  /\ UNCHANGED <<ask, handlerVars, hit, lock, embedding, callVars, streamVars, reported, server>>

AfterStore(r) ==
  /\ Resumes(r, "store")
  /\ Answer(r, "whole")
  /\ UNCHANGED <<ask, caching, cacheVars, callVars, streamVars, reported, server>>

-----------------------------------------------------------------------------
(* The task: Gateway.achat or achat_stream, from its row to its end.       *)

\* on_text
HandText(r) ==
  /\ task[r] = "running" /\ Kind(r).stream = "native"
  /\ handed[r] < MaxPieces
  /\ handed' = [handed EXCEPT ![r] = @ + 1]
  /\ queue' = [queue EXCEPT ![r] = Append(@, handed'[r])]
  /\ UNCHANGED <<ask, handlerVars, cacheVars, callVars, held, got, reported, server>>

\* An answer, or an error refusal_for has a status for, after the row is complete; or any
\* other error, which leaves the row as it is.
TaskEnds(r) ==
  /\ task[r] = "running"
  /\ \/ /\ task' = [task EXCEPT ![r] = "ok"]
        /\ row' = [row EXCEPT ![r] = "complete"]
        /\ \E what \in {"whole", "cut"} : answer' = [answer EXCEPT ![r] = what]
     \/ /\ task' = [task EXCEPT ![r] = "failed"]
        /\ row' = [row EXCEPT ![r] = "complete"]
        /\ UNCHANGED answer
     \/ task' = [task EXCEPT ![r] = "escaped"] /\ UNCHANGED <<row, answer>>
  /\ UNCHANGED <<ask, handlerVars, cacheVars, tasks, streamVars, reported, server>>

\* Mutant of Callbacks: a call that failed does not end its queue.
CallbacksSilent(r) ==
  /\ r \in tasks /\ task[r] # "running"
  /\ tasks' = tasks \ {r}
  /\ reported' = IF row[r] = "complete" THEN reported \cup {r} ELSE reported
  /\ queue' = IF task[r] = "ok" THEN [queue EXCEPT ![r] = Append(@, End)] ELSE queue
  /\ UNCHANGED <<ask, handlerVars, cacheVars, task, row, answer, handed, held, got, server>>

\* The done callbacks, in the order they were added: out of state.tasks, sealed, and the
\* end of the stream's queue.
Callbacks(r) ==
  /\ r \in tasks /\ task[r] # "running"
  /\ tasks' = tasks \ {r}
  /\ reported' = IF row[r] = "complete" THEN reported \cup {r} ELSE reported
  /\ queue' = IF Kind(r).stream = "native" THEN [queue EXCEPT ![r] = Append(@, End)] ELSE queue
  /\ UNCHANGED <<ask, handlerVars, cacheVars, task, row, answer, handed, held, got, server>>

-----------------------------------------------------------------------------
(* stream_native                                                           *)

\* Nothing is sent before the first piece or the end: a failure by then is a status.
FirstPiece(r) ==
  /\ at[r] = "first" /\ queue[r] # <<>>
  /\ \/ Head(queue[r]) = End /\ task[r] # "ok" /\ Answer(r, "status")
     \/ /\ ~(Head(queue[r]) = End /\ task[r] # "ok")
        /\ at' = [at EXCEPT ![r] = "stream"]
        /\ UNCHANGED reply
  /\ UNCHANGED <<ask, caching, cacheVars, callVars, streamVars, reported, server>>

\* One piece through the rehydrator of a redacted request, which holds back what may be
\* part of a placeholder; any other request's piece is sent as it is.
Relay(r) ==
  /\ at[r] = "stream" /\ queue[r] # <<>> /\ Head(queue[r]) # End
  /\ LET buffered == Append(held[r], Head(queue[r]))
     IN  \E n \in 0 .. Len(buffered) :
           /\ ~Redacted(r) => n = Len(buffered)
           /\ got' = [got EXCEPT ![r] = @ \o SubSeq(buffered, 1, n)]
           /\ held' = [held EXCEPT ![r] = SubSeq(buffered, n + 1, Len(buffered))]
  /\ queue' = [queue EXCEPT ![r] = Tail(@)]
  /\ UNCHANGED <<ask, handlerVars, cacheVars, callVars, handed, reported, server>>

\* Mutant of EndStream: what the rehydrator holds is lost.
EndStreamUnflushed(r) ==
  /\ at[r] = "stream" /\ queue[r] # <<>> /\ Head(queue[r]) = End
  /\ queue' = [queue EXCEPT ![r] = Tail(@)]
  /\ Answer(r, IF task[r] = "ok" THEN "done" ELSE "error")
  /\ UNCHANGED <<ask, caching, cacheVars, callVars, handed, held, got, reported, server>>

\* The rest of the rehydrator, then [DONE], an error event, or a connection that breaks
\* because refusal_for raises an error it does not know again.
EndStream(r) ==
  /\ at[r] = "stream" /\ queue[r] # <<>> /\ Head(queue[r]) = End
  /\ got' = [got EXCEPT ![r] = @ \o held[r]]
  /\ held' = [held EXCEPT ![r] = <<>>]
  /\ queue' = [queue EXCEPT ![r] = Tail(@)]
  /\ Answer(r, CASE task[r] = "ok" -> "done" [] task[r] = "failed" -> "error"
                  [] OTHER -> "broken")
  /\ UNCHANGED <<ask, caching, cacheVars, callVars, handed, reported, server>>

-----------------------------------------------------------------------------
(* A client that goes away, and shutdown.                                  *)

Handling == {"exact", "embed", "lookup", "record", "store", "call", "first", "stream"}

\* The handler is cancelled at whatever it awaits: a job that has not started is withdrawn,
\* one that runs runs on, and so does the call, which the wait is shielded from.
Cancel(r) ==
  /\ at[r] \in Handling /\ Cardinality({q \in Asked : at[q] = "gone"}) < MaxCancels
  /\ at' = [at EXCEPT ![r] = "gone"]
  /\ embedding' = [embedding EXCEPT ![On(r)] = IF at[r] = "embed" THEN @ - 1 ELSE @]
  /\ thread' = [thread EXCEPT ![r] = IF @.state = "queued" THEN NoJob ELSE @]
  /\ UNCHANGED <<ask, caching, reply, hit, lock, entries, callVars, streamVars, reported, server>>

\* ServerState.close, once no request is being handled: the calls in flight are awaited ...
Shutdown ==
  /\ server = "open" /\ \A r \in Requests : at[r] \notin Handling
  /\ server' = "closing"
  /\ UNCHANGED <<ask, handlerVars, cacheVars, callVars, streamVars, reported>>

\* Mutant of Close: the calls in flight are not awaited.
CloseAtOnce ==
  /\ server = "closing"
  /\ reported' = reported \cup {r \in Requests : row[r] = "complete"}
  /\ server' = "closed"
  /\ UNCHANGED <<ask, handlerVars, cacheVars, callVars, streamVars>>

\* ... and what they left is sealed before the chain is closed.
Close ==
  /\ server = "closing" /\ tasks = {}
  /\ reported' = reported \cup {r \in Requests : row[r] = "complete"}
  /\ server' = "closed"
  /\ UNCHANGED <<ask, handlerVars, cacheVars, callVars, streamVars>>

-----------------------------------------------------------------------------
Handler(r) ==
  \/ AfterExact(r) \/ AfterEmbed(r) \/ AfterLookup(r) \/ AfterRecord(r) \/ AfterCall(r)
  \/ AfterStore(r) \/ FirstPiece(r) \/ Relay(r) \/ EndStream(r)
Thread(r) ==
  \/ ThreadStarts(r) \/ Search(r) \/ Embed(r) \/ Record(r)
  \/ StoreCount(r) \/ StoreInsert(r) \/ StoreInMemory(r)
Call(r) == TaskEnds(r) \/ Callbacks(r)

Next ==
  \/ \E r \in Asked : Refuse(r) \/ Block(r) \/ Admit(r) \/ Cancel(r)
  \/ \E r \in Asked : Handler(r) \/ Thread(r) \/ Call(r) \/ HandText(r)
  \/ Shutdown \/ Close

\* The event loop runs what is ready, threads finish, and a call ends, at the latest by its
\* transport's timeouts.  Requests, disconnects and shutdown come when they come.
Fairness ==
  /\ \A r \in Requests : WF_vars(Handler(r)) /\ WF_vars(Thread(r)) /\ WF_vars(Call(r))
  /\ WF_vars(Close)

Spec == Init /\ [][Next]_vars /\ Fairness

-----------------------------------------------------------------------------
TypeOK ==
  /\ ask \in Scenarios
  /\ at \in [Requests -> {"new", "answered", "gone"} \cup Handling]
  /\ thread \in [Requests -> [what : Whats \cup {None}, state : {"queued", "running", "done"}]]
  /\ caching \in [Requests -> BOOLEAN]
  /\ hit \in [Requests -> 0 .. Len(entries)]
  /\ lock \in [Workers -> Requests \cup {None}]
  /\ \A i \in DOMAIN entries : entries[i].from \in Requests /\ entries[i].key \in Key
  /\ embedding \in [Workers -> 0 .. MaxPending]
  /\ task \in [Requests -> {None, "running", "ok", "failed", "escaped"}]
  /\ tasks \subseteq Requests /\ reported \subseteq Requests
  /\ row \in [Requests -> {None, "in_flight", "complete"}]
  /\ answer \in [Requests -> {None, "whole", "cut"}]
  /\ handed \in [Requests -> 0 .. MaxPieces]
  /\ \A r \in Requests : {queue[r], held[r], got[r]} \subseteq Seq(0 .. MaxPieces)
  /\ reply \in [Requests -> {None, "status", "hit", "whole", "done", "error", "broken"}]
  /\ server \in {"open", "closing", "closed"}

\* What a client is streamed is what the host sent, in order and from the start, whatever
\* the rehydrator held back; [DONE] says that all of it was sent and the call succeeded, an
\* error event that all of it was sent and the call failed; and a failure is a status only
\* if nothing was sent (stream_native).
StreamIsFaithful ==
  \A r \in Asked : Kind(r).stream = "native" =>
    /\ got[r] = Text(Len(got[r])) /\ Len(got[r]) <= handed[r]
    /\ reply[r] = "done" => task[r] = "ok" /\ got[r] = Text(handed[r])
    /\ reply[r] = "error" => task[r] = "failed" /\ got[r] = Text(handed[r])
    /\ reply[r] = "status" => task[r] # "ok" /\ handed[r] = 0 /\ got[r] = <<>>

\* An answer out of the cache is a whole answer to a question as near as the threshold, in
\* the same scope of the same team, and neither it nor the request it is given to was
\* redacted, flagged, of a class that is not cached, unmarked or a stream (_semcache).
CacheServesOwn ==
  \A r \in Requests : reply[r] = "hit" =>
    LET from == entries[hit[r]].from
    IN  /\ Kind(from).team = Kind(r).team /\ Kind(from).scope = Kind(r).scope
        /\ Similarity[Kind(r).question, Kind(from).question] >= Threshold
        /\ ~ask.hosted => On(from) = On(r)
        /\ answer[from] = "whole"
        /\ \A q \in {r, from} : Kind(q).bars = {} /\ Kind(q).stream = "no"

\* A team's cache holds at most max_entries in memory.  In the hosted table each worker may
\* add one more, since its count and its insert are two statements.
CacheBounded ==
  \A w \in Workers, t \in Teams :
    IF ask.hosted THEN Size(entries, "shared", t) <= MaxEntries + Cardinality(Workers) - 1
                  ELSE Size(entries, w, t) <= MaxEntries

\* ServerState.embedding counts the handlers that wait for an embedding, through every
\* cancellation; with those a client walked away from, which run on, a worker holds no more
\* than twice SEMCACHE_MAX_PENDING.
EmbeddingsBounded ==
  \A w \in Workers :
    /\ embedding[w] = Cardinality({r \in Asked : On(r) = w /\ at[r] = "embed"})
    /\ Cardinality({r \in Asked : /\ On(r) = w /\ thread[r].what = "embed"
                                     /\ thread[r].state # "done"}) <= 2 * MaxPending

CachesHold == TypeOK /\ CacheServesOwn /\ CacheBounded /\ EmbeddingsBounded

\* A client that has its answer has its row reported for sealing: the done callbacks and the
\* cache hit's own call of sealed come before the answer, on every path.
AnsweredIsReported ==
  \A r \in Requests : at[r] = "answered" /\ row[r] = "complete" => r \in reported

\* When the proxy has closed, no call runs, and every row that was completed before is
\* reported.  A row in flight is one whose call ended in an error nobody expected.
ClosedIsSettled ==
  server = "closed" =>
    \A r \in Requests :
      /\ task[r] # "running"
      /\ row[r] = "in_flight" => task[r] = "escaped"
      /\ task[r] # None /\ row[r] = "complete" => r \in reported

ReportedInTime == AnsweredIsReported /\ ClosedIsSettled

\* A client that stays is answered, whatever ends the call: every path out of the task ends
\* its queue or wakes the shielded wait, and every job its handler.
EveryClientAnswered ==
  \A r \in Requests : at[r] \in Handling ~> at[r] \in {"answered", "gone"}

\* A call runs on to its end whatever its client does, and its completed row is reported.
EveryCallIsReported ==
  \A r \in Requests : task[r] = "running" ~> (r \in reported \/ task[r] = "escaped")

EveryWaitEnds == EveryClientAnswered /\ EveryCallIsReported
=============================================================================
