--------------------------- MODULE ProxyCallProofs ---------------------------
(***************************************************************************)
(* Theorems about ProxyCall for every number of requests and workers,      *)
(* every length of stream and every cache.  A request's own state is what  *)
(* its handler, its thread, its task and its queue agree on (CallInv,      *)
(* StreamInv); the requests of a worker meet in the cache's entries, its   *)
(* lock and the count of embeddings (CacheInv, CountInv).                  *)
(***************************************************************************)
EXTENDS ProxyCall, SetTheorems, SequenceTheorems, TLAPS

Searching == {"exact", "embed", "lookup"}

\* Where the handler and its thread are, against the call and its row.
CallInv(r) ==
  /\ at[r] = "new" => thread[r] = NoJob /\ ~caching[r] /\ row[r] = None
  /\ at[r] \in {"new", "record"} \cup Searching => task[r] = None
  /\ at[r] \in {"call", "first", "stream", "store"} => task[r] # None
  /\ at[r] \in Whats => thread[r].what = at[r]
  /\ at[r] \notin Whats \cup {"gone"} => thread[r].state = "done"
  /\ thread[r].state = "queued" => at[r] = "embed"
  /\ thread[r].what = None => thread[r].state = "done"
  /\ thread[r].what \in {"record"} \cup Searching /\ thread[r].state # "done" => task[r] = None
  /\ thread[r].what = "store" => task[r] = "ok" /\ answer[r] = "whole"
  /\ at[r] \in Whats \/ caching[r] \/ thread[r].what # None => r \in Asked /\ Eligible(r)
  /\ at[r] = "record" => hit[r] # 0
  /\ task[r] = None => r \notin tasks
  /\ task[r] = "running" => r \in tasks
  /\ task[r] \in {"running", "escaped"} => row[r] = "in_flight"
  /\ task[r] \in {"ok", "failed"} => row[r] = "complete"
  /\ row[r] = "in_flight" => task[r] # None
  /\ task[r] # None /\ r \notin tasks /\ row[r] = "complete" => r \in reported
  /\ answer[r] # None => task[r] = "ok"
  /\ at[r] \in {"answered", "store"} => r \notin tasks /\ (row[r] = "complete" => r \in reported)
  /\ reply[r] # None => at[r] = "answered"
  /\ reply[r] = "hit" => hit[r] # 0 /\ r \in Asked /\ Eligible(r)
  /\ server # "open" => at[r] \notin Handling
  /\ server = "closed" => r \notin tasks

\* What the host has handed over is what the client has, what the rehydrator holds back and
\* what is in the queue, in that order; the end is behind it, once the call is over.
InQueue(r) == handed[r] - Len(got[r]) - Len(held[r])

StreamInv(r) ==
  /\ got[r] = Text(Len(got[r]))
  /\ \A i \in 1 .. Len(held[r]) : held[r][i] = Len(got[r]) + i
  /\ InQueue(r) \in Nat /\ Len(queue[r]) \in {InQueue(r), InQueue(r) + 1}
  /\ \A i \in 1 .. InQueue(r) : queue[r][i] = Len(got[r]) + Len(held[r]) + i
  /\ Len(queue[r]) = InQueue(r) + 1 =>
       queue[r][Len(queue[r])] = End /\ r \notin tasks /\ task[r] # None
  /\ task[r] = None => handed[r] = 0
  /\ at[r] \in {"first", "stream"} => r \in Asked /\ Kind(r).stream = "native"
  /\ at[r] \notin {"stream", "answered", "gone"} => got[r] = <<>> /\ held[r] = <<>>
  /\ reply[r] # None => at[r] = "answered" /\ r \notin tasks
  /\ r \in Asked /\ Kind(r).stream = "native" =>
       /\ at[r] \in {"new", "first", "stream", "answered", "gone"}
       /\ reply[r] \in {"done", "error"} => got[r] = Text(handed[r])
       /\ reply[r] = "done" => task[r] = "ok"
       /\ reply[r] = "error" => task[r] = "failed"
       /\ reply[r] = "status" => task[r] # "ok" /\ handed[r] = 0 /\ got[r] = <<>>

\* Every entry is a whole answer to a request that may be cached, under that request's key.
EntriesInv ==
  \A i \in DOMAIN entries :
    /\ entries[i].from \in Asked /\ entries[i].key = KeyOf(entries[i].from)
    /\ answer[entries[i].from] = "whole" /\ Eligible(entries[i].from)

\* What was found is in scope and near enough.
HitInv(r) ==
  hit[r] # 0 =>
    /\ hit[r] \in DOMAIN entries /\ hit[r] \in InScope(entries, KeyOf(r))
    /\ Near(entries, KeyOf(r), hit[r]) >= Threshold

\* The workers that have counted and will insert into the hosted table.
Inserting(team) == {w \in Workers : lock[w] # None /\ Kind(lock[w]).team = team}

LockInv ==
  /\ \A w \in Workers : lock[w] # None => lock[w] \in Asked /\ ask.hosted
  /\ Workers # {} => \A t \in Teams :
       IF ask.hosted
       THEN Size(entries, "shared", t) + Cardinality(Inserting(t)) <= MaxEntries + Cardinality(Workers) - 1
       ELSE \A w \in Workers : Size(entries, w, t) <= MaxEntries

CacheInv == EntriesInv /\ LockInv /\ \A r \in Asked : HitInv(r)

\* The handlers that wait for an embedding, and those that one is made for.
Waiting(w) == {r \in Asked : On(r) = w /\ at[r] = "embed"}

CountInv ==
  \A w \in Workers :
    /\ embedding[w] = Cardinality(Waiting(w)) /\ embedding[w] <= MaxPending
    /\ Cardinality(Embedding(w)) <= MaxPending

\* TypeOK, but for the count of embeddings, which is CountInv's.
Types ==
  /\ ask \in Scenarios
  /\ at \in [Requests -> {"new", "answered", "gone"} \cup Handling]
  /\ thread \in [Requests -> [what : Whats \cup {None}, state : {"queued", "running", "done"}]]
  /\ caching \in [Requests -> BOOLEAN]
  /\ hit \in [Requests -> 0 .. Len(entries)]
  /\ lock \in [Workers -> Requests \cup {None}]
  /\ entries \in Seq([key : Key, from : Requests])
  /\ embedding \in [Workers -> Int]
  /\ task \in [Requests -> {None, "running", "ok", "failed", "escaped"}]
  /\ tasks \subseteq Requests /\ reported \subseteq Requests
  /\ row \in [Requests -> {None, "in_flight", "complete"}]
  /\ answer \in [Requests -> {None, "whole", "cut"}]
  /\ handed \in [Requests -> 0 .. MaxPieces]
  /\ queue \in [Requests -> Seq(0 .. MaxPieces)]
  /\ held \in [Requests -> Seq(0 .. MaxPieces)] /\ got \in [Requests -> Seq(0 .. MaxPieces)]
  /\ reply \in [Requests -> {None, "status", "hit", "whole", "done", "error", "broken"}]
  /\ server \in {"open", "closing", "closed"}

IInv ==
  /\ Types /\ \A r \in Requests : CallInv(r) /\ StreamInv(r)
  /\ CacheInv /\ CountInv

-----------------------------------------------------------------------------
(* Types.                                                                  *)

\* What is asked, and of which worker.
LEMMA Asking ==
  ASSUME ask \in Scenarios
  PROVE  /\ Asked \subseteq Requests /\ ask.hosted \in BOOLEAN
         /\ \A r \in Asked : Kind(r) \in Kinds /\ On(r) \in Workers
<1>1. PICK rs \in SUBSET Requests :
        ask \in [hosted : BOOLEAN, want : [rs -> Kinds], on : [rs -> Workers]]
  BY ProxyAssumption
<1>2. ask.want \in [rs -> Kinds] /\ ask.on \in [rs -> Workers] /\ ask.hosted \in BOOLEAN
  BY <1>1
<1>. QED
  BY <1>2 DEF Asked, Kind, On

\* What the assumptions say of the bounds and the sets.
LEMMA Numbers ==
  /\ MaxPending \in Nat \ {0} /\ MaxPieces \in Nat /\ MaxEntries \in Nat
  /\ IsFiniteSet(Requests) /\ IsFiniteSet(Workers) /\ None \notin Requests
BY ProxyAssumption, CacheAssumption DEF None

\* A request's key, by its fields.
LEMMA KeyTyped ==
  ASSUME ask \in Scenarios, NEW r \in Asked
  PROVE  /\ KeyOf(r) \in Key /\ KeyOf(r).team = Kind(r).team /\ KeyOf(r).scope = Kind(r).scope
         /\ KeyOf(r).question = Kind(r).question
         /\ KeyOf(r).shelf = IF ask.hosted THEN "shared" ELSE On(r)
<1>1. Kind(r) \in Kinds /\ On(r) \in STRING
  BY Asking, ProxyAssumption
<1>. DEFINE shelf == IF ask.hosted THEN "shared" ELSE On(r)
<1>2. Kind(r).team \in Teams /\ Kind(r).scope \in Scopes /\ Kind(r).question \in Questions
  BY <1>1 DEF Kinds
<1>3. shelf \in STRING
  <2>1. "shared" \in STRING
    BY ProxyAssumption
  <2>. QED
    BY <1>1, <2>1
<1>. HIDE DEF shelf
<1>4. KeyOf(r) = [shelf |-> shelf, team |-> Kind(r).team, scope |-> Kind(r).scope,
                  question |-> Kind(r).question]
  BY DEF KeyOf, shelf
<1>5. /\ KeyOf(r) \in Key /\ KeyOf(r).team = Kind(r).team /\ KeyOf(r).scope = Kind(r).scope
      /\ KeyOf(r).question = Kind(r).question /\ KeyOf(r).shelf = shelf
  BY <1>2, <1>3, <1>4 DEF Key
<1>. QED
  BY <1>5 DEF shelf

Places == {"new", "answered", "gone"} \cup Handling
Jobs   == [what : Whats \cup {None}, state : {"queued", "running", "done"}]

\* What the parts of an action leave.
LEMMA AwaitTypes ==
  ASSUME Types, NEW r \in Requests, NEW what \in Whats, Await(r, what)
  PROVE  /\ at' \in [Requests -> Places] /\ thread' \in [Requests -> Jobs]
         /\ at'[r] = what /\ thread'[r].what = what
         /\ thread'[r].state = (IF what = "embed" THEN "queued" ELSE "running")
         /\ \A x \in Requests \ {r} : at'[x] = at[x] /\ thread'[x] = thread[x]
<1>. DEFINE job == Job(what, IF what = "embed" THEN "queued" ELSE "running")
<1>1. /\ job \in Jobs /\ job.what = what
      /\ job.state = (IF what = "embed" THEN "queued" ELSE "running")
  BY DEF Job, Jobs
<1>2. at' = [at EXCEPT ![r] = what] /\ thread' = [thread EXCEPT ![r] = job]
  BY DEF Await
<1>3. at \in [Requests -> Places] /\ thread \in [Requests -> Jobs] /\ what \in Places
  BY DEF Types, Places, Jobs, Whats, Handling
<1>. HIDE DEF job
<1>. QED
  BY <1>1, <1>2, <1>3

\* A call is made: its row is in flight and its task running.
LEMMA DispatchTypes ==
  ASSUME Types, NEW r \in Asked, r \in Requests, Dispatch(r)
  PROVE  /\ at' \in [Requests -> Places] /\ tasks' = tasks \cup {r} /\ tasks' \subseteq Requests
         /\ task' \in [Requests -> {None, "running", "ok", "failed", "escaped"}]
         /\ row' \in [Requests -> {None, "in_flight", "complete"}]
         /\ at'[r] = (IF Kind(r).stream = "native" THEN "first" ELSE "call")
         /\ task'[r] = "running" /\ row'[r] = "in_flight"
         /\ \A x \in Requests \ {r} :
              /\ at'[x] = at[x] /\ task'[x] = task[x] /\ row'[x] = row[x] /\ (x \in tasks' <=> x \in tasks)
BY DEF Types, Dispatch, Places, Handling

\* A client is answered.
LEMMA AnswerTypes ==
  ASSUME Types, NEW r \in Requests, NEW what \in {"status", "hit", "whole", "done", "error", "broken"},
         Answer(r, what)
  PROVE  /\ at' \in [Requests -> Places]
         /\ reply' \in [Requests -> {None, "status", "hit", "whole", "done", "error", "broken"}]
         /\ at'[r] = "answered" /\ reply'[r] = what
         /\ \A x \in Requests \ {r} : at'[x] = at[x] /\ reply'[x] = reply[x]
BY DEF Types, Answer, Places

\* What a handler does until it has the answer.
LEMMA HandlerTypes ==
  ASSUME Types, NEW r \in Asked,
         \/ Refuse(r) \/ Block(r) \/ Admit(r) \/ Cancel(r)
         \/ AfterExact(r) \/ AfterEmbed(r) \/ AfterLookup(r) \/ AfterRecord(r)
         \/ AfterCall(r) \/ AfterStore(r)
  PROVE  Types'
<1>1. r \in Requests /\ On(r) \in Workers
  BY Asking DEF Types
<1>2. /\ at \in [Requests -> Places] /\ thread \in [Requests -> Jobs]
      /\ {"exact", "embed", "lookup", "record", "store"} = Whats
  BY DEF Types, Places, Jobs, Whats
<1>3. CASE Refuse(r)
  BY <1>1, <1>3, AnswerTypes DEF Types, Refuse, Places, cacheVars, callVars, streamVars
<1>4. CASE Block(r)
  <2>1. row' \in [Requests -> {None, "in_flight", "complete"}] /\ reported' \subseteq Requests
    BY <1>1, <1>4 DEF Types, Block
  <2>. QED
    BY <1>1, <1>4, <2>1, AnswerTypes DEF Types, Block, Places, cacheVars, streamVars
<1>5. CASE Admit(r)
  <2>1. caching' \in [Requests -> BOOLEAN]
    BY <1>1, <1>5 DEF Types, Admit, Eligible
  <2>2. CASE Await(r, "exact") /\ UNCHANGED <<task, tasks, row>>
    BY <1>1, <1>2, <1>5, <2>1, <2>2, AwaitTypes DEF Types, Admit, Places, Jobs, streamVars
  <2>3. CASE Dispatch(r) /\ UNCHANGED thread
    BY <1>1, <1>5, <2>1, <2>3, DispatchTypes DEF Types, Admit, Places, streamVars
  <2>. QED
    BY <1>5, <2>2, <2>3 DEF Admit
<1>6. CASE Cancel(r)
  <2>1. thread' \in [Requests -> Jobs]
    <3>1. NoJob \in Jobs
      BY DEF NoJob, Job, Jobs
    <3>. QED
      BY <1>1, <1>2, <1>6, <3>1 DEF Cancel
  <2>2. embedding' \in [Workers -> Int] /\ at' \in [Requests -> Places]
    BY <1>1, <1>6 DEF Types, Cancel, Places
  <2>. QED
    BY <1>6, <2>1, <2>2 DEF Types, Cancel, Places, Jobs, callVars, streamVars
<1>7. CASE AfterExact(r)
  <2>1. UNCHANGED <<ask, reply, hit, lock, entries, answer, streamVars, reported, server>>
    BY <1>7 DEF AfterExact
  <2>2. CASE Await(r, "record") /\ UNCHANGED <<caching, embedding, task, tasks, row>>
    BY <1>1, <1>2, <2>1, <2>2, AwaitTypes DEF Types, Places, Jobs, streamVars
  <2>3. CASE /\ embedding' = [embedding EXCEPT ![On(r)] = @ + 1]
             /\ Await(r, "embed") /\ UNCHANGED <<caching, task, tasks, row>>
    <3>1. embedding' \in [Workers -> Int]
      BY <1>1, <2>3 DEF Types
    <3>. QED
      BY <1>1, <1>2, <2>1, <2>3, <3>1, AwaitTypes DEF Types, Places, Jobs, streamVars
  <2>4. CASE /\ caching' = [caching EXCEPT ![r] = FALSE]
             /\ Dispatch(r) /\ UNCHANGED <<thread, embedding>>
    <3>1. caching' \in [Requests -> BOOLEAN]
      BY <1>1, <2>4 DEF Types
    <3>. QED
      BY <1>1, <2>1, <2>4, <3>1, DispatchTypes DEF Types, Places, streamVars
  <2>. QED
    BY <1>7, <2>2, <2>3, <2>4 DEF AfterExact
<1>8. CASE AfterEmbed(r)
  <2>1. Await(r, "lookup") /\ embedding' \in [Workers -> Int]
    BY <1>1, <1>8 DEF Types, AfterEmbed
  <2>. QED
    BY <1>1, <1>2, <1>8, <2>1, AwaitTypes DEF Types, AfterEmbed, Places, Jobs, callVars, streamVars
<1>9. CASE AfterLookup(r)
  <2>1. UNCHANGED <<ask, caching, reply, hit, lock, entries, embedding, answer, streamVars, reported, server>>
    BY <1>9 DEF AfterLookup
  <2>2. CASE Await(r, "record") /\ UNCHANGED <<task, tasks, row>>
    BY <1>1, <1>2, <2>1, <2>2, AwaitTypes DEF Types, Places, Jobs, streamVars
  <2>3. CASE Dispatch(r) /\ UNCHANGED thread
    BY <1>1, <2>1, <2>3, DispatchTypes DEF Types, Places, streamVars
  <2>. QED
    BY <1>9, <2>2, <2>3 DEF AfterLookup
<1>10. CASE AfterRecord(r)
  BY <1>1, <1>10, AnswerTypes DEF Types, AfterRecord, Places, cacheVars, callVars, streamVars
<1>11. CASE AfterCall(r)
  <2>1. UNCHANGED <<ask, caching, hit, lock, entries, embedding, callVars, streamVars, reported, server>>
    BY <1>11 DEF AfterCall
  <2>2. CASE Await(r, "store") /\ UNCHANGED reply
    BY <1>1, <1>2, <2>1, <2>2, AwaitTypes DEF Types, Places, Jobs, callVars, streamVars
  <2>3. ASSUME NEW what \in {"status", "whole"}, Answer(r, what), UNCHANGED thread
        PROVE  Types'
    BY <1>1, <2>1, <2>3, AnswerTypes DEF Types, Places, callVars, streamVars
  <2>. QED
    BY <1>11, <2>2, <2>3 DEF AfterCall, AnswerWhole
<1>12. CASE AfterStore(r)
  BY <1>1, <1>12, AnswerTypes DEF Types, AfterStore, Places, cacheVars, callVars, streamVars
<1>. QED
  BY <1>3, <1>4, <1>5, <1>6, <1>7, <1>8, <1>9, <1>10, <1>11, <1>12

\* What a thread finds is an entry.
LEMMA Found ==
  ASSUME Types, NEW k, NEW i, i = Exact(entries, k) \/ i \in Lookups(entries, k, ask.hosted), i # 0,
         k.question \in Questions
  PROVE  i \in DOMAIN entries /\ i \in InScope(entries, k) /\ Near(entries, k, i) >= Threshold
<1>1. InScope(entries, k) \subseteq DOMAIN entries
  BY DEF InScope
<1>2. CASE i = Exact(entries, k)
  <2>. DEFINE same == {j \in InScope(entries, k) : entries[j].key.question = k.question}
  <2>1. same # {} /\ i = Min(same)
    BY <1>2 DEF Exact
  <2>2. same \in SUBSET Nat
    BY SMTT(30), <1>1 DEF Types
  <2>3. i \in same
    <3>. HIDE DEF same
    <3>. QED
      BY <2>1, <2>2, LeastOf
  <2>4. entries[i].key.question = k.question
    BY <2>3
  <2>5. Near(entries, k, i) = 100
    <3>1. \A q \in Questions : Similarity[q, q] = 100
      BY ONLY CacheAssumption
    <3>2. Near(entries, k, i) = Similarity[k.question, k.question]
      BY ONLY <2>4 DEF Near
    <3>. QED
      BY ONLY <3>1, <3>2, k.question \in Questions
  <2>6. 100 >= Threshold
    <3>1. Threshold \in 1 .. 100
      BY CacheAssumption
    <3>. QED
      BY <3>1
  <2>. QED
    BY <1>1, <2>3, <2>5, <2>6
<1>3. CASE i \in Lookups(entries, k, ask.hosted)
  <2>1. i \in InScope(entries, k) /\ Near(entries, k, i) >= Threshold
    BY <1>3 DEF Lookups, Nearest
  <2>. QED
    BY <1>1, <2>1
<1>. QED
  BY <1>2, <1>3

\* What a worker's thread leaves.
LEMMA ThreadTypes ==
  ASSUME Types, NEW r \in Asked, Thread(r)
  PROVE  Types'
<1>1. r \in Requests /\ On(r) \in Workers /\ KeyOf(r) \in Key /\ KeyOf(r).question \in Questions
  BY Asking, KeyTyped DEF Types, Key
<1>2. ASSUME thread' = [thread EXCEPT ![r].state = "running"] \/ thread' = [thread EXCEPT ![r].state = "done"]
      PROVE  thread' \in [Requests -> [what : Whats \cup {None}, state : {"queued", "running", "done"}]]
  <2>1. thread[r] \in Jobs /\ thread \in [Requests -> Jobs]
    BY <1>1 DEF Types, Jobs
  <2>2. \A s \in {"running", "done"} : [thread[r] EXCEPT !.state = s] \in Jobs
    BY <2>1 DEF Jobs
  <2>3. thread' \in [Requests -> Jobs]
    BY <1>1, <1>2, <2>1, <2>2
  <2>. QED
    BY <2>3 DEF Jobs
<1>3. CASE ThreadStarts(r)
  <2>1. thread' = [thread EXCEPT ![r].state = "running"]
    BY <1>3 DEF ThreadStarts
  <2>. QED
    BY <1>2, <1>3, <2>1 DEF Types, ThreadStarts, handlerVars, callVars, streamVars
<1>4. CASE Search(r)
  <2>1. PICK i : /\ hit' = [hit EXCEPT ![r] = i]
                 /\ i = Exact(entries, KeyOf(r)) \/ i \in Lookups(entries, KeyOf(r), ask.hosted)
    BY <1>4 DEF Search
  <2>2. i \in 0 .. Len(entries)
    <3>1. CASE i = 0
      BY <3>1 DEF Types
    <3>2. CASE i # 0
      <4>1. i \in DOMAIN entries
        BY <1>1, <2>1, <3>2, Found
      <4>. QED
        BY <4>1 DEF Types
    <3>. QED
      BY <3>1, <3>2
  <2>3. hit' \in [Requests -> 0 .. Len(entries)]
    BY <2>1, <2>2 DEF Types
  <2>4. thread' = [thread EXCEPT ![r].state = "done"]
    BY <1>4 DEF Search, Works
  <2>. QED
    BY <1>2, <1>4, <2>3, <2>4 DEF Types, Search, handlerVars, callVars, streamVars
<1>5. CASE Embed(r)
  <2>1. thread' = [thread EXCEPT ![r].state = "done"]
    BY <1>5 DEF Embed, Works
  <2>. QED
    BY <1>2, <1>5, <2>1 DEF Types, Embed, handlerVars, callVars, streamVars
<1>6. CASE Record(r)
  <2>1. thread' = [thread EXCEPT ![r].state = "done"] /\ row' = [row EXCEPT ![r] = "complete"]
    BY <1>6 DEF Record, Works
  <2>. QED
    BY <1>1, <1>2, <1>6, <2>1 DEF Types, Record, handlerVars, streamVars
<1>7. CASE StoreCount(r)
  <2>1. \/ thread' = [thread EXCEPT ![r].state = "done"] /\ UNCHANGED lock
        \/ lock' = [lock EXCEPT ![On(r)] = r] /\ UNCHANGED thread
    BY <1>7 DEF StoreCount
  <2>. QED
    BY <1>1, <1>2, <1>7, <2>1 DEF Types, StoreCount, handlerVars, callVars, streamVars
<1>8. ASSUME entries' = Kept(entries, KeyOf(r), r)
      PROVE  /\ entries' \in Seq([key : Key, from : Requests]) /\ Len(entries') = Len(entries) + 1
             /\ (hit' = hit => hit' \in [Requests -> 0 .. Len(entries')])
  <2>1. [key |-> KeyOf(r), from |-> r] \in [key : Key, from : Requests]
    BY <1>1
  <2>2. entries' \in Seq([key : Key, from : Requests]) /\ Len(entries') = Len(entries) + 1
    BY <1>8, <2>1 DEF Kept, Types
  <2>3. 0 .. Len(entries) \subseteq 0 .. Len(entries')
    BY <2>2 DEF Types
  <2>. QED
    BY <2>2, <2>3 DEF Types
<1>9. CASE StoreInsert(r)
  <2>1. thread' = [thread EXCEPT ![r].state = "done"] /\ entries' = Kept(entries, KeyOf(r), r) /\ hit' = hit
        /\ lock' = [lock EXCEPT ![On(r)] = None]
    BY <1>9 DEF StoreInsert, Works
  <2>2. lock' \in [Workers -> Requests \cup {None}]
    BY <1>1, <2>1 DEF Types
  <2>. QED
    BY <1>2, <1>8, <1>9, <2>1, <2>2 DEF Types, StoreInsert, handlerVars, callVars, streamVars
<1>10. CASE StoreInMemory(r)
  <2>1. thread' = [thread EXCEPT ![r].state = "done"] /\ hit' = hit
        /\ (entries' = Kept(entries, KeyOf(r), r) \/ entries' = entries)
    BY <1>10 DEF StoreInMemory, Works
  <2>2. /\ entries' \in Seq([key : Key, from : Requests])
        /\ hit' \in [Requests -> 0 .. Len(entries')]
    BY <1>8, <2>1 DEF Types
  <2>. QED
    BY <1>2, <1>10, <2>1, <2>2 DEF Types, StoreInMemory, handlerVars, callVars, streamVars
<1>. QED
  BY <1>3, <1>4, <1>5, <1>6, <1>7, <1>9, <1>10 DEF Thread

\* A piece that is relayed: what is in the queue, held back and sent, before and after.
Relayed(q, h, g, n, q1, h1, g1) ==
  /\ Len(q1) = Len(q) - 1 /\ Len(g1) = Len(g) + n /\ Len(h1) = Len(h) + 1 - n /\ n <= Len(h) + 1
  /\ \A i \in 1 .. Len(q1) : q1[i] = q[i + 1]
  /\ \A i \in 1 .. Len(g) : g1[i] = g[i]
  /\ \A i \in 1 .. n : g1[Len(g) + i] = IF i <= Len(h) THEN h[i] ELSE q[1]
  /\ \A i \in 1 .. Len(h) + 1 - n : h1[i] = IF n + i <= Len(h) THEN h[n + i] ELSE q[1]

\* The rest of a sequence.
LEMMA RestOf ==
  ASSUME NEW S, NEW s \in Seq(S), NEW n \in 0 .. Len(s)
  PROVE  /\ SubSeq(s, n + 1, Len(s)) \in Seq(S) /\ Len(SubSeq(s, n + 1, Len(s))) = Len(s) - n
         /\ \A i \in 1 .. Len(s) - n : SubSeq(s, n + 1, Len(s))[i] = s[n + i]
<1>. DEFINE from == n + 1
            to   == Len(s)
            rest == SubSeq(s, from, to)
<1>1. from \in Int /\ to \in Int /\ \A i \in from .. to : s[i] \in S
  OBVIOUS
<1>2. /\ (IF from <= to THEN to - from + 1 ELSE 0) = Len(s) - n /\ to - from + 1 = Len(s) - n
      /\ \A i \in 1 .. Len(s) - n : from + i - 1 = n + i
  OBVIOUS
<1>. HIDE DEF from, to
<1>3. /\ rest \in Seq(S) /\ Len(rest) = IF from <= to THEN to - from + 1 ELSE 0
      /\ \A i \in 1 .. to - from + 1 : rest[i] = s[from + i - 1]
  BY <1>1, SubSeqProperties
<1>. HIDE DEF rest
<1>4. /\ rest \in Seq(S) /\ Len(rest) = Len(s) - n
      /\ \A i \in 1 .. Len(s) - n : rest[i] = s[n + i]
  BY <1>2, <1>3
<1>. QED
  BY <1>4 DEF rest, from, to

\* The sequences of Relay, for every split of what is buffered.
LEMMA RelaySequences ==
  ASSUME NEW S, NEW q \in Seq(S), q # <<>>, NEW h \in Seq(S), NEW g \in Seq(S),
         NEW buffered, buffered = Append(h, Head(q)), NEW n \in 0 .. Len(buffered),
         NEW q1, q1 = Tail(q), NEW g1, g1 = g \o SubSeq(buffered, 1, n),
         NEW h1, h1 = SubSeq(buffered, n + 1, Len(buffered))
  PROVE  /\ q1 \in Seq(S) /\ h1 \in Seq(S) /\ g1 \in Seq(S) /\ n \in Nat
         /\ Relayed(q, h, g, n, q1, h1, g1)
<1>1. Head(q) \in S /\ q1 \in Seq(S) /\ Len(q1) = Len(q) - 1 /\ \A i \in 1 .. Len(q1) : q1[i] = q[i + 1]
  BY HeadTailProperties
<1>2. Head(q) = q[1]
  OBVIOUS
<1>3. /\ buffered \in Seq(S) /\ Len(buffered) = Len(h) + 1 /\ buffered[Len(h) + 1] = q[1]
      /\ \A i \in 1 .. Len(h) : buffered[i] = h[i]
  BY <1>1, <1>2, AppendProperties
<1>4. Len(h) \in Nat /\ Len(g) \in Nat /\ n \in Nat /\ n <= Len(h) + 1
  BY <1>3
<1>5. \A i \in 1 .. Len(h) + 1 : buffered[i] \in S /\ buffered[i] = IF i <= Len(h) THEN h[i] ELSE q[1]
  <2>1. \A i \in 1 .. Len(h) + 1 : i \in 1 .. Len(h) \/ i = Len(h) + 1
    BY <1>4
  <2>2. \A i \in 1 .. Len(h) + 1 : buffered[i] \in S
    BY SMTT(30), <1>3
  <2>3. ASSUME NEW i \in 1 .. Len(h)
        PROVE  buffered[i] = h[i] /\ i <= Len(h)
    BY <1>3, <1>4
  <2>4. ~(Len(h) + 1 <= Len(h))
    BY <1>4
  <2>5. ASSUME NEW i \in 1 .. Len(h) + 1
        PROVE  buffered[i] = IF i <= Len(h) THEN h[i] ELSE q[1]
    BY <1>3, <2>1, <2>3, <2>4
  <2>. QED
    BY <2>2, <2>5
<1>. DEFINE out == SubSeq(buffered, 1, n)
<1>6. out \in Seq(S) /\ Len(out) = n /\ \A i \in 1 .. n : out[i] = buffered[i]
  <2>1. ASSUME NEW i \in 1 .. n
        PROVE  buffered[i] \in S
    <3>1. i \in 1 .. Len(h) + 1
      BY ONLY <1>4, i \in 1 .. n
    <3>. QED
      BY ONLY <1>5, <3>1
  <2>2. /\ out \in Seq(S) /\ Len(out) = IF 1 <= n THEN n - 1 + 1 ELSE 0
        /\ \A i \in 1 .. n - 1 + 1 : out[i] = buffered[1 + i - 1]
    BY <1>4, <2>1, SubSeqProperties
  <2>. HIDE DEF out
  <2>3. n - 1 + 1 = n /\ \A i \in 1 .. n : 1 + i - 1 = i
    BY <1>4
  <2>. QED
    BY <1>4, <2>2, <2>3
<1>7. h1 \in Seq(S) /\ Len(h1) = Len(h) + 1 - n /\ \A i \in 1 .. Len(h) + 1 - n : h1[i] = buffered[n + i]
  <2>1. n \in 0 .. Len(buffered) /\ Len(buffered) - n = Len(h) + 1 - n
    BY <1>3
  <2>2. /\ h1 \in Seq(S) /\ Len(h1) = Len(buffered) - n
        /\ \A i \in 1 .. Len(buffered) - n : h1[i] = buffered[n + i]
    BY ZenonT(40), <1>3, RestOf
  <2>. QED
    BY <2>1, <2>2
<1>8. /\ g1 \in Seq(S) /\ Len(g1) = Len(g) + n
      /\ \A i \in 1 .. Len(g) : g1[i] = g[i]
      /\ \A i \in 1 .. n : g1[Len(g) + i] = out[i]
  <2>1. /\ g1 \in Seq(S) /\ Len(g1) = Len(g) + Len(out)
        /\ \A i \in 1 .. Len(g) + Len(out) : g1[i] = IF i <= Len(g) THEN g[i] ELSE out[i - Len(g)]
    BY <1>6, ConcatProperties
  <2>. HIDE DEF out
  <2>2. ASSUME NEW i \in 1 .. n
        PROVE  g1[Len(g) + i] = out[i]
    <3>. DEFINE k == Len(g) + i
    <3>1. k \in 1 .. Len(g) + Len(out) /\ ~(k <= Len(g)) /\ k - Len(g) = i
      BY <1>4, <1>6
    <3>. HIDE DEF k
    <3>2. g1[k] = out[k - Len(g)]
      BY <2>1, <3>1
    <3>3. g1[k] = out[i]
      BY <3>1, <3>2
    <3>. QED
      BY <3>3 DEF k
  <2>3. ASSUME NEW i \in 1 .. Len(g)
        PROVE  g1[i] = g[i]
    BY <1>4, <1>6, <2>1
  <2>. QED
    BY <1>6, <2>1, <2>2, <2>3
<1>. HIDE DEF out
<1>9. \A i \in 1 .. n : g1[Len(g) + i] = IF i <= Len(h) THEN h[i] ELSE q[1]
  <2>1. \A i \in 1 .. n : i \in 1 .. Len(h) + 1
    BY <1>4
  <2>. QED
    BY <1>5, <1>6, <1>8, <2>1
<1>10. \A i \in 1 .. Len(h) + 1 - n : h1[i] = IF n + i <= Len(h) THEN h[n + i] ELSE q[1]
  <2>1. \A i \in 1 .. Len(h) + 1 - n : n + i \in 1 .. Len(h) + 1
    BY <1>4
  <2>. QED
    BY <1>5, <1>7, <2>1
<1>11. Relayed(q, h, g, n, q1, h1, g1)
  BY <1>1, <1>4, <1>7, <1>8, <1>9, <1>10 DEF Relayed
<1>. QED
  BY <1>1, <1>4, <1>7, <1>8, <1>11

\* What a call and its stream leave.
LEMMA CallTypes ==
  ASSUME Types, NEW r \in Asked,
         \/ Call(r) \/ HandText(r) \/ FirstPiece(r) \/ Relay(r) \/ EndStream(r)
  PROVE  Types'
<1>1. r \in Requests /\ MaxPieces \in Nat /\ End \in 0 .. MaxPieces
  BY Asking, Numbers DEF Types, End
<1>. DEFINE S == 0 .. MaxPieces
<1>2. queue[r] \in Seq(S) /\ held[r] \in Seq(S) /\ got[r] \in Seq(S)
  BY <1>1 DEF Types
<1>3. CASE TaskEnds(r)
  <2>1. /\ task' \in [Requests -> {None, "running", "ok", "failed", "escaped"}]
        /\ row' \in [Requests -> {None, "in_flight", "complete"}]
        /\ answer' \in [Requests -> {None, "whole", "cut"}]
    <3>1. /\ \E end \in {"ok", "failed", "escaped"} : task' = [task EXCEPT ![r] = end]
          /\ row' = row \/ row' = [row EXCEPT ![r] = "complete"]
          /\ answer' = answer \/ \E what \in {"whole", "cut"} : answer' = [answer EXCEPT ![r] = what]
      BY <1>3 DEF TaskEnds
    <3>2. task' \in [Requests -> {None, "running", "ok", "failed", "escaped"}]
      BY <1>1, <3>1 DEF Types
    <3>3. row' \in [Requests -> {None, "in_flight", "complete"}]
      BY <1>1, <3>1 DEF Types
    <3>4. answer' \in [Requests -> {None, "whole", "cut"}]
      BY <1>1, <3>1 DEF Types
    <3>. QED
      BY <3>2, <3>3, <3>4
  <2>. QED
    BY <1>3, <2>1 DEF Types, TaskEnds, handlerVars, cacheVars, streamVars
<1>4. CASE Callbacks(r)
  <2>1. queue' \in [Requests -> Seq(0 .. MaxPieces)]
    BY <1>1, <1>2, <1>4 DEF Types, Callbacks
  <2>. QED
    BY <1>1, <1>4, <2>1 DEF Types, Callbacks, handlerVars, cacheVars
<1>5. CASE HandText(r)
  <2>1. handed' = [handed EXCEPT ![r] = handed[r] + 1] /\ handed[r] + 1 \in 0 .. MaxPieces
    BY <1>1, <1>5 DEF Types, HandText
  <2>2. handed' \in [Requests -> 0 .. MaxPieces] /\ handed'[r] \in 0 .. MaxPieces
    BY <1>1, <2>1 DEF Types
  <2>3. Append(queue[r], handed'[r]) \in Seq(0 .. MaxPieces)
    BY <1>2, <2>2
  <2>4. queue' \in [Requests -> Seq(0 .. MaxPieces)]
    BY <1>1, <1>5, <2>3 DEF Types, HandText
  <2>. QED
    BY <1>5, <2>2, <2>4 DEF Types, HandText, handlerVars, cacheVars, callVars
<1>6. CASE FirstPiece(r)
  BY <1>1, <1>6 DEF Types, FirstPiece, Answer, Handling, cacheVars, callVars, streamVars
<1>7. CASE Relay(r)
  <2>. DEFINE buffered == Append(held[r], Head(queue[r]))
  <2>1. queue[r] # <<>> /\ queue' = [queue EXCEPT ![r] = Tail(queue[r])]
    BY <1>7 DEF Relay
  <2>2. PICK n \in 0 .. Len(buffered) :
          /\ got' = [got EXCEPT ![r] = got[r] \o SubSeq(buffered, 1, n)]
          /\ held' = [held EXCEPT ![r] = SubSeq(buffered, n + 1, Len(buffered))]
    BY <1>7 DEF Relay
  <2>3. /\ got[r] \o SubSeq(buffered, 1, n) \in Seq(S) /\ Tail(queue[r]) \in Seq(S)
        /\ SubSeq(buffered, n + 1, Len(buffered)) \in Seq(S)
    <3>. HIDE DEF S
    <3>. QED
      BY <1>2, <2>1, RelaySequences
  <2>. HIDE DEF buffered
  <2>4. /\ got' \in [Requests -> Seq(0 .. MaxPieces)] /\ held' \in [Requests -> Seq(0 .. MaxPieces)]
        /\ queue' \in [Requests -> Seq(0 .. MaxPieces)]
    BY <1>1, <2>1, <2>2, <2>3 DEF Types
  <2>. QED
    BY <1>7, <2>4 DEF Types, Relay, handlerVars, cacheVars, callVars
<1>8. CASE EndStream(r)
  <2>1. /\ got' = [got EXCEPT ![r] = got[r] \o held[r]] /\ held' = [held EXCEPT ![r] = <<>>]
        /\ queue' = [queue EXCEPT ![r] = Tail(queue[r])] /\ queue[r] # <<>>
    BY <1>8 DEF EndStream
  <2>2. got[r] \o held[r] \in Seq(S) /\ Tail(queue[r]) \in Seq(S) /\ <<>> \in Seq(S)
    <3>. HIDE DEF S
    <3>. QED
      BY <1>2, <2>1, ConcatProperties, HeadTailProperties
  <2>3. /\ got' \in [Requests -> Seq(0 .. MaxPieces)] /\ held' \in [Requests -> Seq(0 .. MaxPieces)]
        /\ queue' \in [Requests -> Seq(0 .. MaxPieces)]
    BY <1>1, <2>1, <2>2 DEF Types
  <2>4. \E what \in {"done", "error", "broken"} : Answer(r, what)
    BY <1>8 DEF EndStream
  <2>5. at' \in [Requests -> {"new", "answered", "gone"} \cup Handling]
        /\ reply' \in [Requests -> {None, "status", "hit", "whole", "done", "error", "broken"}]
    BY <1>1, <2>4 DEF Types, Answer
  <2>. QED
    BY <1>8, <2>3, <2>5 DEF Types, EndStream, cacheVars, callVars
<1>. QED
  BY <1>3, <1>4, <1>5, <1>6, <1>7, <1>8 DEF Call

\* Every step keeps the types.
LEMMA TypesKept ==
  ASSUME Types, [Next]_vars
  PROVE  Types'
<1>1. CASE Shutdown
  BY <1>1 DEF Types, Shutdown, handlerVars, cacheVars, callVars, streamVars
<1>2. CASE Close
  BY <1>2 DEF Types, Close, handlerVars, cacheVars, callVars, streamVars
<1>3. CASE UNCHANGED vars
  BY <1>3 DEF Types, vars, handlerVars, cacheVars, callVars, streamVars
<1>. QED
  BY <1>1, <1>2, <1>3, HandlerTypes, ThreadTypes, CallTypes DEF Next, Handler

-----------------------------------------------------------------------------
(* Steps.  What a step does to another request is nothing.                 *)

Untouched(x) ==
  /\ at'[x] = at[x] /\ thread'[x] = thread[x] /\ caching'[x] = caching[x] /\ hit'[x] = hit[x]
  /\ task'[x] = task[x] /\ (x \in tasks' <=> x \in tasks) /\ row'[x] = row[x] /\ answer'[x] = answer[x]
  /\ queue'[x] = queue[x] /\ handed'[x] = handed[x] /\ held'[x] = held[x] /\ got'[x] = got[x]
  /\ reply'[x] = reply[x] /\ (x \in reported' <=> x \in reported)

\* What a request does that nobody else does.
Own(r) ==
  \/ Refuse(r) \/ Block(r) \/ Admit(r) \/ Cancel(r)
  \/ Handler(r) \/ Thread(r) \/ Call(r) \/ HandText(r)

\* A request's own step leaves every other request as it was.
LEMMA OthersStay ==
  ASSUME Types, NEW r \in Asked, Own(r), NEW x \in Requests \ {r}
  PROVE  Untouched(x) /\ ask' = ask /\ server' = server
<1>1. r \in Requests
  BY Asking DEF Types
<1>2. CASE Refuse(r)
  BY <1>1, <1>2 DEF Types, Untouched, Refuse, Answer, cacheVars, callVars, streamVars
<1>3. CASE Block(r)
  BY <1>1, <1>3 DEF Types, Untouched, Block, Answer, cacheVars, streamVars
<1>4. CASE Admit(r)
  <2>1. caching'[x] = caching[x] /\ UNCHANGED <<ask, reply, hit, answer, streamVars, reported, server>>
    BY <1>1, <1>4 DEF Types, Admit
  <2>2. CASE Await(r, "exact") /\ UNCHANGED <<task, tasks, row>>
    BY <1>1, <2>1, <2>2, AwaitTypes DEF Untouched, Whats, streamVars
  <2>3. CASE Dispatch(r) /\ UNCHANGED thread
    BY <1>1, <2>1, <2>3, DispatchTypes DEF Untouched, streamVars
  <2>. QED
    BY <1>4, <2>2, <2>3 DEF Admit
<1>5. CASE Cancel(r)
  BY <1>1, <1>5 DEF Types, Untouched, Cancel, callVars, streamVars
<1>6. CASE AfterExact(r)
  <2>1. UNCHANGED <<ask, reply, hit, answer, streamVars, reported, server>>
    BY <1>6 DEF AfterExact
  <2>2. CASE Await(r, "record") /\ UNCHANGED <<caching, embedding, task, tasks, row>>
    BY <1>1, <2>1, <2>2, AwaitTypes DEF Untouched, Whats, streamVars
  <2>3. CASE Await(r, "embed") /\ UNCHANGED <<caching, task, tasks, row>>
    BY <1>1, <2>1, <2>3, AwaitTypes DEF Untouched, Whats, streamVars
  <2>4. CASE caching' = [caching EXCEPT ![r] = FALSE] /\ Dispatch(r) /\ UNCHANGED <<thread, embedding>>
    <3>1. caching'[x] = caching[x]
      BY <2>4 DEF Types
    <3>. QED
      BY <1>1, <2>1, <2>4, <3>1, DispatchTypes DEF Untouched, streamVars
  <2>. QED
    BY <1>6, <2>2, <2>3, <2>4 DEF AfterExact
<1>7. CASE AfterEmbed(r)
  BY <1>1, <1>7, AwaitTypes DEF Untouched, AfterEmbed, Whats, callVars, streamVars
<1>8. CASE AfterLookup(r)
  <2>1. UNCHANGED <<ask, caching, reply, hit, answer, streamVars, reported, server>>
    BY <1>8 DEF AfterLookup
  <2>2. CASE Await(r, "record") /\ UNCHANGED <<task, tasks, row>>
    BY <1>1, <2>1, <2>2, AwaitTypes DEF Untouched, Whats, streamVars
  <2>3. CASE Dispatch(r) /\ UNCHANGED thread
    BY <1>1, <2>1, <2>3, DispatchTypes DEF Untouched, streamVars
  <2>. QED
    BY <1>8, <2>2, <2>3 DEF AfterLookup
<1>9. CASE AfterRecord(r)
  BY <1>1, <1>9 DEF Types, Untouched, AfterRecord, Answer, cacheVars, callVars, streamVars
<1>10. CASE AfterCall(r)
  <2>1. UNCHANGED <<ask, caching, hit, callVars, streamVars, reported, server>>
    BY <1>10 DEF AfterCall
  <2>2. CASE Await(r, "store") /\ UNCHANGED reply
    BY <1>1, <2>1, <2>2, AwaitTypes DEF Untouched, Whats, callVars, streamVars
  <2>3. ASSUME NEW what \in {"status", "whole"}, Answer(r, what), UNCHANGED thread
        PROVE  Untouched(x)
    BY <1>1, <2>1, <2>3 DEF Types, Answer, Untouched, callVars, streamVars
  <2>. QED
    BY <1>10, <2>1, <2>2, <2>3 DEF AfterCall, AnswerWhole
<1>11. CASE AfterStore(r)
  BY <1>1, <1>11 DEF Types, Untouched, AfterStore, Answer, cacheVars, callVars, streamVars
<1>12. CASE FirstPiece(r)
  BY <1>1, <1>12 DEF Types, Untouched, FirstPiece, Answer, cacheVars, callVars, streamVars
<1>13. CASE Relay(r)
  <2>1. got'[x] = got[x] /\ held'[x] = held[x] /\ queue'[x] = queue[x]
    BY <1>1, <1>13 DEF Types, Relay
  <2>. QED
    BY <1>13, <2>1 DEF Untouched, Relay, handlerVars, cacheVars, callVars
<1>14. CASE EndStream(r)
  <2>1. got'[x] = got[x] /\ held'[x] = held[x] /\ queue'[x] = queue[x]
    BY <1>1, <1>14 DEF Types, EndStream
  <2>2. at'[x] = at[x] /\ reply'[x] = reply[x]
    BY <1>1, <1>14 DEF Types, EndStream, Answer
  <2>. QED
    BY <1>14, <2>1, <2>2 DEF Untouched, EndStream, cacheVars, callVars
<1>15. CASE ThreadStarts(r)
  BY <1>1, <1>15 DEF Types, Untouched, ThreadStarts, handlerVars, callVars, streamVars
<1>16. CASE Search(r)
  <2>1. thread'[x] = thread[x]
    BY <1>16 DEF Types, Search, Works
  <2>2. hit'[x] = hit[x]
    BY <1>16 DEF Types, Search
  <2>. QED
    BY <1>16, <2>1, <2>2 DEF Untouched, Search, handlerVars, callVars, streamVars
<1>17. CASE Embed(r)
  BY <1>1, <1>17 DEF Types, Untouched, Embed, Works, handlerVars, callVars, streamVars
<1>18. CASE Record(r)
  BY <1>1, <1>18 DEF Types, Untouched, Record, Works, handlerVars, streamVars
<1>19. CASE StoreCount(r)
  <2>1. thread'[x] = thread[x]
    BY <1>19 DEF Types, StoreCount
  <2>. QED
    BY <1>19, <2>1 DEF Untouched, StoreCount, handlerVars, callVars, streamVars
<1>20. CASE StoreInsert(r)
  BY <1>1, <1>20 DEF Types, Untouched, StoreInsert, Works, handlerVars, callVars, streamVars
<1>21. CASE StoreInMemory(r)
  BY <1>1, <1>21 DEF Types, Untouched, StoreInMemory, Works, handlerVars, callVars, streamVars
<1>22. CASE TaskEnds(r)
  <2>1. task'[x] = task[x] /\ row'[x] = row[x] /\ answer'[x] = answer[x]
    BY <1>1, <1>22 DEF Types, TaskEnds
  <2>. QED
    BY <1>22, <2>1 DEF Untouched, TaskEnds, handlerVars, cacheVars, streamVars
<1>23. CASE Callbacks(r)
  <2>1. queue'[x] = queue[x]
    BY <1>1, <1>23 DEF Types, Callbacks
  <2>2. (x \in tasks' <=> x \in tasks) /\ (x \in reported' <=> x \in reported)
    BY <1>23 DEF Callbacks
  <2>. QED
    BY <1>23, <2>1, <2>2 DEF Untouched, Callbacks, handlerVars, cacheVars
<1>24. CASE HandText(r)
  <2>1. queue'[x] = queue[x] /\ handed'[x] = handed[x]
    BY <1>1, <1>24 DEF Types, HandText
  <2>. QED
    BY <1>24, <2>1 DEF Untouched, HandText, handlerVars, cacheVars, callVars
<1>. QED
  BY <1>2, <1>3, <1>4, <1>5, <1>6, <1>7, <1>8, <1>9, <1>10, <1>11, <1>12, <1>13, <1>14, <1>15,
     <1>16, <1>17, <1>18, <1>19, <1>20, <1>21, <1>22, <1>23, <1>24
  DEF Own, Handler, Thread, Call

\* What stays as it is keeps what is true of it.
LEMMA UntouchedKeeps ==
  ASSUME NEW x, Untouched(x), ask' = ask, server' = server
  PROVE  (CallInv(x) => CallInv(x)') /\ (StreamInv(x) => StreamInv(x)')
<1>1. (x \in Asked)' = (x \in Asked) /\ Eligible(x)' = Eligible(x) /\ Kind(x)' = Kind(x)
  BY DEF Asked, Eligible, Kind
<1>2. CallInv(x) => CallInv(x)'
  BY <1>1 DEF CallInv, Untouched
<1>3. StreamInv(x) => StreamInv(x)'
  BY ZenonT(40), <1>1 DEF StreamInv, InQueue, Untouched
<1>. QED
  BY <1>2, <1>3

-----------------------------------------------------------------------------
(* The handler, its thread, its call and its row.                          *)

\* A request that is over: its row, if it is complete, is reported, and its call has ended.
LEMMA AnswerKeeps ==
  ASSUME Types, NEW r \in Asked, r \in Requests, CallInv(r), at[r] # "gone",
         at[r] \notin Whats \/ thread[r].state = "done",
         NEW what \in {"status", "hit", "whole", "done", "error", "broken"}, Answer(r, what),
         UNCHANGED <<ask, thread, caching, hit, task, tasks, row, answer, server>>,
         r \notin tasks, row[r] = "complete" => r \in reported', reported \subseteq reported',
         what = "hit" => hit[r] # 0 /\ Eligible(r)
  PROVE  CallInv(r)'
<1>1. at'[r] = "answered" /\ reply'[r] = what
  BY AnswerTypes
<1>2. (r \in Asked)' /\ Eligible(r)' = Eligible(r) /\ "answered" \notin Handling \cup Whats
  BY DEF Asked, Eligible, Kind, Handling, Whats
<1>3. thread[r].state = "done" /\ task[r] # "running"
  BY DEF CallInv
<1>. QED
  BY <1>1, <1>2, <1>3 DEF CallInv, Searching

\* A job of the handler's: what it finds at the end of it is the job it asked for.
LEMMA AwaitKeeps ==
  ASSUME Types, NEW r \in Asked, r \in Requests, CallInv(r), NEW what \in Whats, Await(r, what),
         at[r] \in {"new", "call"} \cup Whats, server = "open", Eligible(r),
         UNCHANGED <<ask, reply, hit, task, tasks, row, answer, reported, server>>,
         caching'[r] = caching[r] \/ caching'[r] = Eligible(r),
         IF what = "store" THEN task[r] = "ok" /\ answer[r] = "whole" /\ r \notin tasks ELSE task[r] = None,
         what = "record" => hit[r] # 0
  PROVE  CallInv(r)'
<1>1. /\ at'[r] = what /\ thread'[r].what = what
      /\ thread'[r].state = (IF what = "embed" THEN "queued" ELSE "running")
  BY AwaitTypes
<1>2. (r \in Asked)' /\ Eligible(r)' = Eligible(r)
  BY DEF Asked, Eligible, Kind
<1>3. reply[r] = None
  BY DEF CallInv, Whats
<1>. QED
  BY <1>1, <1>2, <1>3 DEF CallInv, Searching, Whats, None

\* A call that is made.
LEMMA DispatchKeeps ==
  ASSUME Types, NEW r \in Asked, r \in Requests, CallInv(r), Dispatch(r),
         at[r] \in {"new"} \cup Searching, server = "open", thread[r].state = "done",
         UNCHANGED <<ask, reply, thread, hit, answer, reported, server>>,
         caching'[r] => caching[r] \/ Eligible(r)
  PROVE  CallInv(r)'
<1>1. /\ at'[r] = (IF Kind(r).stream = "native" THEN "first" ELSE "call")
      /\ task'[r] = "running" /\ row'[r] = "in_flight" /\ r \in tasks'
  BY DispatchTypes
<1>2. (r \in Asked)' /\ Eligible(r)' = Eligible(r)
  BY DEF Asked, Eligible, Kind
<1>3. reply[r] = None /\ task[r] = None /\ answer[r] = None /\ thread[r].what # "store"
  BY DEF CallInv, Searching, Whats, None
<1>4. at'[r] \in {"first", "call"}
  BY <1>1
<1>. QED
  BY <1>1, <1>2, <1>3, <1>4 DEF CallInv, Searching, Whats, None

\* The end of a queue says that the call is over, and that nothing is behind it.
LEMMA EndIsLast ==
  ASSUME Types, NEW r \in Requests, StreamInv(r), queue[r] # <<>>, Head(queue[r]) = End
  PROVE  r \notin tasks /\ task[r] # None /\ InQueue(r) = 0 /\ Len(queue[r]) = 1
<1>1. queue[r] \in Seq(0 .. MaxPieces)
  BY DEF Types
<1>2. Len(queue[r]) \in Nat /\ Len(queue[r]) # 0 /\ queue[r][1] = End
  BY <1>1
<1>3. Len(got[r]) \in Nat /\ Len(held[r]) \in Nat /\ InQueue(r) \in Nat
  BY DEF Types, StreamInv
<1>4. \A i \in 1 .. InQueue(r) : queue[r][i] = Len(got[r]) + Len(held[r]) + i
  BY DEF StreamInv
<1>5. InQueue(r) = 0
  <2>. DEFINE n == InQueue(r)
              a == Len(got[r])
              b == Len(held[r])
              first == queue[r][1]
  <2>1. SUFFICES ASSUME n # 0
                 PROVE  FALSE
    OBVIOUS
  <2>2. n \in Nat /\ a \in Nat /\ b \in Nat /\ first = 0
    BY <1>2, <1>3 DEF End
  <2>3. 1 \in 1 .. n
    <3>. HIDE DEF n
    <3>. QED
      BY <2>1, <2>2
  <2>4. first = a + b + 1
    BY <1>4, <2>3
  <2>. HIDE DEF a, b, first
  <2>. QED
    BY <2>2, <2>4
<1>6. Len(queue[r]) = InQueue(r) + 1
  <2>1. Len(queue[r]) \in {InQueue(r), InQueue(r) + 1}
    BY DEF StreamInv
  <2>. QED
    BY <1>2, <1>5, <2>1
<1>7. r \notin tasks /\ task[r] # None
  BY <1>6 DEF StreamInv
<1>. QED
  BY <1>5, <1>6, <1>7

\* A handler's step keeps what it, its thread and its call agree on.
LEMMA HandlerKeeps ==
  ASSUME Types, NEW r \in Asked, CallInv(r), StreamInv(r),
         Refuse(r) \/ Block(r) \/ Admit(r) \/ Cancel(r) \/ Handler(r)
  PROVE  CallInv(r)'
<1>1. r \in Requests
  BY Asking DEF Types
<1>2. (r \in Asked)' = (r \in Asked) /\ (ask' = ask => Eligible(r)' = Eligible(r))
  <2>1. ask' = ask
    <3>1. ask' = ask \/ ~(Refuse(r) \/ Block(r) \/ Admit(r) \/ Cancel(r))
      BY DEF Refuse, Block, Admit, Cancel
    <3>2. ask' = ask \/ ~Handler(r)
      BY DEF Handler, AfterExact, AfterEmbed, AfterLookup, AfterRecord, AfterCall, AfterStore,
             FirstPiece, Relay, EndStream
    <3>. QED
      BY <3>1, <3>2
  <2>. QED
    BY <2>1 DEF Asked, Eligible, Kind
<1>3. CASE Refuse(r)
  BY <1>1, <1>3, AnswerKeeps DEF Refuse, CallInv, cacheVars, callVars, Whats, None
<1>4. CASE Block(r)
  <2>1. at[r] = "new" /\ row'[r] = "complete" /\ r \in reported' /\ Answer(r, "status")
        /\ UNCHANGED <<ask, caching, thread, hit, task, tasks, answer, server>>
    BY <1>1, <1>4 DEF Block, Types, cacheVars
  <2>2. at'[r] = "answered" /\ reply'[r] = "status"
    BY <1>1, <2>1, AnswerTypes
  <2>3. /\ task[r] = None /\ r \notin tasks /\ thread[r].what = None /\ thread[r].state = "done"
        /\ ~caching[r] /\ answer[r] = None
    BY <2>1 DEF CallInv, NoJob, Job, None
  <2>. QED
    BY <2>1, <2>2, <2>3 DEF CallInv, Searching, Whats, Handling, None
<1>5. CASE Admit(r)
  <2>1. /\ at[r] = "new" /\ server = "open" /\ caching'[r] = Eligible(r)
        /\ UNCHANGED <<ask, reply, hit, answer, reported, server>>
    BY <1>1, <1>5 DEF Admit, Types
  <2>2. task[r] = None /\ thread[r].state = "done"
    BY <2>1 DEF CallInv, NoJob, Job
  <2>3. CASE Eligible(r) /\ Await(r, "exact") /\ UNCHANGED <<task, tasks, row>>
    BY <1>1, <2>1, <2>2, <2>3, AwaitKeeps DEF Whats
  <2>4. CASE Dispatch(r) /\ UNCHANGED thread
    BY <1>1, <2>1, <2>2, <2>4, DispatchKeeps
  <2>. QED
    BY <1>5, <2>3, <2>4 DEF Admit
<1>6. CASE Cancel(r)
  <2>1. /\ at[r] \in Handling /\ at'[r] = "gone"
        /\ UNCHANGED <<ask, caching, reply, hit, task, tasks, row, answer, reported, server>>
        /\ thread'[r] = IF thread[r].state = "queued" THEN NoJob ELSE thread[r]
    BY <1>1, <1>6 DEF Cancel, Types, callVars
  <2>2. reply[r] = None /\ NoJob.what = None /\ NoJob.state = "done"
    BY <2>1 DEF CallInv, Handling, NoJob, Job
  <2>3. CASE thread[r].state = "queued"
    BY <1>2, <2>1, <2>2, <2>3 DEF CallInv, Searching, Whats, Handling, None
  <2>4. CASE thread[r].state # "queued"
    BY <1>2, <2>1, <2>2, <2>4 DEF CallInv, Searching, Whats, Handling, None
  <2>. QED
    BY <2>3, <2>4
<1>7. ASSUME NEW what \in Whats, Resumes(r, what)
      PROVE  at[r] = what /\ thread[r].what = what /\ thread[r].state = "done" /\ Eligible(r) /\ server = "open"
  <2>1. at[r] = what /\ thread[r].what = what /\ thread[r].state = "done"
    BY <1>7 DEF Resumes, Job
  <2>. QED
    BY <2>1 DEF CallInv, Whats, Handling
<1>8. CASE AfterExact(r)
  <2>1. /\ Resumes(r, "exact") /\ UNCHANGED <<ask, reply, hit, answer, reported, server>>
    BY <1>8 DEF AfterExact
  <2>2. at[r] = "exact" /\ thread[r].state = "done" /\ Eligible(r) /\ server = "open" /\ task[r] = None
    BY <1>7, <2>1 DEF CallInv, Whats, Searching
  <2>3. CASE hit[r] # 0 /\ Await(r, "record") /\ UNCHANGED <<caching, embedding, task, tasks, row>>
    BY <1>1, <2>1, <2>2, <2>3, AwaitKeeps DEF Whats
  <2>4. CASE Await(r, "embed") /\ UNCHANGED <<caching, task, tasks, row>>
    BY <1>1, <2>1, <2>2, <2>4, AwaitKeeps DEF Whats
  <2>5. CASE caching' = [caching EXCEPT ![r] = FALSE] /\ Dispatch(r) /\ UNCHANGED <<thread, embedding>>
    <3>1. ~caching'[r]
      BY <1>1, <2>5 DEF Types
    <3>. QED
      BY <1>1, <2>1, <2>2, <2>5, <3>1, DispatchKeeps DEF Searching
  <2>. QED
    BY <1>8, <2>3, <2>4, <2>5 DEF AfterExact
<1>9. CASE AfterEmbed(r)
  <2>1. Resumes(r, "embed") /\ Await(r, "lookup")
        /\ UNCHANGED <<ask, caching, reply, hit, task, tasks, row, answer, reported, server>>
    BY <1>9 DEF AfterEmbed, callVars
  <2>2. at[r] = "embed" /\ thread[r].state = "done" /\ Eligible(r) /\ server = "open" /\ task[r] = None
    BY <1>7, <2>1 DEF CallInv, Whats, Searching
  <2>. QED
    BY <1>1, <2>1, <2>2, AwaitKeeps DEF Whats
<1>10. CASE AfterLookup(r)
  <2>1. /\ Resumes(r, "lookup") /\ UNCHANGED <<ask, caching, reply, hit, answer, reported, server>>
    BY <1>10 DEF AfterLookup
  <2>2. at[r] = "lookup" /\ thread[r].state = "done" /\ Eligible(r) /\ server = "open" /\ task[r] = None
    BY <1>7, <2>1 DEF CallInv, Whats, Searching
  <2>3. CASE hit[r] # 0 /\ Await(r, "record") /\ UNCHANGED <<task, tasks, row>>
    BY <1>1, <2>1, <2>2, <2>3, AwaitKeeps DEF Whats
  <2>4. CASE Dispatch(r) /\ UNCHANGED thread
    BY <1>1, <2>1, <2>2, <2>4, DispatchKeeps DEF Searching
  <2>. QED
    BY <1>10, <2>3, <2>4 DEF AfterLookup
<1>11. CASE AfterRecord(r)
  <2>1. /\ Resumes(r, "record") /\ Answer(r, "hit") /\ reported' = reported \cup {r}
        /\ UNCHANGED <<ask, caching, thread, hit, task, tasks, row, answer, server>>
    BY <1>11 DEF AfterRecord, cacheVars, callVars
  <2>2. /\ at[r] = "record" /\ thread[r].state = "done" /\ Eligible(r) /\ r \notin tasks /\ hit[r] # 0
    BY <1>7, <2>1 DEF CallInv, Whats
  <2>. QED
    BY <1>1, <2>1, <2>2, AnswerKeeps
<1>12. CASE AfterCall(r)
  <2>1. /\ at[r] = "call" /\ r \notin tasks
        /\ UNCHANGED <<ask, caching, hit, task, tasks, row, answer, reported, server>>
    BY <1>12 DEF AfterCall, callVars
  <2>2. task[r] # None /\ server = "open" /\ (row[r] = "complete" => r \in reported)
    BY <2>1 DEF CallInv, Handling
  <2>3. CASE task[r] = "ok" /\ Storable(r) /\ Await(r, "store") /\ UNCHANGED reply
    <3>1. answer[r] = "whole" /\ Eligible(r)
      BY <2>3 DEF Storable, CallInv
    <3>. QED
      BY <1>1, <2>1, <2>2, <2>3, <3>1, AwaitKeeps DEF Whats
  <2>4. ASSUME NEW what \in {"status", "whole"}, Answer(r, what), UNCHANGED thread
        PROVE  CallInv(r)'
    BY <1>1, <2>1, <2>2, <2>4, AnswerKeeps DEF Whats
  <2>. QED
    BY <1>12, <2>3, <2>4 DEF AfterCall, AnswerWhole
<1>13. CASE AfterStore(r)
  <2>1. /\ Resumes(r, "store") /\ Answer(r, "whole")
        /\ UNCHANGED <<ask, caching, thread, hit, task, tasks, row, answer, reported, server>>
    BY <1>13 DEF AfterStore, cacheVars, callVars
  <2>2. /\ at[r] = "store" /\ thread[r].state = "done" /\ r \notin tasks
        /\ (row[r] = "complete" => r \in reported)
    BY <1>7, <2>1 DEF CallInv, Whats
  <2>. QED
    BY <1>1, <2>1, <2>2, AnswerKeeps
<1>15. CASE FirstPiece(r)
  <2>1. /\ at[r] = "first" /\ queue[r] # <<>>
        /\ UNCHANGED <<ask, caching, thread, hit, task, tasks, row, answer, reported, server>>
    BY <1>15 DEF FirstPiece, cacheVars, callVars
  <2>2. task[r] # None /\ server = "open" /\ reply[r] = None /\ thread[r].state = "done"
    BY <2>1 DEF CallInv, Handling, Whats
  <2>3. CASE Head(queue[r]) = End /\ task[r] # "ok" /\ Answer(r, "status")
    <3>1. r \notin tasks /\ (row[r] = "complete" => r \in reported)
      BY <1>1, <2>1, <2>2, <2>3, EndIsLast DEF CallInv
    <3>. QED
      BY <1>1, <2>1, <2>3, <3>1, AnswerKeeps DEF Whats
  <2>4. CASE at' = [at EXCEPT ![r] = "stream"] /\ UNCHANGED reply
    <3>1. at'[r] = "stream"
      BY <1>1, <2>4 DEF Types
    <3>. QED
      BY <1>2, <2>1, <2>2, <2>4, <3>1 DEF CallInv, Searching, Whats
  <2>. QED
    BY <1>15, <2>3, <2>4 DEF FirstPiece
<1>16. CASE Relay(r)
  <2>1. UNCHANGED <<ask, at, caching, reply, thread, hit, task, tasks, row, answer, reported, server>>
    BY <1>16 DEF Relay, handlerVars, cacheVars, callVars
  <2>. QED
    BY <1>2, <2>1 DEF CallInv
<1>17. CASE EndStream(r)
  <2>1. /\ at[r] = "stream" /\ queue[r] # <<>> /\ Head(queue[r]) = End
        /\ UNCHANGED <<ask, caching, thread, hit, task, tasks, row, answer, reported, server>>
    BY <1>17 DEF EndStream, cacheVars, callVars
  <2>2. PICK what \in {"done", "error", "broken"} : Answer(r, what)
    BY <1>17 DEF EndStream
  <2>3. r \notin tasks /\ (row[r] = "complete" => r \in reported)
    BY <1>1, <2>1, EndIsLast DEF CallInv
  <2>. QED
    BY <1>1, <2>1, <2>2, <2>3, AnswerKeeps DEF Whats
<1>. QED
  BY <1>3, <1>4, <1>5, <1>6, <1>8, <1>9, <1>10, <1>11, <1>12, <1>13, <1>15, <1>16, <1>17 DEF Handler

\* A thread's step keeps it: a job that ends is the one the handler asked for.
LEMMA ThreadKeeps ==
  ASSUME Types, NEW r \in Asked, CallInv(r), Thread(r)
  PROVE  CallInv(r)'
<1>1. r \in Requests
  BY Asking DEF Types
<1>2. ask' = ask /\ UNCHANGED <<at, caching, reply, task, tasks, answer, reported, server>>
  BY DEF Thread, ThreadStarts, Search, Embed, Record, StoreCount, StoreInsert, StoreInMemory,
         handlerVars, callVars
<1>3. (r \in Asked)' = (r \in Asked) /\ Eligible(r)' = Eligible(r)
  BY <1>2 DEF Asked, Eligible, Kind
\* A job goes on or ends; what it is does not change.
<1>4. ASSUME hit' = hit, row' = row, thread'[r].what = thread[r].what,
             thread'[r].state # "queued", thread[r].what # None,
             thread[r].state # "done" \/ thread'[r].state = "done", at[r] \in Whats \cup {"gone"}
      PROVE  CallInv(r)'
  <2>1. CASE thread'[r].state = "done"
    BY <1>2, <1>3, <1>4, <2>1 DEF CallInv, Searching, Whats, None
  <2>2. CASE thread'[r].state # "done"
    <3>1. thread[r].state # "done"
      BY <1>4, <2>2
    <3>2. /\ at[r] # "new"
          /\ at[r] \notin Whats \cup {"gone"} => thread[r].state = "done"
          /\ thread[r].what \in {"record"} \cup Searching => task[r] = None
      BY <1>4, <3>1 DEF CallInv, Whats
    <3>. QED
      BY <1>2, <1>3, <1>4, <2>2, <3>1, <3>2 DEF CallInv, Searching
  <2>. QED
    BY <2>1, <2>2
<1>5. ASSUME NEW s \in {"running", "done"}, thread' = [thread EXCEPT ![r].state = s]
      PROVE  thread'[r].what = thread[r].what /\ thread'[r].state = s
  <2>1. thread[r] \in Jobs
    BY <1>1 DEF Types, Jobs
  <2>2. thread'[r] = [thread[r] EXCEPT !.state = s]
    BY <1>1, <1>5 DEF Types
  <2>. QED
    BY <2>1, <2>2 DEF Jobs
<1>6. thread[r].state # "done" => thread[r].what # None /\ at[r] \in Whats \cup {"gone"}
  BY DEF CallInv
<1>7. ASSUME NEW what \in Whats, Works(r, what)
      PROVE  /\ thread[r].what = what /\ thread[r].state = "running" /\ at[r] \in Whats \cup {"gone"}
             /\ thread'[r].what = what /\ thread'[r].state = "done" /\ (at[r] \in Whats => at[r] = what)
  <2>1. thread[r].what = what /\ thread[r].state = "running"
    BY <1>7 DEF Works, Job
  <2>2. thread'[r].what = what /\ thread'[r].state = "done"
    BY <1>5, <1>7, <2>1 DEF Works
  <2>. QED
    BY <1>6, <2>1, <2>2 DEF CallInv
<1>8. CASE ThreadStarts(r)
  <2>1. thread[r].state = "queued" /\ thread'[r].what = thread[r].what /\ thread'[r].state = "running"
        /\ hit' = hit /\ row' = row
    BY <1>5, <1>8 DEF ThreadStarts, callVars
  <2>. QED
    BY <1>4, <1>6, <2>1
<1>9. CASE Search(r)
  <2>1. PICK what \in {"exact", "lookup"} : Works(r, what)
    BY <1>9 DEF Search
  <2>2. /\ thread[r].what = what /\ thread[r].state = "running" /\ at[r] \in Whats \cup {"gone"}
        /\ thread'[r].what = what /\ thread'[r].state = "done" /\ (at[r] \in Whats => at[r] = what)
    BY <1>7, <2>1 DEF Whats
  <2>3. reply[r] = None /\ at[r] # "record" /\ row' = row /\ what # None
    BY <1>9, <2>2 DEF CallInv, Whats, Search, callVars, None
  <2>. QED
    BY <1>2, <1>3, <2>2, <2>3 DEF CallInv, Searching, None
<1>10. CASE Embed(r)
  <2>1. Works(r, "embed") /\ hit' = hit /\ row' = row
    BY <1>10 DEF Embed, callVars
  <2>. QED
    BY <1>4, <1>7, <2>1 DEF Whats, None
<1>11. CASE Record(r)
  <2>1. Works(r, "record") /\ hit' = hit /\ row'[r] = "complete"
    BY <1>1, <1>11 DEF Record, Types
  <2>2. /\ thread[r].what = "record" /\ thread[r].state = "running" /\ at[r] \in Whats \cup {"gone"}
        /\ thread'[r].what = "record" /\ thread'[r].state = "done" /\ (at[r] \in Whats => at[r] = "record")
    BY <1>7, <2>1 DEF Whats
  <2>3. task[r] = None
    BY <2>2 DEF CallInv
  <2>. QED
    BY <1>2, <1>3, <2>1, <2>2, <2>3 DEF CallInv, Searching, Whats, None
<1>12. CASE StoreCount(r)
  <2>1. thread[r].what = "store" /\ thread[r].state = "running" /\ hit' = hit /\ row' = row
    BY <1>12 DEF StoreCount, Job, callVars
  <2>2. CASE thread' = [thread EXCEPT ![r].state = "done"]
    BY <1>4, <1>5, <1>6, <2>1, <2>2
  <2>3. CASE thread' = thread
    BY <1>4, <1>6, <2>1, <2>3
  <2>. QED
    BY <1>12, <2>2, <2>3 DEF StoreCount
<1>13. CASE StoreInsert(r) \/ StoreInMemory(r)
  <2>1. Works(r, "store") /\ hit' = hit /\ row' = row
    BY <1>13 DEF StoreInsert, StoreInMemory, callVars
  <2>. QED
    BY <1>4, <1>7, <2>1 DEF Whats, None
<1>. QED
  BY <1>8, <1>9, <1>10, <1>11, <1>12, <1>13 DEF Thread

\* A call's step keeps it: its row is complete before its callbacks report it.
LEMMA CallKeeps ==
  ASSUME Types, NEW r \in Asked, CallInv(r), Call(r) \/ HandText(r)
  PROVE  CallInv(r)'
<1>1. r \in Requests
  BY Asking DEF Types
<1>2. ask' = ask /\ UNCHANGED <<at, caching, reply, thread, hit, server>>
  BY DEF Call, TaskEnds, Callbacks, HandText, handlerVars, cacheVars
<1>3. (r \in Asked)' = (r \in Asked) /\ Eligible(r)' = Eligible(r)
  BY <1>2 DEF Asked, Eligible, Kind
<1>4. CASE TaskEnds(r)
  <2>1. /\ task[r] = "running" /\ UNCHANGED <<tasks, reported>>
        /\ \/ task'[r] = "ok" /\ row'[r] = "complete"
           \/ task'[r] = "failed" /\ row'[r] = "complete" /\ answer' = answer
           \/ task'[r] = "escaped" /\ row' = row /\ answer' = answer
    BY <1>1, <1>4 DEF Types, TaskEnds
  <2>2. r \in tasks /\ row[r] = "in_flight" /\ answer[r] = None /\ at[r] \notin {"answered", "store"}
        /\ thread[r].what # "store" /\ reply[r] = None
    BY <2>1 DEF CallInv, None
  <2>. QED
    BY <1>2, <1>3, <2>1, <2>2 DEF CallInv, Searching, None
<1>5. CASE Callbacks(r)
  <2>1. /\ r \in tasks /\ task[r] # "running" /\ r \notin tasks' /\ reported \subseteq reported'
        /\ (row[r] = "complete" => r \in reported') /\ UNCHANGED <<task, row, answer>>
    BY <1>5 DEF Callbacks
  <2>. QED
    BY <1>2, <1>3, <2>1 DEF CallInv
<1>6. CASE HandText(r)
  <2>1. UNCHANGED <<task, tasks, row, answer, reported>>
    BY <1>6 DEF HandText, callVars
  <2>. QED
    BY <1>2, <1>3, <2>1 DEF CallInv
<1>. QED
  BY <1>4, <1>5, <1>6 DEF Call

-----------------------------------------------------------------------------
(* A stream, from the host's pieces to the client's.                       *)

\* The text of a sequence that counts up from one.
LEMMA TextIs ==
  ASSUME NEW S, NEW s \in Seq(S)
  PROVE  s = Text(Len(s)) <=> \A i \in 1 .. Len(s) : s[i] = i
BY DEF Text

\* The handler goes on, is cancelled or answers; the stream's own state stays as it is.
LEMMA PlaceKeeps ==
  ASSUME NEW r, r \in Asked, StreamInv(r), UNCHANGED <<ask, task, tasks, queue, handed, held, got>>,
         at'[r] \in {"first", "stream"} => Kind(r).stream = "native",
         at'[r] \notin {"stream", "answered", "gone"} => got[r] = <<>> /\ held[r] = <<>>,
         reply'[r] # None => at'[r] = "answered" /\ r \notin tasks,
         Kind(r).stream = "native" =>
           /\ at'[r] \in {"new", "first", "stream", "answered", "gone"}
           /\ \/ reply'[r] = reply[r]
              \/ reply'[r] = "status" /\ task[r] # "ok" /\ handed[r] = 0 /\ got[r] = <<>>
  PROVE  StreamInv(r)'
<1>1. (r \in Asked)' = (r \in Asked) /\ Kind(r)' = Kind(r)
  BY DEF Asked, Kind
<1>. QED
  BY <1>1 DEF StreamInv, InQueue

\* A call that is made has handed nothing over yet.
LEMMA DispatchStream ==
  ASSUME Types, NEW r \in Asked, r \in Requests, CallInv(r), StreamInv(r), Dispatch(r),
         at[r] \in {"new"} \cup Searching, UNCHANGED <<ask, reply, queue, handed, held, got>>
  PROVE  StreamInv(r)'
<1>1. /\ at'[r] = (IF Kind(r).stream = "native" THEN "first" ELSE "call")
      /\ task'[r] = "running"
  BY DispatchTypes
<1>2. (r \in Asked)' = (r \in Asked) /\ Kind(r)' = Kind(r)
  BY DEF Asked, Kind
<1>3. task[r] = None /\ reply[r] = None
  BY DEF CallInv, Searching, None
<1>4. InQueue(r)' = InQueue(r)
  BY DEF InQueue
<1>5. Len(queue[r]) # InQueue(r) + 1
  BY <1>3 DEF StreamInv
<1>6. got[r] = <<>> /\ held[r] = <<>>
  BY DEF StreamInv, Searching
<1>7. at'[r] \in {"first", "call"} /\ (Kind(r).stream = "native" => at'[r] = "first")
      /\ (at'[r] = "first" => Kind(r).stream = "native")
  BY <1>1
<1>. QED
  BY <1>1, <1>2, <1>3, <1>4, <1>5, <1>6, <1>7 DEF StreamInv, None

\* A piece more from the host: the call is running, so the end is not yet in the queue.
LEMMA HandTextStream ==
  ASSUME Types, NEW r \in Asked, r \in Requests, CallInv(r), StreamInv(r), HandText(r)
  PROVE  StreamInv(r)'
<1>. DEFINE h == handed[r]
            q == queue[r]
            g == Len(got[r])
            b == Len(held[r])
            m == Len(q)
<1>1. /\ task[r] = "running" /\ Kind(r).stream = "native"
      /\ UNCHANGED <<ask, at, reply, task, tasks, held, got>>
      /\ handed'[r] = h + 1 /\ queue'[r] = Append(q, h + 1)
  BY DEF HandText, Types, handlerVars, callVars
<1>2. r \in tasks /\ reply[r] = None
  BY <1>1 DEF CallInv, StreamInv
<1>3. (r \in Asked)' = (r \in Asked) /\ Kind(r)' = Kind(r)
  BY <1>1 DEF Asked, Kind
<1>4. h \in Nat /\ g \in Nat /\ b \in Nat /\ q \in Seq(0 .. MaxPieces) /\ h + 1 \in Nat
  BY Numbers DEF Types
<1>5. m = h - g - b /\ m \in Nat
  BY <1>2, <1>4 DEF StreamInv, InQueue
<1>6. \A i \in 1 .. m : q[i] = g + b + i
  BY <1>5 DEF StreamInv, InQueue
<1>7. /\ Len(Append(q, h + 1)) = m + 1 /\ Append(q, h + 1)[m + 1] = h + 1
      /\ \A i \in 1 .. m : Append(q, h + 1)[i] = q[i]
  BY <1>4
<1>8. InQueue(r)' = m + 1
  <2>1. handed'[r] = h + 1 /\ Len(got'[r]) = g /\ Len(held'[r]) = b
    BY <1>1
  <2>2. InQueue(r)' = handed'[r] - Len(got'[r]) - Len(held'[r])
    BY DEF InQueue
  <2>. HIDE DEF h, g, b, m
  <2>. QED
    BY <1>4, <1>5, <2>1, <2>2
<1>9. \A i \in 1 .. m + 1 : queue'[r][i] = g + b + i
  <2>1. TAKE i \in 1 .. m + 1
  <2>2. CASE i = m + 1
    <3>1. queue'[r][i] = h + 1
      BY <1>1, <1>7, <2>2
    <3>. HIDE DEF h, g, b, m
    <3>. QED
      BY <1>4, <1>5, <2>2, <3>1
  <2>3. CASE i # m + 1
    <3>1. i \in 1 .. m
      <4>. HIDE DEF m
      <4>. QED
        BY <1>5, <2>1, <2>3
    <3>. QED
      BY <1>1, <1>6, <1>7, <3>1
  <2>. QED
    BY <2>2, <2>3
<1>10. Len(queue'[r]) = m + 1 /\ m + 1 \in Nat /\ m + 1 # m + 1 + 1
  BY <1>1, <1>4, <1>7
<1>. HIDE DEF h, g, b, m, q
<1>11. /\ InQueue(r)' \in Nat /\ Len(queue'[r]) = InQueue(r)' /\ Len(queue'[r]) # InQueue(r)' + 1
       /\ \A i \in 1 .. InQueue(r)' : queue'[r][i] = Len(got'[r]) + Len(held'[r]) + i
  BY <1>1, <1>8, <1>9, <1>10 DEF g, b
<1>. QED
  BY <1>1, <1>2, <1>3, <1>11 DEF StreamInv, None

\* The end of a call goes behind all that the host sent.
LEMMA CallStream ==
  ASSUME Types, NEW r \in Asked, r \in Requests, CallInv(r), StreamInv(r), Call(r)
  PROVE  StreamInv(r)'
<1>1. UNCHANGED <<ask, at, reply, handed, held, got>>
  BY DEF Call, TaskEnds, Callbacks, handlerVars, streamVars
<1>2. (r \in Asked)' = (r \in Asked) /\ Kind(r)' = Kind(r)
  BY <1>1 DEF Asked, Kind
<1>3. InQueue(r)' = InQueue(r)
  BY <1>1 DEF InQueue
<1>4. r \in tasks /\ reply[r] = None /\ task[r] # None
  <2>1. r \in tasks
    BY DEF Call, TaskEnds, Callbacks, CallInv
  <2>. QED
    BY <2>1 DEF CallInv, StreamInv
<1>5. InQueue(r) \in Nat /\ Len(queue[r]) = InQueue(r)
  BY <1>4 DEF StreamInv
<1>6. CASE TaskEnds(r)
  <2>1. task'[r] # None /\ tasks' = tasks /\ queue' = queue
    BY <1>6 DEF TaskEnds, Types, streamVars, None
  <2>2. Len(queue[r]) # InQueue(r) + 1
    BY <1>5
  <2>. QED
    BY <1>1, <1>2, <1>3, <1>4, <2>1, <2>2 DEF StreamInv, None
<1>7. CASE Callbacks(r)
  <2>1. task' = task /\ r \notin tasks'
    BY <1>7 DEF Callbacks
  <2>2. CASE queue' = queue
    <3>1. Len(queue[r]) # InQueue(r) + 1
      BY <1>5
    <3>. QED
      BY <1>1, <1>2, <1>3, <1>4, <2>1, <2>2, <3>1 DEF StreamInv, None
  <2>3. CASE queue' # queue
    <3>1. queue'[r] = Append(queue[r], End) /\ queue[r] \in Seq(0 .. MaxPieces)
      BY <1>7, <2>3 DEF Callbacks, Types
    <3>2. /\ Len(queue'[r]) = Len(queue[r]) + 1 /\ queue'[r][Len(queue[r]) + 1] = End
          /\ \A i \in 1 .. Len(queue[r]) : queue'[r][i] = queue[r][i]
      BY <3>1
    <3>3. /\ Len(queue'[r]) = InQueue(r) + 1 /\ queue'[r][InQueue(r) + 1] = End
          /\ \A i \in 1 .. InQueue(r) : queue'[r][i] = queue[r][i]
      BY <1>5, <3>2
    <3>. QED
      BY <1>1, <1>2, <1>3, <1>4, <2>1, <3>3 DEF StreamInv, None
  <2>. QED
    BY <2>2, <2>3
<1>. QED
  BY <1>6, <1>7 DEF Call

\* A piece that is relayed moves from the queue to what is held back or sent, in order.
LEMMA RelayStream ==
  ASSUME Types, NEW r \in Asked, r \in Requests, CallInv(r), StreamInv(r), Relay(r)
  PROVE  StreamInv(r)'
<1>. DEFINE q == queue[r]
            h == held[r]
            g == got[r]
            q1 == queue'[r]
            h1 == held'[r]
            g1 == got'[r]
            S  == 0 .. MaxPieces
<1>1. /\ at[r] = "stream" /\ q # <<>> /\ Head(q) # End
      /\ UNCHANGED <<ask, at, reply, task, tasks, handed>>
      /\ q1 = Tail(q)
  BY DEF Relay, Types, handlerVars, callVars
<1>2. PICK n \in 0 .. Len(Append(h, Head(q))) :
        /\ g1 = g \o SubSeq(Append(h, Head(q)), 1, n)
        /\ h1 = SubSeq(Append(h, Head(q)), n + 1, Len(Append(h, Head(q))))
  BY DEF Relay, Types
<1>3. q \in Seq(S) /\ h \in Seq(S) /\ g \in Seq(S)
  BY DEF Types
<1>4. /\ q1 \in Seq(S) /\ h1 \in Seq(S) /\ g1 \in Seq(S) /\ n \in Nat
      /\ Relayed(q, h, g, n, q1, h1, g1)
  <2>. DEFINE buffered == Append(h, Head(q))
              out  == g \o SubSeq(buffered, 1, n)
              rest == SubSeq(buffered, n + 1, Len(buffered))
  <2>1. Tail(q) \in Seq(S) /\ rest \in Seq(S) /\ out \in Seq(S) /\ n \in Nat
    <3>. HIDE DEF S
    <3>. QED
      BY SMTT(30), <1>1, <1>3, RelaySequences
  <2>2. Relayed(q, h, g, n, Tail(q), rest, out)
    <3>. HIDE DEF S, q, h, g
    <3>. QED
      BY <1>1, <1>3, RelaySequences
  <2>3. q1 = Tail(q) /\ g1 = out /\ h1 = rest
    BY <1>1, <1>2
  <2>. HIDE DEF out, rest, q, g, h, q1, g1, h1, S
  <2>. QED
    BY <2>1, <2>2, <2>3
<1>5. /\ Len(q) \in Nat /\ Len(h) \in Nat /\ Len(g) \in Nat /\ q[1] # End
      /\ Len(q1) \in Nat /\ Len(h1) \in Nat /\ Len(g1) \in Nat
  BY <1>1, <1>3, <1>4
<1>6. /\ InQueue(r) \in Nat /\ Len(q) \in {InQueue(r), InQueue(r) + 1}
      /\ \A i \in 1 .. InQueue(r) : q[i] = Len(g) + Len(h) + i
      /\ \A i \in 1 .. Len(h) : h[i] = Len(g) + i
      /\ Len(q) = InQueue(r) + 1 => q[Len(q)] = End /\ r \notin tasks /\ task[r] # None
      /\ reply[r] = None /\ task[r] # None
  BY <1>1 DEF StreamInv, CallInv
<1>7. \A i \in 1 .. Len(g) : g[i] = i
  BY <1>3, TextIs DEF StreamInv
<1>8. InQueue(r) = handed[r] - Len(g) - Len(h) /\ InQueue(r)' = handed[r] - Len(g1) - Len(h1)
  BY <1>1 DEF InQueue
<1>9. handed[r] \in Int
  BY Numbers DEF Types
<1>. DEFINE m == InQueue(r)
            m1 == InQueue(r)'
            a == Len(g)
            b == Len(h)
            k == Len(q)
            hand == handed[r]
\* The first of the queue is a piece, so the queue holds one.
<1>10. m \in Nat /\ m # 0 /\ k \in Nat
  <2>1. m = 0 => k = 1
    <3>1. k # 0
      BY <1>1, <1>3
    <3>. HIDE DEF m, k
    <3>. QED
      BY <1>6, <3>1 DEF m, k
  <2>2. k = 1 /\ m = 0 => q[1] = End
    BY <1>6
  <2>. QED
    BY <1>5, <1>6, <2>1, <2>2
<1>11. q[1] = a + b + 1
  <2>1. 1 \in 1 .. m
    <3>. HIDE DEF m
    <3>. QED
      BY <1>10
  <2>. QED
    BY <1>6, <2>1
<1>12. /\ Len(q1) = k - 1 /\ Len(g1) = a + n /\ Len(h1) = b + 1 - n /\ n <= b + 1
       /\ \A i \in 1 .. k - 1 : q1[i] = q[i + 1]
       /\ \A i \in 1 .. a : g1[i] = g[i]
       /\ \A i \in 1 .. n : g1[a + i] = IF i <= b THEN h[i] ELSE q[1]
       /\ \A i \in 1 .. b + 1 - n : h1[i] = IF n + i <= b THEN h[n + i] ELSE q[1]
  BY <1>4 DEF Relayed
<1>13. m1 = m - 1
  <2>. HIDE DEF m, m1, a, b, k, hand
  <2>1. m = hand - a - b /\ m1 = hand - (a + n) - (b + 1 - n)
    BY <1>8, <1>12 DEF m, m1, a, b, hand
  <2>2. hand \in Int /\ a \in Int /\ b \in Int /\ n \in Int
    BY <1>4, <1>5, <1>9 DEF hand, a, b
  <2>. QED
    BY <2>1, <2>2
<1>. HIDE DEF m, m1, a, b, k, hand, q, h, g, q1, h1, g1
<1>14. a \in Nat /\ b \in Nat /\ n \in Nat
  BY <1>4, <1>5 DEF a, b
<1>15. \A i \in 1 .. m : q[i] = a + b + i
  BY <1>6 DEF m, a, b
<1>16. \A i \in 1 .. b : h[i] = a + i
  BY <1>6 DEF a, b
<1>17. ASSUME NEW i \in 1 .. a + n
       PROVE  g1[i] = i
  <2>1. CASE i \in 1 .. a
    <3>1. g1[i] = g[i] /\ g[i] = i
      BY <1>7, <1>12, <2>1 DEF a
    <3>. QED
      BY <3>1
  <2>2. CASE i \notin 1 .. a
    <3>. DEFINE j == i - a
    <3>1. j \in 1 .. n /\ i = a + j
      BY <1>14, <2>2
    <3>2. (j <= b => j \in 1 .. b) /\ (~(j <= b) => j = b + 1)
      BY <1>12, <1>14, <3>1
    <3>. HIDE DEF j
    <3>3. g1[i] = IF j <= b THEN h[j] ELSE q[1]
      BY <1>12, <3>1
    <3>4. CASE j <= b
      <4>1. g1[i] = a + j
        BY <1>16, <3>2, <3>3, <3>4
      <4>. QED
        BY <3>1, <4>1
    <3>5. CASE ~(j <= b)
      <4>1. g1[i] = a + b + 1
        BY <1>11, <3>3, <3>5
      <4>. QED
        BY <1>14, <3>1, <3>2, <3>5, <4>1
    <3>. QED
      BY <3>4, <3>5
  <2>. QED
    BY <2>1, <2>2
<1>18. ASSUME NEW i \in 1 .. b + 1 - n
       PROVE  h1[i] = a + n + i
  <2>. DEFINE j == n + i
  <2>1. j \in 1 .. b + 1 /\ (j <= b => j \in 1 .. b) /\ (~(j <= b) => j = b + 1)
    BY <1>12, <1>14
  <2>2. j \in Nat /\ a + j = a + n + i
    BY <1>14
  <2>. HIDE DEF j
  <2>3. h1[i] = IF j <= b THEN h[j] ELSE q[1]
    BY <1>12 DEF j
  <2>4. CASE j <= b
    <3>1. h1[i] = a + j
      BY <1>16, <2>1, <2>3, <2>4
    <3>. QED
      BY <2>2, <3>1
  <2>5. CASE ~(j <= b)
    <3>1. h1[i] = a + b + 1
      BY <1>11, <2>3, <2>5
    <3>2. a + b + 1 = a + j
      BY <1>14, <2>1, <2>5
    <3>. QED
      BY <2>2, <3>1, <3>2
  <2>. QED
    BY <2>4, <2>5
<1>19. ASSUME NEW i \in 1 .. m1
       PROVE  q1[i] = Len(g1) + Len(h1) + i
  <2>1. i \in 1 .. k - 1 /\ i + 1 \in 1 .. m /\ i \in Nat
    <3>1. k = m \/ k = m + 1
      BY <1>6 DEF k, m
    <3>. QED
      BY <1>10, <1>13, <3>1
  <2>2. q1[i] = a + b + (i + 1)
    BY <1>12, <1>15, <2>1
  <2>3. a + b + (i + 1) = (a + n) + (b + 1 - n) + i
    BY <1>14, <2>1
  <2>. QED
    BY <1>12, <2>2, <2>3
<1>20. m1 \in Nat /\ Len(q1) \in {m1, m1 + 1}
  <2>1. k = m \/ k = m + 1
    BY <1>6 DEF k, m
  <2>. QED
    BY <1>10, <1>12, <1>13, <2>1
<1>21. Len(q1) = m1 + 1 => q1[Len(q1)] = End /\ r \notin tasks
  <2>1. SUFFICES ASSUME Len(q1) = m1 + 1
                 PROVE  q1[Len(q1)] = End /\ r \notin tasks
    OBVIOUS
  <2>2. k = m + 1 /\ k - 1 \in 1 .. k - 1 /\ k - 1 + 1 = k
    BY <1>10, <1>12, <1>13, <2>1
  <2>3. q[k] = End /\ r \notin tasks
    BY <1>6, <2>2 DEF k, m
  <2>. QED
    BY <1>12, <2>2, <2>3
<1>22. g1 = Text(Len(g1))
  <2>1. \A i \in 1 .. Len(g1) : g1[i] = i
    BY <1>12, <1>17
  <2>. QED
    BY <1>4, <2>1, TextIs
<1>23. \A i \in 1 .. Len(h1) : h1[i] = Len(g1) + i
  BY <1>12, <1>18
<1>24. (r \in Asked)' = (r \in Asked) /\ Kind(r)' = Kind(r)
  BY <1>1 DEF Asked, Kind
<1>25. /\ got'[r] = Text(Len(got'[r]))
       /\ \A i \in 1 .. Len(held'[r]) : held'[r][i] = Len(got'[r]) + i
       /\ InQueue(r)' \in Nat /\ Len(queue'[r]) \in {InQueue(r)', InQueue(r)' + 1}
       /\ \A i \in 1 .. InQueue(r)' : queue'[r][i] = Len(got'[r]) + Len(held'[r]) + i
       /\ Len(queue'[r]) = InQueue(r)' + 1 => queue'[r][Len(queue'[r])] = End /\ r \notin tasks
  BY <1>19, <1>20, <1>21, <1>22, <1>23 DEF m1, q1, g1, h1
<1>26. /\ task'[r] # None /\ at'[r] = "stream" /\ reply'[r] = None
       /\ (r \in Asked)' /\ (Kind(r).stream = "native")'
  BY <1>1, <1>6, <1>24 DEF StreamInv
<1>27. tasks' = tasks
  BY <1>1
<1>. QED
  BY <1>25, <1>26, <1>27 DEF StreamInv, None

\* At the end the rest is sent: all that the host handed over.
LEMMA EndStreamKeeps ==
  ASSUME Types, NEW r \in Asked, r \in Requests, CallInv(r), StreamInv(r), EndStream(r)
  PROVE  StreamInv(r)'
<1>. DEFINE g == got[r]
            h == held[r]
            g1 == got'[r]
            a == Len(g)
            b == Len(h)
            hand == handed[r]
            S == 0 .. MaxPieces
<1>1. /\ at[r] = "stream" /\ queue[r] # <<>> /\ Head(queue[r]) = End
      /\ UNCHANGED <<ask, task, tasks, handed>>
      /\ g1 = g \o h /\ held'[r] = <<>> /\ queue'[r] = Tail(queue[r])
  BY DEF EndStream, Types, callVars
<1>2. PICK what \in {"done", "error", "broken"} :
        /\ Answer(r, what) /\ (what = "done" => task[r] = "ok") /\ (what = "error" => task[r] = "failed")
  <2>1. CASE task[r] = "ok"
    <3>1. Answer(r, "done")
      BY <2>1 DEF EndStream
    <3>. QED
      BY <2>1, <3>1
  <2>2. CASE task[r] = "failed"
    <3>1. Answer(r, "error")
      BY <2>2 DEF EndStream
    <3>. QED
      BY <2>2, <3>1
  <2>3. CASE task[r] \notin {"ok", "failed"}
    <3>1. Answer(r, "broken")
      BY <2>3 DEF EndStream
    <3>. QED
      BY <3>1
  <2>. QED
    BY <2>1, <2>2, <2>3
<1>3. at'[r] = "answered" /\ reply'[r] = what
  BY <1>2, AnswerTypes
<1>4. g \in Seq(S) /\ h \in Seq(S) /\ queue[r] \in Seq(S) /\ hand \in Int
  BY Numbers DEF Types
<1>5. InQueue(r) = 0 /\ r \notin tasks /\ task[r] # None /\ Len(queue[r]) = 1
  BY <1>1, EndIsLast
<1>6. Len(queue'[r]) = 0
  BY <1>1, <1>4, <1>5
<1>7. a \in Nat /\ b \in Nat /\ hand = a + b
  <2>1. a \in Nat /\ b \in Nat /\ hand - a - b = 0
    BY <1>4, <1>5 DEF InQueue
  <2>. HIDE DEF a, b, hand
  <2>. QED
    BY SMTT(30), <1>4, <2>1 DEF hand
<1>8. /\ g1 \in Seq(S) /\ Len(g1) = a + b
      /\ \A i \in 1 .. a + b : g1[i] = IF i <= a THEN g[i] ELSE h[i - a]
  <2>1. /\ g \o h \in Seq(S) /\ Len(g \o h) = a + b
        /\ \A i \in 1 .. a + b : (g \o h)[i] = IF i <= a THEN g[i] ELSE h[i - a]
    <3>. HIDE DEF S
    <3>. QED
      BY <1>4, ConcatProperties
  <2>. QED
    BY <1>1, <2>1
<1>9. (\A i \in 1 .. a : g[i] = i) /\ \A i \in 1 .. b : h[i] = a + i
  BY <1>4, TextIs DEF StreamInv
<1>. HIDE DEF a, b, g, h, g1, hand, S
<1>10. ASSUME NEW i \in 1 .. a + b
       PROVE  g1[i] = i
  <2>1. CASE i <= a
    <3>1. i \in 1 .. a
      BY <1>7, <2>1
    <3>. QED
      BY <1>8, <1>9, <2>1, <3>1
  <2>2. CASE ~(i <= a)
    <3>1. i - a \in 1 .. b /\ a + (i - a) = i
      BY <1>7, <2>2
    <3>2. g1[i] = h[i - a]
      BY <1>8, <2>2
    <3>. QED
      BY <1>9, <3>1, <3>2
  <2>. QED
    BY <2>1, <2>2
<1>11. g1 = Text(Len(g1)) /\ Len(g1) = hand
  <2>1. \A i \in 1 .. Len(g1) : g1[i] = i
    BY <1>8, <1>10
  <2>. QED
    BY <1>7, <1>8, <2>1, TextIs
<1>12. got'[r] = Text(Len(got'[r])) /\ got'[r] = Text(handed'[r]) /\ Len(got'[r]) = handed'[r]
  BY <1>1, <1>11 DEF g1, hand
<1>13. InQueue(r)' = 0
  <2>1. Len(held'[r]) = 0 /\ handed'[r] \in Int
    BY <1>1, <1>4 DEF hand
  <2>. QED
    BY <1>12, <2>1 DEF InQueue
<1>14. (r \in Asked)' = (r \in Asked) /\ Kind(r)' = Kind(r)
  BY <1>1 DEF Asked, Kind
<1>15. Len(held'[r]) = 0 /\ (\A i \in 1 .. 0 : FALSE) /\ Len(queue'[r]) # 0 + 1 /\ 0 \in Nat
  BY SMTT(30), <1>1, <1>6
<1>. QED
  BY <1>1, <1>2, <1>3, <1>5, <1>6, <1>12, <1>13, <1>14, <1>15 DEF StreamInv

\* A handler's step keeps its stream: what it answers is what the stream says.
LEMMA HandlerStream ==
  ASSUME Types, NEW r \in Asked, r \in Requests, CallInv(r), StreamInv(r),
         Refuse(r) \/ Block(r) \/ Admit(r) \/ Cancel(r) \/ Handler(r)
  PROVE  StreamInv(r)'
\* A handler that goes on to a job of the cache's: nothing has been streamed.
<1>1. ASSUME NEW what \in Whats, Await(r, what), Eligible(r), at[r] \in {"new", "call"} \cup Whats,
             UNCHANGED <<ask, reply, task, tasks, queue, handed, held, got>>
      PROVE  StreamInv(r)'
  <2>1. at'[r] = what
    BY <1>1, AwaitTypes
  <2>2. reply[r] = None /\ got[r] = <<>> /\ held[r] = <<>> /\ Kind(r).stream # "native"
    BY <1>1 DEF CallInv, StreamInv, Eligible, Whats
  <2>. QED
    BY <1>1, <2>1, <2>2, PlaceKeeps DEF Whats
\* A handler that answers.
<1>2. ASSUME NEW what \in {"status", "hit", "whole"}, Answer(r, what), r \notin tasks,
             UNCHANGED <<ask, task, tasks, queue, handed, held, got>>,
             Kind(r).stream = "native" =>
               what = "status" /\ task[r] # "ok" /\ handed[r] = 0 /\ got[r] = <<>>
      PROVE  StreamInv(r)'
  <2>1. at'[r] = "answered" /\ reply'[r] = what
    BY <1>2, AnswerTypes
  <2>. QED
    BY <1>2, <2>1, PlaceKeeps
<1>3. ASSUME at[r] = "new"
      PROVE  r \notin tasks /\ task[r] = None /\ handed[r] = 0 /\ got[r] = <<>>
  BY <1>3 DEF CallInv, StreamInv
<1>4. ASSUME at[r] \in {"call"} \cup Whats
      PROVE  Kind(r).stream # "native"
  BY <1>4 DEF StreamInv, Whats
<1>5. ASSUME NEW what \in Whats, Resumes(r, what)
      PROVE  at[r] = what /\ Eligible(r)
  <2>1. at[r] = what
    BY <1>5 DEF Resumes
  <2>. QED
    BY <2>1 DEF CallInv
<1>6. CASE Refuse(r) \/ Block(r)
  <2>1. /\ at[r] = "new" /\ Answer(r, "status")
        /\ UNCHANGED <<ask, task, tasks, queue, handed, held, got>>
    BY <1>6 DEF Refuse, Block, callVars, streamVars
  <2>. QED
    BY <1>2, <1>3, <2>1 DEF None
<1>7. CASE Admit(r)
  <2>1. at[r] = "new" /\ UNCHANGED <<ask, reply, queue, handed, held, got>>
    BY <1>7 DEF Admit, streamVars
  <2>2. CASE Eligible(r) /\ Await(r, "exact") /\ UNCHANGED <<task, tasks, row>>
    BY <1>1, <2>1, <2>2 DEF Whats
  <2>3. CASE Dispatch(r)
    BY <2>1, <2>3, DispatchStream
  <2>. QED
    BY <1>7, <2>2, <2>3 DEF Admit
<1>8. CASE Cancel(r)
  <2>1. /\ at[r] \in Handling /\ at'[r] = "gone"
        /\ UNCHANGED <<ask, reply, task, tasks, queue, handed, held, got>>
    BY <1>8 DEF Cancel, Types, callVars, streamVars
  <2>2. reply[r] = None
    BY <2>1 DEF CallInv, Handling
  <2>. QED
    BY <2>1, <2>2, PlaceKeeps
<1>9. CASE AfterExact(r)
  <2>1. /\ at[r] = "exact" /\ Eligible(r) /\ UNCHANGED <<ask, reply, queue, handed, held, got>>
    BY <1>5, <1>9 DEF AfterExact, streamVars, Whats
  <2>2. CASE Await(r, "record") /\ UNCHANGED <<caching, embedding, task, tasks, row>>
    BY <1>1, <2>1, <2>2 DEF Whats
  <2>3. CASE Await(r, "embed") /\ UNCHANGED <<caching, task, tasks, row>>
    BY <1>1, <2>1, <2>3 DEF Whats
  <2>4. CASE Dispatch(r)
    BY <2>1, <2>4, DispatchStream DEF Searching
  <2>. QED
    BY <1>9, <2>2, <2>3, <2>4 DEF AfterExact
<1>10. CASE AfterEmbed(r)
  <2>1. /\ at[r] = "embed" /\ Eligible(r) /\ Await(r, "lookup")
        /\ UNCHANGED <<ask, reply, task, tasks, queue, handed, held, got>>
    BY <1>5, <1>10 DEF AfterEmbed, callVars, streamVars, Whats
  <2>. QED
    BY <1>1, <2>1 DEF Whats
<1>11. CASE AfterLookup(r)
  <2>1. /\ at[r] = "lookup" /\ Eligible(r) /\ UNCHANGED <<ask, reply, queue, handed, held, got>>
    BY <1>5, <1>11 DEF AfterLookup, streamVars, Whats
  <2>2. CASE Await(r, "record") /\ UNCHANGED <<task, tasks, row>>
    BY <1>1, <2>1, <2>2 DEF Whats
  <2>3. CASE Dispatch(r)
    BY <2>1, <2>3, DispatchStream DEF Searching
  <2>. QED
    BY <1>11, <2>2, <2>3 DEF AfterLookup
<1>12. CASE AfterRecord(r)
  <2>1. /\ at[r] = "record" /\ Eligible(r) /\ Answer(r, "hit")
        /\ UNCHANGED <<ask, task, tasks, queue, handed, held, got>>
    BY <1>5, <1>12 DEF AfterRecord, callVars, streamVars, Whats
  <2>2. r \notin tasks /\ Kind(r).stream # "native"
    BY <1>4, <2>1 DEF CallInv, Whats
  <2>. QED
    BY <1>2, <2>1, <2>2
<1>13. CASE AfterCall(r)
  <2>1. /\ at[r] = "call" /\ r \notin tasks
        /\ UNCHANGED <<ask, task, tasks, queue, handed, held, got>>
    BY <1>13 DEF AfterCall, callVars, streamVars
  <2>2. Kind(r).stream # "native"
    BY <1>4, <2>1
  <2>3. CASE Storable(r) /\ Await(r, "store") /\ UNCHANGED reply
    <3>1. Eligible(r)
      BY <2>3 DEF Storable, CallInv
    <3>. QED
      BY <1>1, <2>1, <2>3, <3>1 DEF Whats
  <2>4. CASE Answer(r, "status") \/ Answer(r, "whole")
    BY <1>2, <2>1, <2>2, <2>4
  <2>. QED
    BY <1>13, <2>3, <2>4 DEF AfterCall, AnswerWhole
<1>14. CASE AfterStore(r)
  <2>1. /\ at[r] = "store" /\ Answer(r, "whole")
        /\ UNCHANGED <<ask, task, tasks, queue, handed, held, got>>
    BY <1>5, <1>14 DEF AfterStore, callVars, streamVars, Whats
  <2>2. r \notin tasks /\ Kind(r).stream # "native"
    BY <1>4, <2>1 DEF CallInv, Whats
  <2>. QED
    BY <1>2, <2>1, <2>2
<1>15. CASE FirstPiece(r)
  <2>1. /\ at[r] = "first" /\ queue[r] # <<>>
        /\ UNCHANGED <<ask, task, tasks, queue, handed, held, got>>
    BY <1>15 DEF FirstPiece, callVars, streamVars
  <2>2. got[r] = <<>> /\ held[r] = <<>> /\ Kind(r).stream = "native" /\ reply[r] = None
    BY <2>1 DEF StreamInv, CallInv
  <2>3. CASE Head(queue[r]) = End /\ task[r] # "ok" /\ Answer(r, "status")
    <3>1. r \notin tasks /\ InQueue(r) = 0
      BY <2>1, <2>3, EndIsLast
    <3>2. handed[r] = 0
      <4>1. handed[r] \in Int /\ Len(got[r]) = 0 /\ Len(held[r]) = 0
        BY <2>2, Numbers DEF Types
      <4>2. handed[r] - Len(got[r]) - Len(held[r]) = 0
        BY <3>1 DEF InQueue
      <4>. QED
        BY <4>1, <4>2
    <3>. QED
      BY <1>2, <2>1, <2>2, <2>3, <3>1, <3>2
  <2>4. CASE at' = [at EXCEPT ![r] = "stream"] /\ UNCHANGED reply
    <3>1. at'[r] = "stream"
      BY <2>4 DEF Types
    <3>. QED
      BY <2>1, <2>2, <2>4, <3>1, PlaceKeeps
  <2>. QED
    BY <1>15, <2>3, <2>4 DEF FirstPiece
<1>. QED
  BY <1>6, <1>7, <1>8, <1>9, <1>10, <1>11, <1>12, <1>13, <1>14, <1>15, RelayStream, EndStreamKeeps
  DEF Handler

\* A worker's thread has no part in a stream.
LEMMA ThreadStream ==
  ASSUME NEW r, StreamInv(r), Thread(r)
  PROVE  StreamInv(r)'
<1>1. ask' = ask /\ UNCHANGED <<at, reply, task, tasks, queue, handed, held, got>>
  BY DEF Thread, ThreadStarts, Search, Embed, Record, StoreCount, StoreInsert, StoreInMemory,
         handlerVars, callVars, streamVars
<1>2. (r \in Asked)' = (r \in Asked) /\ Kind(r)' = Kind(r)
  BY <1>1 DEF Asked, Kind
<1>. QED
  BY <1>1, <1>2 DEF StreamInv, InQueue

\* Every step keeps what every request's handler, thread, call and queue agree on.
LEMMA RequestsKept ==
  ASSUME Types, \A x \in Requests : CallInv(x) /\ StreamInv(x), [Next]_vars,
         NEW x \in Requests
  PROVE  CallInv(x)' /\ StreamInv(x)'
<1>1. Asked \subseteq Requests
  BY Asking DEF Types
<1>2. ASSUME NEW r \in Asked, Own(r)
      PROVE  CallInv(x)' /\ StreamInv(x)'
  <2>1. CASE x = r
    <3>1. CASE Refuse(r) \/ Block(r) \/ Admit(r) \/ Cancel(r) \/ Handler(r)
      BY <1>1, <2>1, <3>1, HandlerKeeps, HandlerStream
    <3>2. CASE Thread(r)
      BY <1>1, <2>1, <3>2, ThreadKeeps, ThreadStream
    <3>3. CASE Call(r) \/ HandText(r)
      BY <1>1, <2>1, <3>3, CallKeeps, CallStream, HandTextStream
    <3>. QED
      BY <1>2, <3>1, <3>2, <3>3 DEF Own
  <2>2. CASE x # r
    <3>1. Untouched(x) /\ ask' = ask /\ server' = server
      BY <1>2, <2>2, OthersStay
    <3>. QED
      BY <3>1, UntouchedKeeps
  <2>. QED
    BY <2>1, <2>2
<1>3. CASE Shutdown
  <2>1. /\ at[x] \notin Handling /\ server' = "closing"
        /\ UNCHANGED <<ask, handlerVars, cacheVars, callVars, streamVars, reported>>
    BY <1>3 DEF Shutdown
  <2>2. (x \in Asked)' = (x \in Asked) /\ Kind(x)' = Kind(x) /\ Eligible(x)' = Eligible(x)
    BY <2>1 DEF Asked, Kind, Eligible
  <2>3. CallInv(x)'
    BY <2>1, <2>2 DEF CallInv, handlerVars, cacheVars, callVars
  <2>4. StreamInv(x)'
    BY ZenonT(40), <2>1, <2>2 DEF StreamInv, InQueue, handlerVars, callVars, streamVars
  <2>. QED
    BY <2>3, <2>4
<1>4. CASE Close
  <2>1. /\ tasks = {} /\ server = "closing" /\ (x \in reported => x \in reported')
        /\ UNCHANGED <<ask, handlerVars, cacheVars, callVars, streamVars>>
    BY <1>4 DEF Close
  <2>2. (x \in Asked)' = (x \in Asked) /\ Kind(x)' = Kind(x) /\ Eligible(x)' = Eligible(x)
    BY <2>1 DEF Asked, Kind, Eligible
  <2>3. CallInv(x)'
    BY <2>1, <2>2 DEF CallInv, handlerVars, cacheVars, callVars
  <2>4. StreamInv(x)'
    BY <2>1, <2>2 DEF StreamInv, InQueue, handlerVars, callVars, streamVars
  <2>. QED
    BY <2>3, <2>4
<1>5. CASE UNCHANGED vars
  <2>1. Untouched(x) /\ ask' = ask /\ server' = server
    BY <1>5 DEF vars, Untouched, handlerVars, cacheVars, callVars, streamVars
  <2>. QED
    BY <2>1, UntouchedKeeps
<1>. QED
  BY <1>2, <1>3, <1>4, <1>5 DEF Next, Own

-----------------------------------------------------------------------------
(* The cache's entries.                                                    *)

\* The scenario is chosen once.
LEMMA AskStays ==
  ASSUME [Next]_vars
  PROVE  ask' = ask
<1>1. ASSUME NEW r \in Asked, Own(r)
      PROVE  ask' = ask
  <2>1. CASE Refuse(r) \/ Block(r) \/ Admit(r) \/ Cancel(r) \/ Call(r) \/ HandText(r)
    BY <2>1 DEF Refuse, Block, Admit, Cancel, Call, TaskEnds, Callbacks, HandText
  <2>2. CASE Handler(r)
    BY <2>2 DEF Handler, AfterExact, AfterEmbed, AfterLookup, AfterRecord, AfterCall, AfterStore,
                FirstPiece, Relay, EndStream
  <2>3. CASE Thread(r)
    BY <2>3 DEF Thread, ThreadStarts, Search, Embed, Record, StoreCount, StoreInsert, StoreInMemory
  <2>. QED
    BY <1>1, <2>1, <2>2, <2>3 DEF Own
<1>2. CASE Shutdown \/ Close \/ UNCHANGED vars
  BY <1>2 DEF Shutdown, Close, vars
<1>. QED
  BY <1>1, <1>2 DEF Next, Own

\* The answer of a call does not change.
LEMMA AnswersStay ==
  ASSUME Types, \A x \in Requests : CallInv(x), [Next]_vars, NEW x \in Requests, answer[x] = "whole"
  PROVE  answer'[x] = "whole"
<1>1. Asked \subseteq Requests
  BY Asking DEF Types
<1>2. ASSUME NEW r \in Asked, Own(r)
      PROVE  answer'[x] = "whole"
  <2>1. CASE x # r
    BY <1>2, <2>1, OthersStay DEF Untouched
  <2>2. CASE TaskEnds(r) /\ x = r
    BY <1>1, <2>2 DEF TaskEnds, CallInv, None
  <2>3. CASE Refuse(r) \/ Block(r) \/ Admit(r) \/ Cancel(r) \/ Callbacks(r) \/ HandText(r)
    BY <2>3 DEF Refuse, Block, Admit, Cancel, Callbacks, HandText, callVars
  <2>4. CASE Handler(r)
    BY <2>4 DEF Handler, AfterExact, AfterEmbed, AfterLookup, AfterRecord, AfterCall, AfterStore,
                FirstPiece, Relay, EndStream, callVars
  <2>5. CASE Thread(r)
    BY <2>5 DEF Thread, ThreadStarts, Search, Embed, Record, StoreCount, StoreInsert, StoreInMemory, callVars
  <2>. QED
    BY <1>2, <2>1, <2>2, <2>3, <2>4, <2>5 DEF Own, Call
<1>3. CASE Shutdown \/ Close \/ UNCHANGED vars
  BY <1>3 DEF Shutdown, Close, vars, callVars
<1>. QED
  BY <1>2, <1>3 DEF Next, Own

\* What is stored, and which locks are taken and given back.
Stores(r) ==
  /\ thread[r].what = "store"
  /\ \/ StoreCount(r) \/ StoreInsert(r) \/ StoreInMemory(r)

\* Only a store changes the entries, or takes or gives back a lock.
LEMMA StoresOnly ==
  ASSUME Types, [Next]_vars
  PROVE  (entries' = entries /\ lock' = lock) \/ \E r \in Asked : Stores(r)
<1>1. ASSUME NEW r \in Asked, Own(r)
      PROVE  (entries' = entries /\ lock' = lock) \/ Stores(r)
  <2>1. CASE Refuse(r) \/ Block(r) \/ Admit(r) \/ Cancel(r) \/ Call(r) \/ HandText(r)
    BY <2>1 DEF Refuse, Block, Admit, Cancel, Call, TaskEnds, Callbacks, HandText, cacheVars
  <2>2. CASE Handler(r)
    BY <2>2 DEF Handler, AfterExact, AfterEmbed, AfterLookup, AfterRecord, AfterCall, AfterStore,
                FirstPiece, Relay, EndStream, cacheVars
  <2>3. CASE ThreadStarts(r) \/ Search(r) \/ Embed(r) \/ Record(r)
    BY <2>3 DEF ThreadStarts, Search, Embed, Record
  <2>4. CASE StoreCount(r) \/ StoreInsert(r) \/ StoreInMemory(r)
    BY <2>4 DEF Stores, StoreCount, StoreInsert, StoreInMemory, Works, Job
  <2>. QED
    BY <1>1, <2>1, <2>2, <2>3, <2>4 DEF Own, Thread
<1>2. CASE Shutdown \/ Close \/ UNCHANGED vars
  BY <1>2 DEF Shutdown, Close, vars, cacheVars
<1>. QED
  BY <1>1, <1>2 DEF Next, Own

\* A step stores one entry, or none: what a request found is still there.
Grows(r) == entries' = entries \/ entries' = Kept(entries, KeyOf(r), r)

\* A store keeps the entries there are.
LEMMA StoreGrows ==
  ASSUME NEW r, Stores(r)
  PROVE  Grows(r)
BY DEF Stores, Grows, StoreCount, StoreInsert, StoreInMemory

\* The entries before and after a store.
LEMMA Grown ==
  ASSUME Types, NEW r \in Asked, Grows(r)
  PROVE  /\ DOMAIN entries \subseteq DOMAIN entries' /\ \A i \in DOMAIN entries : entries'[i] = entries[i]
         /\ \A i \in DOMAIN entries' \ DOMAIN entries : entries'[i] = [key |-> KeyOf(r), from |-> r]
         /\ Len(entries) \in Nat /\ DOMAIN entries = 1 .. Len(entries)
         /\ \/ entries' = entries
            \/ Len(entries') = Len(entries) + 1 /\ DOMAIN entries' = 1 .. Len(entries) + 1
<1>. DEFINE e == [key |-> KeyOf(r), from |-> r]
            S == [key : Key, from : Requests]
<1>1. e \in S /\ entries \in Seq(S)
  BY KeyTyped, Asking DEF Types
<1>2. CASE entries' = entries
  BY <1>1, <1>2
<1>3. CASE entries' = Append(entries, e)
  <2>. HIDE DEF e, S
  <2>1. /\ Len(entries') = Len(entries) + 1 /\ entries' \in Seq(S) /\ entries'[Len(entries) + 1] = e
        /\ \A i \in 1 .. Len(entries) : entries'[i] = entries[i]
    BY <1>1, <1>3, AppendProperties
  <2>2. Len(entries) \in Nat /\ DOMAIN entries = 1 .. Len(entries) /\ DOMAIN entries' = 1 .. Len(entries) + 1
    BY <1>1, <2>1
  <2>3. \A i \in DOMAIN entries' \ DOMAIN entries : i = Len(entries) + 1
    BY <2>2
  <2>. QED
    BY <2>1, <2>2, <2>3 DEF e
<1>. QED
  BY <1>2, <1>3 DEF Grows, Kept

\* An entry that is stored is a whole answer of a request that may be cached.
LEMMA EntriesKept ==
  ASSUME Types, \A x \in Requests : CallInv(x), EntriesInv, [Next]_vars
  PROVE  EntriesInv'
<1>1. /\ ask' = ask /\ Asked' = Asked /\ Asked \subseteq Requests
      /\ \A x : KeyOf(x)' = KeyOf(x) /\ Eligible(x)' = Eligible(x)
  BY AskStays, Asking DEF Types, Asked, KeyOf, Eligible, Kind, On
<1>2. CASE entries' = entries
  BY <1>1, <1>2, AnswersStay DEF EntriesInv
<1>3. ASSUME NEW r \in Asked, Stores(r)
      PROVE  EntriesInv'
  <2>1. /\ DOMAIN entries \subseteq DOMAIN entries' /\ \A i \in DOMAIN entries : entries'[i] = entries[i]
        /\ \A i \in DOMAIN entries' \ DOMAIN entries : entries'[i] = [key |-> KeyOf(r), from |-> r]
    BY <1>3, Grown, StoreGrows
  <2>2. answer[r] = "whole" /\ Eligible(r)
    BY <1>1, <1>3 DEF Stores, CallInv, None
  <2>3. ASSUME NEW i \in DOMAIN entries'
        PROVE  /\ entries'[i].from \in Asked /\ entries'[i].key = KeyOf(entries'[i].from)
               /\ answer'[entries'[i].from] = "whole" /\ Eligible(entries'[i].from)
    <3>1. CASE i \in DOMAIN entries
      BY <1>1, <2>1, <3>1, AnswersStay DEF EntriesInv
    <3>2. CASE i \notin DOMAIN entries
      BY <1>1, <2>1, <2>2, <3>2, AnswersStay
    <3>. QED
      BY <3>1, <3>2
  <2>. QED
    BY <1>1, <2>3 DEF EntriesInv
<1>. QED
  BY <1>2, <1>3, StoresOnly

\* What is found is in scope, and near enough, when it is found and ever after.
LEMMA HitsKept ==
  ASSUME Types, [Next]_vars, NEW x \in Asked, HitInv(x)
  PROVE  HitInv(x)'
<1>1. ask' = ask /\ KeyOf(x)' = KeyOf(x) /\ x \in Requests /\ Asked \subseteq Requests
      /\ KeyOf(x).question \in Questions
  BY AskStays, Asking, KeyTyped DEF Types, KeyOf, Kind, On, Key
<1>2. ASSUME hit'[x] = hit[x]
      PROVE  HitInv(x)'
  <2>1. DOMAIN entries \subseteq DOMAIN entries' /\ \A i \in DOMAIN entries : entries'[i] = entries[i]
    BY StoresOnly, StoreGrows, Grown
  <2>2. ASSUME hit[x] # 0
        PROVE  /\ hit[x] \in DOMAIN entries' /\ hit[x] \in InScope(entries', KeyOf(x))
               /\ Near(entries', KeyOf(x), hit[x]) >= Threshold
    BY <2>1, <2>2 DEF HitInv, InScope, Near
  <2>. QED
    BY <1>1, <1>2, <2>2 DEF HitInv
<1>3. CASE Search(x)
  <2>1. PICK i : /\ hit' = [hit EXCEPT ![x] = i] /\ entries' = entries
                 /\ i = Exact(entries, KeyOf(x)) \/ i \in Lookups(entries, KeyOf(x), ask.hosted)
    BY <1>3 DEF Search
  <2>2. hit'[x] = i
    BY <1>1, <2>1 DEF Types
  <2>3. i # 0 => /\ i \in DOMAIN entries /\ i \in InScope(entries, KeyOf(x))
                 /\ Near(entries, KeyOf(x), i) >= Threshold
    BY <1>1, <2>1, Found
  <2>. QED
    BY <1>1, <2>1, <2>2, <2>3 DEF HitInv
<1>4. ASSUME NEW r \in Asked, Own(r), ~Search(x)
      PROVE  hit'[x] = hit[x]
  <2>1. CASE x # r
    BY <1>1, <1>4, <2>1, OthersStay DEF Untouched
  <2>2. CASE Refuse(r) \/ Block(r) \/ Admit(r) \/ Cancel(r) \/ Call(r) \/ HandText(r)
    BY <2>2 DEF Refuse, Block, Admit, Cancel, Call, TaskEnds, Callbacks, HandText, cacheVars
  <2>3. CASE Handler(r)
    BY <2>3 DEF Handler, AfterExact, AfterEmbed, AfterLookup, AfterRecord, AfterCall, AfterStore,
                FirstPiece, Relay, EndStream, cacheVars
  <2>4. CASE Thread(r) /\ ~Search(r)
    BY <2>4 DEF Thread, ThreadStarts, Embed, Record, StoreCount, StoreInsert, StoreInMemory
  <2>. QED
    BY <1>4, <2>1, <2>2, <2>3, <2>4 DEF Own
<1>5. CASE Shutdown \/ Close \/ UNCHANGED vars
  BY <1>2, <1>5 DEF Shutdown, Close, vars, cacheVars
<1>. QED
  BY <1>2, <1>3, <1>4, <1>5 DEF Next, Own

-----------------------------------------------------------------------------
(* The cache's limit.                                                      *)

\* What one more entry does to the number of a team's.
LEMMA SizeGrows ==
  ASSUME Types, NEW r \in Asked, NEW shelf, NEW team
  PROVE  /\ Size(entries, shelf, team) \in Nat
         /\ entries' = Kept(entries, KeyOf(r), r) =>
              Size(entries', shelf, team) =
                Size(entries, shelf, team)
                  + (IF KeyOf(r).shelf = shelf /\ KeyOf(r).team = team THEN 1 ELSE 0)
<1>. DEFINE A  == {i \in DOMAIN entries : entries[i].key.shelf = shelf /\ entries[i].key.team = team}
            A1 == {i \in DOMAIN entries' : entries'[i].key.shelf = shelf /\ entries'[i].key.team = team}
            n  == Len(entries)
<1>1. n \in Nat /\ DOMAIN entries = 1 .. n
  BY DEF Types
<1>2. IsFiniteSet(A) /\ Cardinality(A) \in Nat
  <2>1. IsFiniteSet(1 .. n)
    BY <1>1, FS_Interval
  <2>2. A \subseteq 1 .. n
    BY <1>1
  <2>. HIDE DEF A, n
  <2>. QED
    BY <2>1, <2>2, FS_Subset, FS_CardinalityType
<1>3. ASSUME entries' = Kept(entries, KeyOf(r), r)
      PROVE  Cardinality(A1) = Cardinality(A) + (IF KeyOf(r).shelf = shelf /\ KeyOf(r).team = team THEN 1 ELSE 0)
  <2>1. /\ DOMAIN entries \subseteq DOMAIN entries' /\ \A i \in DOMAIN entries : entries'[i] = entries[i]
        /\ \A i \in DOMAIN entries' \ DOMAIN entries : entries'[i] = [key |-> KeyOf(r), from |-> r]
    BY <1>3, Grown DEF Grows
  <2>2. DOMAIN entries' = 1 .. n + 1 /\ n + 1 \notin 1 .. n /\ 1 .. n + 1 = (1 .. n) \cup {n + 1}
    <3>1. entries \in Seq([key : Key, from : Requests]) /\ [key |-> KeyOf(r), from |-> r] \in [key : Key, from : Requests]
      BY KeyTyped, Asking DEF Types
    <3>2. Len(entries') = n + 1 /\ entries' \in Seq([key : Key, from : Requests])
      BY <1>3, <3>1 DEF Kept
    <3>3. DOMAIN entries' = 1 .. n + 1
      BY <3>2
    <3>. HIDE DEF n
    <3>. QED
      BY <1>1, <3>3
  <2>3. entries'[n + 1].key = KeyOf(r)
    BY <1>1, <2>1, <2>2
  <2>. HIDE DEF n
  <2>4. CASE KeyOf(r).shelf = shelf /\ KeyOf(r).team = team
    <3>1. A1 = A \cup {n + 1} /\ n + 1 \notin A
      BY <1>1, <2>1, <2>2, <2>3, <2>4
    <3>. HIDE DEF A, A1
    <3>2. Cardinality(A1) = Cardinality(A) + 1
      BY <1>2, <3>1, FS_AddElement
    <3>. QED
      BY <2>4, <3>2
  <2>5. CASE ~(KeyOf(r).shelf = shelf /\ KeyOf(r).team = team)
    <3>1. A1 = A
      BY <1>1, <2>1, <2>2, <2>3, <2>5
    <3>. HIDE DEF A, A1
    <3>2. Cardinality(A1) = Cardinality(A) + 0
      BY <1>2, <3>1
    <3>. QED
      BY <2>5, <3>2
  <2>. QED
    BY <2>4, <2>5
<1>4. Size(entries, shelf, team) = Cardinality(A) /\ Size(entries', shelf, team) = Cardinality(A1)
  BY DEF Size
<1>. HIDE DEF A, A1
<1>. QED
  BY <1>2, <1>3, <1>4

\* The workers between the count and the insert are no more than there are.
LEMMA InsertingFew ==
  ASSUME NEW t
  PROVE  /\ IsFiniteSet(Inserting(t)) /\ Cardinality(Inserting(t)) \in Nat /\ Cardinality(Workers) \in Nat
         /\ Cardinality(Inserting(t)) <= Cardinality(Workers)
BY Numbers, Fewer DEF Inserting

\* A step keeps the caches within their limits.
LEMMA LocksKept ==
  ASSUME Types, LockInv, [Next]_vars
  PROVE  LockInv'
<1>1. /\ ask' = ask /\ Asked' = Asked /\ \A x : Kind(x)' = Kind(x)
      /\ \A x \in Asked : /\ On(x) \in Workers /\ Kind(x).team \in Teams /\ KeyOf(x).team = Kind(x).team
                          /\ KeyOf(x).shelf = IF ask.hosted THEN "shared" ELSE On(x)
  BY AskStays, Asking, KeyTyped DEF Types, Asked, Kind, Kinds
<1>2. CASE entries' = entries /\ lock' = lock
  <2>1. \A t : Inserting(t)' = Inserting(t)
    BY <1>1, <1>2 DEF Inserting
  <2>2. \A s, t : Size(entries', s, t) = Size(entries, s, t)
    BY <1>2
  <2>. QED
    BY <1>1, <1>2, <2>1, <2>2 DEF LockInv
<1>3. lock \in [Workers -> Requests \cup {None}] /\ MaxEntries \in Nat /\ None \notin Asked
  BY Numbers, Asking DEF Types
\* The hosted table has room when a worker has counted: with all the others about to insert
\* there are at most as many too many as there are other workers.
<1>4. ASSUME NEW r \in Asked, StoreCount(r), lock' # lock
      PROVE  LockInv'
  <2>1. /\ lock[On(r)] = None /\ ask.hosted /\ entries' = entries
        /\ lock' = [lock EXCEPT ![On(r)] = r] /\ ~Full(entries, KeyOf(r))
    BY <1>4 DEF StoreCount, LockFree
  <2>2. \A w \in Workers : lock'[w] # None => lock'[w] \in Asked /\ ask.hosted
    BY <1>1, <1>3, <2>1 DEF LockInv
  <2>3. ASSUME Workers # {}, NEW t \in Teams
        PROVE  Size(entries', "shared", t) + Cardinality(Inserting(t)')
                 <= MaxEntries + Cardinality(Workers) - 1
    <3>. DEFINE size == Size(entries, "shared", t)
                ins  == Cardinality(Inserting(t))
                ins1 == Cardinality(Inserting(t)')
                all  == Cardinality(Workers)
    <3>1. size \in Nat /\ ins \in Nat /\ all \in Nat
      BY InsertingFew, SizeGrows
    <3>2. ins1 \in Nat /\ ins1 <= all
      <4>1. Inserting(t)' \subseteq Workers
        BY DEF Inserting
      <4>. QED
        BY <4>1, Numbers, Fewer
    <3>3. CASE t = Kind(r).team
      <4>1. ~(size >= MaxEntries)
        BY <1>1, <2>1, <3>3 DEF Full
      <4>. HIDE DEF size, ins1, all
      <4>2. size + ins1 <= MaxEntries + all - 1
        BY <1>3, <3>1, <3>2, <4>1
      <4>. QED
        BY <2>1, <4>2 DEF size, ins1, all
    <3>4. CASE t # Kind(r).team
      <4>1. Inserting(t)' = Inserting(t)
        BY <1>1, <1>3, <2>1, <3>4 DEF Inserting
      <4>. QED
        BY <2>1, <2>3, <4>1 DEF LockInv
    <3>. QED
      BY <3>3, <3>4
  <2>. QED
    BY <1>1, <2>1, <2>2, <2>3 DEF LockInv
\* The insert turns a worker that was about to into an entry more.
<1>5. ASSUME NEW r \in Asked, StoreInsert(r)
      PROVE  LockInv'
  <2>1. /\ lock[On(r)] = r /\ entries' = Kept(entries, KeyOf(r), r)
        /\ lock' = [lock EXCEPT ![On(r)] = None]
    BY <1>5 DEF StoreInsert
  <2>2. ask.hosted
    BY <1>1, <1>3, <2>1 DEF LockInv
  <2>3. \A w \in Workers : lock'[w] # None => lock'[w] \in Asked
    BY <1>1, <1>3, <2>1 DEF LockInv
  <2>4. ASSUME Workers # {}, NEW t \in Teams
        PROVE  Size(entries', "shared", t) + Cardinality(Inserting(t)')
                 <= MaxEntries + Cardinality(Workers) - 1
    <3>. DEFINE size  == Size(entries, "shared", t)
                size1 == Size(entries', "shared", t)
                ins   == Cardinality(Inserting(t))
                ins1  == Cardinality(Inserting(t)')
                all   == Cardinality(Workers)
    <3>1. size \in Nat /\ ins \in Nat /\ all \in Nat /\ size + ins <= MaxEntries + all - 1
      BY <2>2, <2>4, InsertingFew, SizeGrows DEF LockInv
    <3>2. size1 = size + (IF t = Kind(r).team THEN 1 ELSE 0)
      BY <1>1, <2>1, <2>2, SizeGrows
    <3>3. ins1 = ins - (IF t = Kind(r).team THEN 1 ELSE 0)
      <4>1. CASE t = Kind(r).team
        <5>1. Inserting(t)' = Inserting(t) \ {On(r)} /\ On(r) \in Inserting(t)
          BY <1>1, <1>3, <2>1, <4>1 DEF Inserting
        <5>2. ins1 = ins - 1
          BY <5>1, InsertingFew, FS_RemoveElement
        <5>. QED
          BY <4>1, <5>2
      <4>2. CASE t # Kind(r).team
        <5>1. Inserting(t)' = Inserting(t)
          BY <1>1, <1>3, <2>1, <4>2 DEF Inserting
        <5>2. ins1 = ins - 0
          BY <3>1, <5>1
        <5>. QED
          BY <4>2, <5>2
      <4>. QED
        BY <4>1, <4>2
    <3>. HIDE DEF size, size1, ins, ins1, all
    <3>4. size1 + ins1 <= MaxEntries + all - 1
      <4>1. CASE t = Kind(r).team
        BY <1>3, <3>1, <3>2, <3>3, <4>1
      <4>2. CASE t # Kind(r).team
        BY <1>3, <3>1, <3>2, <3>3, <4>2
      <4>. QED
        BY <4>1, <4>2
    <3>. QED
      BY <3>4 DEF size1, ins1, all
  <2>. QED
    BY <1>1, <2>2, <2>3, <2>4 DEF LockInv
<1>6. ASSUME NEW r \in Asked, StoreInMemory(r)
      PROVE  LockInv'
  <2>1. /\ ~ask.hosted /\ lock' = lock
        /\ entries' = IF Full(entries, KeyOf(r)) THEN entries ELSE Kept(entries, KeyOf(r), r)
    BY <1>6 DEF StoreInMemory
  <2>2. \A w \in Workers : lock'[w] = None
    BY <2>1 DEF LockInv
  <2>3. ASSUME Workers # {}, NEW t \in Teams, NEW w \in Workers
        PROVE  Size(entries', w, t) <= MaxEntries
    <3>. DEFINE size  == Size(entries, w, t)
                size1 == Size(entries', w, t)
    <3>1. size \in Nat /\ size <= MaxEntries
      BY <2>1, <2>3, SizeGrows DEF LockInv
    <3>2. CASE Full(entries, KeyOf(r))
      BY <2>1, <3>1, <3>2
    <3>3. CASE ~Full(entries, KeyOf(r)) /\ KeyOf(r).shelf = w /\ KeyOf(r).team = t
      <4>1. size1 = size + 1 /\ ~(size >= MaxEntries)
        BY <2>1, <3>3, SizeGrows DEF Full
      <4>. HIDE DEF size, size1
      <4>2. size1 <= MaxEntries
        BY <1>3, <3>1, <4>1
      <4>. QED
        BY <4>2 DEF size1
    <3>4. CASE ~Full(entries, KeyOf(r)) /\ ~(KeyOf(r).shelf = w /\ KeyOf(r).team = t)
      <4>1. size1 = size + 0
        BY <2>1, <3>4, SizeGrows
      <4>. HIDE DEF size, size1
      <4>2. size1 <= MaxEntries
        BY <1>3, <3>1, <4>1
      <4>. QED
        BY <4>2 DEF size1
    <3>. QED
      BY <3>2, <3>3, <3>4
  <2>. QED
    BY <1>1, <2>1, <2>2, <2>3 DEF LockInv
<1>7. ASSUME NEW r \in Asked, Stores(r)
      PROVE  LockInv'
  BY <1>2, <1>4, <1>5, <1>6, <1>7 DEF Stores, StoreCount
<1>. QED
  BY <1>2, <1>7, StoresOnly

\* Every step keeps what is true of the caches.
LEMMA CachesKept ==
  ASSUME Types, \A x \in Requests : CallInv(x), CacheInv, [Next]_vars
  PROVE  CacheInv'
<1>1. Asked' = Asked
  BY AskStays DEF Asked
<1>. QED
  BY <1>1, EntriesKept, LocksKept, HitsKept DEF CacheInv

-----------------------------------------------------------------------------
(* The count of embeddings.                                                *)

\* What a step of a request does to the count is what it does to those who wait.
LEMMA CountedSteps ==
  ASSUME Types, NEW r \in Asked, r \in Requests, CallInv(r), Own(r)
  PROVE  \/ /\ at[r] # "embed" /\ at'[r] = "embed" /\ embedding[On(r)] < MaxPending
            /\ embedding' = [embedding EXCEPT ![On(r)] = @ + 1]
         \/ /\ at[r] = "embed" /\ at'[r] # "embed"
            /\ embedding' = [embedding EXCEPT ![On(r)] = @ - 1]
         \/ (at'[r] = "embed" <=> at[r] = "embed") /\ embedding' = embedding
<1>1. \A what : Answer(r, what) => at'[r] = "answered"
  BY DEF Answer, Types
<1>2. \A what \in Whats : Await(r, what) => at'[r] = what
  BY AwaitTypes
<1>3. Dispatch(r) => at'[r] # "embed"
  BY DispatchTypes
<1>4. CASE Refuse(r) \/ Block(r)
  BY <1>1, <1>4 DEF Refuse, Block, cacheVars
<1>5. CASE Admit(r)
  BY <1>2, <1>3, <1>5 DEF Admit, Whats
<1>6. CASE Cancel(r)
  <2>1. at'[r] = "gone" /\ embedding' = [embedding EXCEPT ![On(r)] = IF at[r] = "embed" THEN @ - 1 ELSE @]
    BY <1>6 DEF Cancel, Types
  <2>2. CASE at[r] = "embed"
    BY <2>1, <2>2
  <2>3. CASE at[r] # "embed"
    BY <2>1, <2>3 DEF Types
  <2>. QED
    BY <2>2, <2>3
<1>7. CASE AfterExact(r)
  <2>1. at[r] = "exact"
    BY <1>7 DEF AfterExact, Resumes
  <2>. QED
    BY <1>2, <1>3, <1>7, <2>1 DEF AfterExact, Whats
<1>8. CASE AfterEmbed(r)
  BY <1>2, <1>8 DEF AfterEmbed, Resumes, Whats
<1>9. CASE AfterLookup(r)
  BY <1>2, <1>3, <1>9 DEF AfterLookup, Resumes, Whats
<1>10. CASE AfterRecord(r) \/ AfterStore(r)
  BY <1>1, <1>10 DEF AfterRecord, AfterStore, Resumes, cacheVars
<1>11. CASE AfterCall(r)
  BY <1>1, <1>2, <1>11 DEF AfterCall, AnswerWhole, Whats
<1>12. CASE FirstPiece(r) \/ Relay(r) \/ EndStream(r)
  <2>1. embedding' = embedding /\ at[r] # "embed"
    BY <1>12 DEF FirstPiece, Relay, EndStream, cacheVars
  <2>2. at'[r] # "embed"
    <3>1. CASE FirstPiece(r)
      BY <1>1, <3>1 DEF FirstPiece, Types
    <3>2. CASE Relay(r)
      BY <2>1, <3>2 DEF Relay, handlerVars
    <3>3. CASE EndStream(r)
      BY <1>1, <3>3 DEF EndStream
    <3>. QED
      BY <1>12, <3>1, <3>2, <3>3
  <2>. QED
    BY <2>1, <2>2
<1>13. CASE Thread(r)
  BY <1>13 DEF Thread, ThreadStarts, Search, Embed, Record, StoreCount, StoreInsert, StoreInMemory,
               handlerVars
<1>14. CASE Call(r) \/ HandText(r)
  BY <1>14 DEF Call, TaskEnds, Callbacks, HandText, handlerVars, cacheVars
<1>. QED
  BY <1>4, <1>5, <1>6, <1>7, <1>8, <1>9, <1>10, <1>11, <1>12, <1>13, <1>14 DEF Own, Handler

\* An embedding starts only in a pool that has a thread for it.
LEMMA StartedSteps ==
  ASSUME Types, NEW r \in Asked, r \in Requests, CallInv(r), Own(r),
         thread'[r] = Job("embed", "running")
  PROVE  thread[r] = Job("embed", "running") \/ Cardinality(Embedding(On(r))) < MaxPending
<1>. DEFINE job == Job("embed", "running")
<1>1. job.what = "embed" /\ job.state = "running" /\ NoJob.state = "done"
  BY DEF Job, NoJob
<1>2. \A what \in Whats : ~Await(r, what)
  BY <1>1, AwaitTypes DEF Whats
<1>3. thread \in [Requests -> Jobs]
  BY DEF Types, Jobs
<1>4. ASSUME NEW s \in {"done"}, thread' = [thread EXCEPT ![r].state = s]
      PROVE  FALSE
  <2>1. thread'[r] = [thread[r] EXCEPT !.state = s] /\ thread[r] \in Jobs
    BY <1>3, <1>4
  <2>2. thread'[r].state = "done"
    BY <2>1 DEF Jobs
  <2>. QED
    BY <1>1, <2>2
<1>. HIDE DEF job
<1>5. ASSUME thread' = thread
      PROVE  thread[r] = job
  BY <1>5 DEF job
<1>6. CASE Refuse(r) \/ Block(r) \/ Call(r) \/ HandText(r)
  BY <1>5, <1>6 DEF Refuse, Block, Call, TaskEnds, Callbacks, HandText, cacheVars, job
<1>7. CASE Admit(r)
  BY <1>2, <1>5, <1>7 DEF Admit, Whats, job
<1>8. CASE Cancel(r)
  <2>1. thread'[r] = IF thread[r].state = "queued" THEN NoJob ELSE thread[r]
    BY <1>8 DEF Cancel, Types
  <2>2. thread'[r] # NoJob
    BY <1>1 DEF job
  <2>. QED
    BY <2>1, <2>2
<1>9. CASE Handler(r)
  BY <1>2, <1>5, <1>9
  DEF Handler, AfterExact, AfterEmbed, AfterLookup, AfterRecord, AfterCall, AfterStore,
      FirstPiece, Relay, EndStream, cacheVars, Whats, job
<1>10. CASE ThreadStarts(r)
  BY <1>10 DEF ThreadStarts
<1>11. CASE Search(r) \/ Embed(r) \/ Record(r) \/ StoreInsert(r) \/ StoreInMemory(r)
  BY <1>4, <1>11 DEF Search, Embed, Record, StoreInsert, StoreInMemory, Works
<1>12. CASE StoreCount(r)
  BY <1>4, <1>5, <1>12 DEF StoreCount, job
<1>. QED
  BY <1>6, <1>7, <1>8, <1>9, <1>10, <1>11, <1>12 DEF Own, Thread

\* Both are counted.
LEMMA WaitingFinite ==
  ASSUME ask \in Scenarios, NEW w
  PROVE  /\ IsFiniteSet(Waiting(w)) /\ Cardinality(Waiting(w)) \in Nat
         /\ IsFiniteSet(Embedding(w)) /\ Cardinality(Embedding(w)) \in Nat
BY Asking, Numbers, Fewer DEF Waiting, Embedding

\* Every step keeps the counts: who begins to wait is added, and whoever stops is taken off.
LEMMA CountKept ==
  ASSUME Types, \A x \in Requests : CallInv(x), CountInv, [Next]_vars
  PROVE  CountInv'
<1>1. ask' = ask /\ Asked' = Asked /\ Asked \subseteq Requests /\ (\A x : On(x)' = On(x))
      /\ (\A x \in Asked : On(x) \in Workers) /\ ask \in Scenarios
  BY AskStays, Asking DEF Types, Asked, On
<1>2. embedding \in [Workers -> Int] /\ MaxPending \in Nat
  BY Numbers DEF Types
<1>3. CASE UNCHANGED <<at, thread, embedding>>
  <2>1. \A w : Waiting(w)' = Waiting(w) /\ Embedding(w)' = Embedding(w)
    BY <1>1, <1>3 DEF Waiting, Embedding
  <2>. QED
    BY <1>3, <2>1 DEF CountInv
<1>4. ASSUME NEW r \in Asked, Own(r), NEW w \in Workers
      PROVE  embedding'[w] = Cardinality(Waiting(w)') /\ embedding'[w] <= MaxPending
  <2>. DEFINE n  == Cardinality(Waiting(w))
              n1 == Cardinality(Waiting(w)')
              e  == embedding[w]
  <2>1. \A x \in Asked \ {r} : at'[x] = at[x]
    BY <1>1, <1>4, OthersStay DEF Untouched
  <2>2. e = n /\ e <= MaxPending /\ n \in Nat /\ IsFiniteSet(Waiting(w))
    BY <1>1, WaitingFinite DEF CountInv
  <2>3. CASE \/ On(r) # w
             \/ (at'[r] = "embed" <=> at[r] = "embed") /\ embedding' = embedding
    <3>1. Waiting(w)' = Waiting(w)
      BY <1>1, <2>1, <2>3 DEF Waiting
    <3>2. embedding'[w] = embedding[w]
      BY <1>1, <1>2, <1>4, <2>3, CountedSteps
    <3>. QED
      BY <2>2, <3>1, <3>2
  <2>4. CASE /\ On(r) = w /\ at[r] # "embed" /\ at'[r] = "embed" /\ embedding[w] < MaxPending
             /\ embedding' = [embedding EXCEPT ![w] = @ + 1]
    <3>1. Waiting(w)' = Waiting(w) \cup {r} /\ r \notin Waiting(w)
      BY <1>1, <2>1, <2>4 DEF Waiting
    <3>2. n1 = n + 1
      BY <2>2, <3>1, FS_AddElement
    <3>3. embedding'[w] = e + 1 /\ e < MaxPending
      BY <1>2, <2>4
    <3>. HIDE DEF n, n1, e
    <3>4. embedding'[w] = n1 /\ embedding'[w] <= MaxPending
      BY <1>2, <2>2, <3>2, <3>3
    <3>. QED
      BY <3>4 DEF n1
  <2>5. CASE /\ On(r) = w /\ at[r] = "embed" /\ at'[r] # "embed"
             /\ embedding' = [embedding EXCEPT ![w] = @ - 1]
    <3>1. Waiting(w)' = Waiting(w) \ {r} /\ r \in Waiting(w)
      BY <1>1, <2>1, <2>5 DEF Waiting
    <3>2. n1 = n - 1
      BY <2>2, <3>1, FS_RemoveElement
    <3>3. embedding'[w] = e - 1
      BY <1>2, <2>5
    <3>. HIDE DEF n, n1, e
    <3>4. embedding'[w] = n1 /\ embedding'[w] <= MaxPending
      BY <1>2, <2>2, <3>2, <3>3
    <3>. QED
      BY <3>4 DEF n1
  <2>6. CASE On(r) = w
    <3>1. \/ /\ at[r] # "embed" /\ at'[r] = "embed" /\ embedding[w] < MaxPending
             /\ embedding' = [embedding EXCEPT ![w] = @ + 1]
          \/ /\ at[r] = "embed" /\ at'[r] # "embed"
             /\ embedding' = [embedding EXCEPT ![w] = @ - 1]
          \/ (at'[r] = "embed" <=> at[r] = "embed") /\ embedding' = embedding
      BY <1>1, <1>4, <2>6, CountedSteps
    <3>. QED
      BY <2>3, <2>4, <2>5, <2>6, <3>1
  <2>. QED
    BY <2>3, <2>6
<1>5. ASSUME NEW r \in Asked, Own(r), NEW w \in Workers
      PROVE  Cardinality(Embedding(w)') <= MaxPending
  <2>. DEFINE n  == Cardinality(Embedding(w))
              n1 == Cardinality(Embedding(w)')
  <2>1. \A x \in Asked \ {r} : thread'[x] = thread[x]
    BY <1>1, <1>5, OthersStay DEF Untouched
  <2>2. n \in Nat /\ IsFiniteSet(Embedding(w)) /\ n <= MaxPending
    BY <1>1, WaitingFinite DEF CountInv
  <2>3. CASE Embedding(w)' \subseteq Embedding(w)
    <3>1. n1 \in Nat /\ n1 <= n
      BY <2>2, <2>3, Fewer
    <3>. HIDE DEF n, n1
    <3>2. n1 <= MaxPending
      BY <1>2, <2>2, <3>1
    <3>. QED
      BY <3>2 DEF n1
  <2>4. CASE ~(Embedding(w)' \subseteq Embedding(w))
    <3>1. /\ Embedding(w)' \subseteq Embedding(w) \cup {r} /\ On(r) = w
          /\ thread'[r] = Job("embed", "running") /\ thread[r] # Job("embed", "running")
      BY <1>1, <2>1, <2>4 DEF Embedding, Job
    <3>2. n < MaxPending
      BY <1>1, <1>5, <3>1, StartedSteps
    <3>3. r \notin Embedding(w)
      BY <3>1 DEF Embedding
    <3>4. IsFiniteSet(Embedding(w) \cup {r}) /\ Cardinality(Embedding(w) \cup {r}) = n + 1
      BY <2>2, <3>3, FS_AddElement
    <3>5. n1 \in Nat /\ n1 <= n + 1
      BY <3>1, <3>4, Fewer
    <3>. HIDE DEF n, n1
    <3>6. n1 <= MaxPending
      BY <1>2, <2>2, <3>2, <3>5
    <3>. QED
      BY <3>6 DEF n1
  <2>. QED
    BY <2>3, <2>4
<1>6. ASSUME NEW r \in Asked, Own(r)
      PROVE  CountInv'
  BY <1>4, <1>5, <1>6 DEF CountInv
<1>7. CASE Shutdown \/ Close \/ UNCHANGED vars
  BY <1>3, <1>7 DEF Shutdown, Close, vars, handlerVars, cacheVars
<1>. QED
  BY <1>6, <1>7 DEF Next, Own

-----------------------------------------------------------------------------
(* The invariant, and the properties it gives.                             *)

\* The proxy starts so.
LEMMA InitHolds ==
  ASSUME Init
  PROVE  IInv
<1>1. /\ ask \in Scenarios /\ MaxPieces \in Nat /\ MaxPending \in Nat /\ MaxEntries \in Nat
      /\ None \notin Requests
  BY Numbers DEF Init
<1>2. NoJob \in Jobs /\ NoJob.what = None /\ NoJob.state = "done"
  BY DEF NoJob, Job, Jobs
<1>3. Types
  <2>1. /\ thread \in [Requests -> Jobs] /\ hit \in [Requests -> 0 .. 0] /\ Len(entries) = 0
        /\ entries \in Seq([key : Key, from : Requests])
    BY <1>2 DEF Init
  <2>2. <<>> \in Seq(0 .. MaxPieces) /\ 0 \in 0 .. MaxPieces
    BY <1>1
  <2>3. /\ queue \in [Requests -> Seq(0 .. MaxPieces)] /\ held \in [Requests -> Seq(0 .. MaxPieces)]
        /\ got \in [Requests -> Seq(0 .. MaxPieces)] /\ handed \in [Requests -> 0 .. MaxPieces]
    BY <2>2 DEF Init
  <2>4. embedding \in [Workers -> Int] /\ lock \in [Workers -> Requests \cup {None}]
    BY DEF Init
  <2>5. /\ at \in [Requests -> {"new", "answered", "gone"} \cup Handling] /\ caching \in [Requests -> BOOLEAN]
        /\ task \in [Requests -> {None, "running", "ok", "failed", "escaped"}]
        /\ tasks \subseteq Requests /\ reported \subseteq Requests
        /\ row \in [Requests -> {None, "in_flight", "complete"}]
        /\ answer \in [Requests -> {None, "whole", "cut"}]
        /\ reply \in [Requests -> {None, "status", "hit", "whole", "done", "error", "broken"}]
        /\ server \in {"open", "closing", "closed"}
    BY DEF Init
  <2>. QED
    BY <1>1, <2>1, <2>3, <2>4, <2>5 DEF Types, Jobs
<1>4. ASSUME NEW r \in Requests
      PROVE  CallInv(r) /\ StreamInv(r)
  <2>1. CallInv(r)
    BY <1>2 DEF Init, CallInv, Whats, Searching, Handling, None
  <2>2. got[r] = Text(Len(got[r])) /\ InQueue(r) = 0 /\ Len(queue[r]) = 0 /\ Len(held[r]) = 0
        /\ got[r] = <<>> /\ held[r] = <<>>
    BY DEF Init, Text, InQueue
  <2>3. at[r] = "new" /\ reply[r] = None /\ handed[r] = 0
    BY DEF Init
  <2>. QED
    BY <2>1, <2>2, <2>3 DEF StreamInv, None
<1>5. CacheInv
  <2>1. EntriesInv /\ \A r \in Asked : HitInv(r)
    BY <1>1, Asking DEF Init, EntriesInv, HitInv
  <2>2. \A w \in Workers : lock[w] = None
    BY DEF Init
  <2>3. \A s, t : Size(entries, s, t) = 0
    BY FS_EmptySet DEF Init, Size
  <2>4. \A t : Cardinality(Inserting(t)) = 0
    BY <2>2, FS_EmptySet DEF Inserting
  <2>5. Workers # {} => Cardinality(Workers) \in Nat /\ Cardinality(Workers) # 0
    BY Numbers, FS_EmptySet, FS_CardinalityType
  <2>6. ASSUME Workers # {}, NEW t \in Teams
        PROVE  IF ask.hosted
               THEN Size(entries, "shared", t) + Cardinality(Inserting(t)) <= MaxEntries + Cardinality(Workers) - 1
               ELSE \A w \in Workers : Size(entries, w, t) <= MaxEntries
    <3>1. 0 + 0 <= MaxEntries + Cardinality(Workers) - 1 /\ 0 <= MaxEntries
      BY <1>1, <2>5, <2>6
    <3>. QED
      BY <2>3, <2>4, <3>1
  <2>. QED
    BY <2>1, <2>2, <2>6 DEF CacheInv, LockInv
<1>6. CountInv
  <2>1. \A w \in Workers : Waiting(w) = {} /\ Embedding(w) = {} /\ embedding[w] = 0
    BY <1>1, <1>2, Asking DEF Init, Waiting, Embedding, Job, None
  <2>. QED
    BY <1>1, <2>1, FS_EmptySet DEF CountInv
<1>. QED
  BY <1>3, <1>4, <1>5, <1>6 DEF IInv

\* And every step keeps it.
LEMMA StepHolds ==
  ASSUME IInv, [Next]_vars
  PROVE  IInv'
BY TypesKept, RequestsKept, CachesKept, CountKept DEF IInv

\* Every state of the proxy satisfies the invariant: what each request's handler, thread,
\* task and queue agree on, what the cache holds, and what the workers' counters count.
THEOREM ProxyInvariance == Spec => []IInv
<1>. QED
  BY InitHolds, StepHolds, PTL DEF Spec

\* What a client is streamed is what the host sent, in order and whole when it is told so,
\* whatever the rehydrator holds back and however long the stream (stream_native).
THEOREM StreamFaithful == Spec => []StreamIsFaithful
<1>1. ASSUME IInv, NEW r \in Asked, Kind(r).stream = "native"
      PROVE  /\ got[r] = Text(Len(got[r])) /\ Len(got[r]) <= handed[r]
             /\ reply[r] = "done" => task[r] = "ok" /\ got[r] = Text(handed[r])
             /\ reply[r] = "error" => task[r] = "failed" /\ got[r] = Text(handed[r])
             /\ reply[r] = "status" => task[r] # "ok" /\ handed[r] = 0 /\ got[r] = <<>>
  <2>1. r \in Requests /\ StreamInv(r) /\ Types
    BY <1>1, Asking DEF IInv, Types
  <2>2. Len(got[r]) \in Nat /\ Len(held[r]) \in Nat /\ handed[r] \in Int
    BY <2>1, Numbers DEF Types
  <2>3. handed[r] - Len(got[r]) - Len(held[r]) \in Nat
    BY <2>1 DEF StreamInv, InQueue
  <2>4. Len(got[r]) <= handed[r]
    <3>. DEFINE a == Len(got[r])
                b == Len(held[r])
                n == handed[r]
    <3>. HIDE DEF a, b, n
    <3>1. a \in Nat /\ b \in Nat /\ n \in Int /\ n - a - b \in Nat
      BY <2>2, <2>3 DEF a, b, n
    <3>2. a <= n
      BY <3>1
    <3>. QED
      BY <3>2 DEF a, n
  <2>. QED
    BY <1>1, <2>1, <2>4 DEF StreamInv
<1>2. IInv => StreamIsFaithful
  BY <1>1 DEF StreamIsFaithful
<1>. QED
  BY <1>2, ProxyInvariance, PTL

\* A client that has its answer has its row reported for sealing, and a closed proxy has no
\* call left and every completed row reported, whoever was cancelled when.
THEOREM RowsReported == Spec => []ReportedInTime
<1>1. ASSUME IInv, NEW r \in Requests
      PROVE  /\ at[r] = "answered" /\ row[r] = "complete" => r \in reported
             /\ server = "closed" =>
                  /\ task[r] # "running"
                  /\ row[r] = "in_flight" => task[r] = "escaped"
                  /\ task[r] # None /\ row[r] = "complete" => r \in reported
  <2>1. CallInv(r) /\ task[r] \in {None, "running", "ok", "failed", "escaped"}
    BY <1>1 DEF IInv, Types
  <2>. QED
    BY <2>1 DEF CallInv
<1>2. IInv => ReportedInTime
  BY <1>1 DEF ReportedInTime, AnsweredIsReported, ClosedIsSettled
<1>. QED
  BY <1>2, ProxyInvariance, PTL

\* A cached answer is given only to its own team's question in its own scope, near enough,
\* and only if both requests may be cached.
LEMMA HitsServeOwn ==
  ASSUME IInv
  PROVE  CacheServesOwn
<1>1. ASSUME NEW r \in Requests, reply[r] = "hit"
      PROVE  LET from == entries[hit[r]].from
             IN  /\ Kind(from).team = Kind(r).team /\ Kind(from).scope = Kind(r).scope
                 /\ Similarity[Kind(r).question, Kind(from).question] >= Threshold
                 /\ ~ask.hosted => On(from) = On(r)
                 /\ answer[from] = "whole"
                 /\ \A q \in {r, from} : Kind(q).bars = {} /\ Kind(q).stream = "no"
  <2>. DEFINE from == entries[hit[r]].from
  <2>1. hit[r] # 0 /\ r \in Asked /\ Eligible(r) /\ ask \in Scenarios
    BY <1>1 DEF IInv, CallInv, Types
  <2>2. /\ hit[r] \in DOMAIN entries /\ hit[r] \in InScope(entries, KeyOf(r))
        /\ Near(entries, KeyOf(r), hit[r]) >= Threshold
    BY <2>1 DEF IInv, CacheInv, HitInv
  <2>3. /\ from \in Asked /\ entries[hit[r]].key = KeyOf(from)
        /\ answer[from] = "whole" /\ Eligible(from)
    BY <2>2 DEF IInv, CacheInv, EntriesInv
  <2>4. /\ KeyOf(from).shelf = KeyOf(r).shelf /\ KeyOf(from).team = KeyOf(r).team
        /\ KeyOf(from).scope = KeyOf(r).scope
        /\ Similarity[KeyOf(r).question, KeyOf(from).question] >= Threshold
    BY <2>2, <2>3 DEF InScope, Near
  <2>5. \A x \in Asked : /\ KeyOf(x).team = Kind(x).team /\ KeyOf(x).scope = Kind(x).scope
                         /\ KeyOf(x).question = Kind(x).question
                         /\ KeyOf(x).shelf = IF ask.hosted THEN "shared" ELSE On(x)
    BY <2>1, KeyTyped
  <2>. HIDE DEF from
  <2>6. /\ Kind(from).team = Kind(r).team /\ Kind(from).scope = Kind(r).scope
        /\ ~ask.hosted => On(from) = On(r)
    BY <2>1, <2>3, <2>4, <2>5
  <2>7. Similarity[Kind(r).question, Kind(from).question] >= Threshold
    <3>1. KeyOf(r).question = Kind(r).question /\ KeyOf(from).question = Kind(from).question
      BY <2>1, <2>3, <2>5
    <3>. QED
      BY <2>4, <3>1
  <2>8. \A q \in {r, from} : Kind(q).bars = {} /\ Kind(q).stream = "no"
    BY <2>1, <2>3 DEF Eligible
  <2>. QED
    BY <2>3, <2>6, <2>7, <2>8 DEF from
<1>. QED
  BY <1>1 DEF CacheServesOwn

\* The limits of the caches, from what the locks are counted for.
LEMMA CachesBounded ==
  ASSUME IInv
  PROVE  CacheBounded
<1>1. LockInv /\ ask \in Scenarios /\ MaxEntries \in Nat
  BY Numbers DEF IInv, CacheInv, Types
<1>2. ASSUME NEW w \in Workers, NEW t \in Teams, ask.hosted
      PROVE  Size(entries, "shared", t) <= MaxEntries + Cardinality(Workers) - 1
  <2>. DEFINE size == Size(entries, "shared", t)
              ins  == Cardinality(Inserting(t))
              all  == Cardinality(Workers)
  <2>1. size + ins <= MaxEntries + all - 1
    BY <1>1, <1>2 DEF LockInv
  <2>2. ins \in Nat /\ all \in Nat
    BY InsertingFew
  <2>3. size \in Nat
    <3>1. IsFiniteSet(1 .. Len(entries)) /\ DOMAIN entries = 1 .. Len(entries)
      BY FS_Interval DEF IInv, Types
    <3>2. {i \in DOMAIN entries : entries[i].key.shelf = "shared" /\ entries[i].key.team = t} \subseteq 1 .. Len(entries)
      BY <3>1
    <3>. QED
      BY <3>1, <3>2, Fewer DEF Size
  <2>. HIDE DEF size, ins, all
  <2>4. size <= MaxEntries + all - 1
    BY <1>1, <2>1, <2>2, <2>3
  <2>. QED
    BY <2>4 DEF size, all
<1>3. ASSUME NEW w \in Workers, NEW t \in Teams, ~ask.hosted
      PROVE  Size(entries, w, t) <= MaxEntries
  BY <1>1, <1>3 DEF LockInv
<1>. QED
  BY <1>2, <1>3 DEF CacheBounded

\* Those who wait for an embedding, and those whose embedding runs on, are counted apart.
LEMMA EmbeddingsCounted ==
  ASSUME IInv
  PROVE  EmbeddingsBounded
<1>1. /\ CountInv /\ Types /\ ask \in Scenarios /\ MaxPending \in Nat /\ Asked \subseteq Requests
      /\ \A x \in Requests : CallInv(x)
  BY Numbers, Asking DEF IInv, Types
<1>2. ASSUME NEW w \in Workers
      PROVE  Cardinality({r \in Asked : /\ On(r) = w /\ thread[r].what = "embed"
                                        /\ thread[r].state # "done"}) <= 2 * MaxPending
  <2>. DEFINE busy == {r \in Asked : On(r) = w /\ thread[r].what = "embed" /\ thread[r].state # "done"}
              both == Waiting(w) \cup Embedding(w)
              a == Cardinality(Waiting(w))
              b == Cardinality(Embedding(w))
              c == Cardinality(Waiting(w) \cap Embedding(w))
              d == Cardinality(both)
              n == Cardinality(busy)
  <2>1. busy \subseteq both
    <3>1. ASSUME NEW r \in busy
          PROVE  r \in both
      <4>1. r \in Asked /\ r \in Requests /\ On(r) = w /\ thread[r].what = "embed"
            /\ thread[r].state \in {"queued", "running"} /\ CallInv(r)
        BY <1>1, <3>1 DEF Types
      <4>2. CASE thread[r].state = "queued"
        BY <4>1, <4>2 DEF CallInv, Waiting
      <4>3. CASE thread[r].state = "running"
        <5>1. thread[r] \in Jobs
          BY <1>1, <4>1 DEF Types, Jobs
        <5>2. thread[r] = Job("embed", "running")
          BY <4>1, <4>3, <5>1 DEF Jobs, Job
        <5>. QED
          BY <4>1, <5>2 DEF Embedding
      <4>. QED
        BY <4>1, <4>2, <4>3
    <3>. QED
      BY <3>1
  <2>2. /\ IsFiniteSet(Waiting(w)) /\ IsFiniteSet(Embedding(w)) /\ a \in Nat /\ b \in Nat
        /\ a <= MaxPending /\ b <= MaxPending
    BY <1>1, WaitingFinite DEF CountInv
  <2>3. IsFiniteSet(both) /\ d = a + b - c
    BY <2>2, FS_Union
  <2>4. c \in Nat
    <3>1. Waiting(w) \cap Embedding(w) \subseteq Waiting(w)
      OBVIOUS
    <3>. QED
      BY <2>2, <3>1, Fewer
  <2>5. n \in Nat /\ n <= d /\ d \in Nat
    <3>. HIDE DEF busy, both
    <3>. QED
      BY <2>1, <2>3, Fewer
  <2>. HIDE DEF a, b, c, d, n
  <2>6. n <= 2 * MaxPending
    BY <1>1, <2>2, <2>3, <2>4, <2>5
  <2>. QED
    BY <2>6 DEF n
<1>3. \A w \in Workers : embedding[w] = Cardinality({r \in Asked : On(r) = w /\ at[r] = "embed"})
  BY <1>1 DEF CountInv, Waiting
<1>. QED
  BY <1>2, <1>3 DEF EmbeddingsBounded

\* The run's type invariant, from the types and the counts.
LEMMA TypesHold ==
  ASSUME IInv
  PROVE  TypeOK
<1>1. Types /\ CountInv /\ ask \in Scenarios /\ MaxPending \in Nat
  BY Numbers DEF IInv, Types
<1>2. embedding \in [Workers -> 0 .. MaxPending]
  <2>1. \A w \in Workers : embedding[w] \in 0 .. MaxPending
    BY <1>1, WaitingFinite DEF CountInv
  <2>. QED
    BY <1>1, <2>1 DEF Types
<1>3. \A i \in DOMAIN entries : entries[i].from \in Requests /\ entries[i].key \in Key
  <2>. DEFINE S == [key : Key, from : Requests]
  <2>1. entries \in Seq(S)
    BY <1>1 DEF Types
  <2>2. \A i \in DOMAIN entries : entries[i] \in S
    <3>. HIDE DEF S
    <3>. QED
      BY <2>1
  <2>. QED
    BY <2>2
<1>4. \A r \in Requests : {queue[r], held[r], got[r]} \subseteq Seq(0 .. MaxPieces)
  BY <1>1 DEF Types
<1>. QED
  BY <1>1, <1>2, <1>3, <1>4 DEF Types, TypeOK

\* The cache gives a request only what is its own, holds no more than it may, in memory and
\* in the table all workers share, and the count of embeddings is the number that is waited
\* for, through every cancellation.
THEOREM CachesAreKept == Spec => []CachesHold
<1>1. IInv => CachesHold
  BY TypesHold, HitsServeOwn, CachesBounded, EmbeddingsCounted DEF CachesHold
<1>. QED
  BY <1>1, ProxyInvariance, PTL
=============================================================================
