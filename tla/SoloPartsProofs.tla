--------------------------- MODULE SoloPartsProofs --------------------------
(***************************************************************************)
(* Theorems about parts of SoloParts that share no state with the others,  *)
(* for every value of their constants.  (The chain is in AuditProofs.)     *)
(*                                                                         *)
(* A batch at its vendor.  HostsInv says that a row is completed only from *)
(* a batch that is over, and that the results file is in the order of the  *)
(* requests where positions are believed.                                  *)
(*                                                                         *)
(* One call.  CallInv says what each stage of a call vouches for.          *)
(*                                                                         *)
(* Opening a ledger.  OpeningInv says that what the file still lacks is    *)
(* what the statements left to each of its openers will do.                *)
(***************************************************************************)
EXTENDS SoloParts, SetTheorems, SequenceTheorems, TLAPS

-----------------------------------------------------------------------------
(* A batch at its vendor (BatchHosts).                                     *)

\* The lines of a results file are in the order of the requests, none twice.
InTheOrder(file) ==
  /\ file \in Seq([of : DOMAIN models, as : {"named", "unnamed", "junk", "broken"}])
  /\ \A i, j \in DOMAIN file : i < j => file[i].of < file[j].of

\* Every row of the batch is in one of these states.
RowsAre(states) == \A k \in DOMAIN models : hostRows[k].state \in states

\* What the rows are at each stage: only a file that is understood completes one.
RowsAtStage ==
  /\ stage \in {"uploading", "submitting", "submitted", "unreadable"} => RowsAre({"in_flight"})
  /\ stage \in {"reading", "completing"} => RowsAre({"in_flight", "done", "missing"})
  /\ stage = "collected" => RowsAre({"done", "missing"})
  /\ stage \notin {"reading", "completing", "collected"} => RowsAre({"none", "in_flight", "failed"})
  /\ stage = "reading" => RowsAre({"in_flight"}) \/ Hosts!Understood(vendor.file)
  /\ stage = "completing" => Hosts!Understood(vendor.file)

\* The rows still in flight come after the others.
InTurn ==
  \A k, l \in DOMAIN models :
    k < l /\ hostRows[k].state = "in_flight" => hostRows[l].state = "in_flight"

HostsInv ==
  /\ host.kind \in Hosts!Kinds /\ models \in Seq(Models)
  /\ hostRows \in [DOMAIN models -> [state  : {"none", "in_flight", "failed", "missing", "done"},
                                      answer : {0} \cup DOMAIN models]]
  /\ DOMAIN vendor = {"accepted", "word", "file"}
  /\ stage \in {"new", "refused", "raised", "uploading", "submitting", "submitted", "reading",
                "completing", "collected", "unreadable"}
  /\ stage \in {"submitted", "reading", "completing", "collected", "unreadable"} => vendor.accepted
  /\ vendor.accepted => vendor.word \in Hosts!Running(host.kind) \cup Hosts!Over(host.kind)
  /\ stage \in {"reading", "completing", "collected", "unreadable"} => vendor.word \in Hosts!Over(host.kind)
  /\ host.kind = "google" => InTheOrder(vendor.file)
  /\ Hosts!AnswersAreTheirOwn /\ Hosts!KeyStaysHome /\ RowsAtStage /\ InTurn

\* No word is of a batch that runs and of one that is over; and none that runs counts as ended.
LEMMA WordsTellApart ==
  ASSUME NEW kind \in Hosts!Kinds
  PROVE  \A word \in Hosts!Running(kind) : word \notin Hosts!Over(kind) /\ ~Hosts!Ended(kind, word)
<1>. USE DEF Hosts!Running, Hosts!Over, Hosts!Ended, Hosts!AnthropicEnded, Hosts!OpenAIEnded,
             Hosts!GoogleEnded, Hosts!DocIntelEnded
<1>1. CASE kind = "anthropic"
  BY <1>1
<1>2. CASE kind = "openai_compat"
  BY <1>2
<1>3. CASE kind = "google"
  BY <1>3
<1>4. CASE kind \notin {"anthropic", "openai_compat", "google"}
  BY <1>4
<1>. QED
  BY <1>1, <1>2, <1>3, <1>4

\* A request that carries the key goes to the configured host or nowhere.
LEMMA PlacesAreHome ==
  ASSUME NEW kind \in Hosts!Kinds, NEW name
  PROVE  /\ Hosts!StatusGoesTo(kind, name) # "abroad" /\ Hosts!ResultsComeFrom(kind, name) # "abroad"
         /\ kind \in {"openai_compat", "google"} =>
              /\ Hosts!StatusGoesTo(kind, name) \in {"batch", "refused"}
              /\ Hosts!ResultsComeFrom(kind, name) \in {"batch", "refused"}
<1>. USE DEF Hosts!StatusGoesTo, Hosts!ResultsComeFrom, Hosts!AnthropicStatus, Hosts!AnthropicResults,
             Hosts!OpenAIStatus, Hosts!OpenAIResults, Hosts!SafeFileId, Hosts!GoogleStatus,
             Hosts!GoogleResults, Hosts!BatchUrl, Hosts!OperationLocation
<1>1. CASE kind = "anthropic"
  BY <1>1
<1>2. CASE kind = "openai_compat"
  BY <1>2
<1>3. CASE kind = "google"
  BY <1>3
<1>4. CASE kind \notin {"anthropic", "openai_compat", "google"}
  BY <1>4
<1>. QED
  BY <1>1, <1>2, <1>3, <1>4

\* A list as long as the batch that follows its order names each request at its own place.
LEMMA FullListIsTheBatch ==
  ASSUME NEW file, InTheOrder(file), models \in Seq(Models), Len(file) = Len(models)
  PROVE  \A i \in 1 .. Len(models) : file[i].of = i
<1>. DEFINE n == Len(models)
<1>1. /\ n \in Nat /\ DOMAIN models = 1 .. n /\ DOMAIN file = 1 .. n
      /\ \A i \in 1 .. n : file[i].of \in 1 .. n
      /\ \A i, j \in 1 .. n : i < j => file[i].of < file[j].of
  <2>1. file \in Seq([of : DOMAIN models, as : {"named", "unnamed", "junk", "broken"}])
    BY DEF InTheOrder
  <2>2. n \in Nat /\ DOMAIN models = 1 .. n /\ DOMAIN file = 1 .. n
    BY <2>1
  <2>3. ASSUME NEW i \in 1 .. n PROVE file[i].of \in 1 .. n
    <3>. DEFINE S == [of : DOMAIN models, as : {"named", "unnamed", "junk", "broken"}]
    <3>1. file \in Seq(S) /\ i \in 1 .. Len(file)
      BY <2>1, <2>2
    <3>2. \A s \in S : s.of \in DOMAIN models
      OBVIOUS
    <3>. HIDE DEF S
    <3>3. file[i] \in S
      BY <3>1
    <3>. QED
      BY <2>2, <3>2, <3>3
  <2>. QED
    BY <2>2, <2>3 DEF InTheOrder
<1>. HIDE DEF n
<1>2. \A i \in 1 .. n : file[i].of >= i
  <2>. DEFINE G == {m \in Nat : m \in 1 .. n => file[m].of >= m}
  <2>1. 0 \in G
    BY <1>1
  <2>2. ASSUME NEW m \in Nat, m \in G PROVE m + 1 \in G
    <3>. SUFFICES ASSUME m + 1 \in 1 .. n PROVE file[m + 1].of >= m + 1
      OBVIOUS
    <3>1. CASE m = 0
      BY <1>1, <3>1
    <3>2. CASE m # 0
      <4>1. m \in 1 .. n /\ file[m].of >= m /\ m < m + 1
        BY <1>1, <2>2, <3>2
      <4>2. file[m].of < file[m + 1].of /\ file[m].of \in Nat /\ file[m + 1].of \in Nat
        BY <1>1, <4>1
      <4>. QED
        BY <4>1, <4>2
    <3>. QED
      BY <3>1, <3>2
  <2>. HIDE DEF G
  <2>3. Nat \subseteq G
    BY <2>1, <2>2, NatSetInduction
  <2>. QED
    BY <1>1, <2>3 DEF G
<1>3. \A i \in 1 .. n : file[i].of <= i
  <2>. DEFINE G == {m \in Nat : m \in 0 .. n - 1 => file[n - m].of <= n - m}
  <2>1. 0 \in G
    BY <1>1
  <2>2. ASSUME NEW m \in Nat, m \in G PROVE m + 1 \in G
    <3>. SUFFICES ASSUME m + 1 \in 0 .. n - 1 PROVE file[n - (m + 1)].of <= n - (m + 1)
      OBVIOUS
    <3>. DEFINE a == n - (m + 1)  b == n - m
    <3>1. a \in 1 .. n /\ b \in 1 .. n /\ a < b /\ b = a + 1 /\ file[b].of <= b
      BY <1>1, <2>2
    <3>2. file[a].of < file[b].of /\ file[a].of \in Nat /\ file[b].of \in Nat
      BY <1>1, <3>1
    <3>. HIDE DEF a, b
    <3>3. file[a].of <= a
      BY <3>1, <3>2
    <3>. QED
      BY <3>3 DEF a
  <2>. HIDE DEF G
  <2>3. Nat \subseteq G
    BY <2>1, <2>2, NatSetInduction
  <2>4. ASSUME NEW i \in 1 .. n PROVE file[i].of <= i
    <3>1. n - i \in Nat /\ n - i \in 0 .. n - 1 /\ n - (n - i) = i
      BY <1>1
    <3>2. n - i \in G
      BY <2>3, <3>1
    <3>. QED
      BY <3>1, <3>2 DEF G
  <2>. QED
    BY <2>4
<1>4. ASSUME NEW i \in 1 .. n PROVE file[i].of = i
  <2>1. file[i].of \in Nat /\ i \in Nat /\ file[i].of >= i /\ file[i].of <= i
    BY <1>1, <1>2, <1>3
  <2>. QED
    BY <2>1
<1>. QED
  BY <1>4 DEF n

\* The names of items are told apart.
LEMMA NamesTellApart ==
  /\ \A i, j : Hosts!Uid(i) = Hosts!Uid(j) => i = j
  /\ \A i, j : Hosts!Position(i) = Hosts!Position(j) => i = j
  /\ \A i, j : Hosts!Uid(i) # Hosts!Position(j)
  /\ \A i : Hosts!Uid(i) # Hosts!NoId /\ Hosts!Position(i) # Hosts!NoId
  /\ \A i : Hosts!Position(i)[1] = "#"
<1>1. \A i, j : Hosts!Uid(i) = Hosts!Uid(j) => i = j
  BY DEF Hosts!Uid
<1>2. \A i, j : Hosts!Position(i) = Hosts!Position(j) => i = j
  BY DEF Hosts!Position
<1>3. \A i : Hosts!Uid(i)[1] = "uid" /\ Hosts!Position(i)[1] = "#" /\ Hosts!NoId[1] = ""
  BY DEF Hosts!Uid, Hosts!Position, Hosts!NoId
<1>4. "uid" # "#" /\ "uid" # "" /\ "#" # ""
  OBVIOUS
<1>5. \A i, j : Hosts!Uid(i) # Hosts!Position(j)
  BY <1>3, <1>4
<1>6. \A i : Hosts!Uid(i) # Hosts!NoId /\ Hosts!Position(i) # Hosts!NoId
  BY <1>3, <1>4
<1>. QED
  BY <1>1, <1>2, <1>3, <1>5, <1>6

\* The item found for a request is one of its own.
LEMMA ItemIsItsOwn ==
  ASSUME HostsInv, NEW file, host.kind = "google" => InTheOrder(file),
         Hosts!Mappable(Hosts!Items(host.kind, file)),
         NEW k \in DOMAIN models, Hosts!ItemOf(Hosts!Items(host.kind, file), k) # 0
  PROVE  Hosts!Items(host.kind, file)[Hosts!ItemOf(Hosts!Items(host.kind, file), k)].of = k
<1>. DEFINE items == Hosts!Items(host.kind, file)
            n     == Hosts!ItemOf(items, k)
<1>1. n \in DOMAIN items /\ items[n].id \in {Hosts!Position(k), Hosts!Uid(k)}
  <2>. HIDE DEF items
  <2>. DEFINE Latest(id) == {i \in DOMAIN items : items[i].id = id
                               /\ \A j \in DOMAIN items : items[j].id = id => j <= i}
              found == IF Latest(Hosts!Position(k)) # {} THEN Latest(Hosts!Position(k))
                       ELSE Latest(Hosts!Uid(k))
  <2>1. n = IF found = {} THEN 0 ELSE CHOOSE i \in found : TRUE
    BY DEF Hosts!ItemOf
  <2>2. items = Hosts!Items(host.kind, file)
    BY DEF items
  <2>3. n # 0
    BY <2>2
  <2>4. found # {} => (CHOOSE i \in found : TRUE) \in found
    OBVIOUS
  <2>5. n \in found
    BY <2>1, <2>3, <2>4
  <2>. QED
    BY <2>5
<1>2. CASE host.kind = "anthropic"
  <2>1. items = Hosts!AnthropicItems(file)
    BY <1>2 DEF Hosts!Items
  <2>2. \A i \in DOMAIN items : items[i].id = Hosts!Uid(items[i].of)
    BY <2>1 DEF Hosts!AnthropicItems
  <2>. HIDE DEF n, items
  <2>. QED
    BY <1>1, <2>2, NamesTellApart DEF n, items
<1>3. CASE host.kind = "openai_compat"
  <2>1. items = Hosts!OpenAIItems(file)
    BY <1>3 DEF Hosts!Items
  <2>2. \A i \in DOMAIN items : items[i].id \in {Hosts!Uid(items[i].of), Hosts!NoId}
    BY <2>1 DEF Hosts!OpenAIItems, Hosts!IdOf
  <2>. HIDE DEF n, items
  <2>. QED
    BY <1>1, <2>2, NamesTellApart DEF n, items
<1>4. CASE host.kind = "google"
  <2>1. items = Hosts!GoogleItems(file)
    BY <1>4 DEF Hosts!Items
  <2>2. /\ DOMAIN items = DOMAIN file
        /\ \A i \in DOMAIN items : /\ items[i].of = file[i].of
             /\ items[i].id \in {Hosts!Uid(items[i].of), Hosts!Position(i), Hosts!NoId}
    BY <2>1 DEF Hosts!GoogleItems, Hosts!IdOf
  <2>3. CASE items[n].id = Hosts!Uid(k)
    <3>. HIDE DEF n, items
    <3>. QED
      BY <1>1, <2>2, <2>3, NamesTellApart DEF n, items
  <2>4. CASE items[n].id = Hosts!Position(k)
    <3>1. n = k /\ n \in DOMAIN file
      <4>. HIDE DEF n, items
      <4>. QED
        BY <1>1, <2>2, <2>4, NamesTellApart
    <3>2. n \in Hosts!Positional(items)
      <4>. HIDE DEF n, items
      <4>. QED
        BY <1>1, <2>4, NamesTellApart DEF Hosts!Positional
    <3>3. Len(items) = Len(models)
      BY <3>2 DEF Hosts!Mappable
    <3>4. Len(file) = Len(models) /\ InTheOrder(file) /\ models \in Seq(Models)
      <4>1. file \in Seq([of : DOMAIN models, as : {"named", "unnamed", "junk", "broken"}])
        BY <1>4 DEF InTheOrder
      <4>2. Len(items) = Len(file)
        <5>1. items = [i \in 1 .. Len(file) |->
                         [id |-> IF file[i].as = "unnamed" THEN Hosts!Position(i) ELSE Hosts!IdOf(file[i]),
                          of |-> file[i].of]]
          BY <2>1, <4>1 DEF Hosts!GoogleItems
        <5>2. Len(file) \in Nat
          BY <4>1
        <5>. QED
          BY <5>1, <5>2
      <4>. QED
        BY <1>4, <3>3, <4>2 DEF HostsInv
    <3>5. k \in 1 .. Len(models)
      BY <3>4
    <3>. QED
      BY <2>2, <3>1, <3>4, <3>5, FullListIsTheBatch
  <2>. QED
    BY <1>1, <2>3, <2>4
<1>5. CASE host.kind \notin {"anthropic", "openai_compat", "google"}
  <2>1. items = Hosts!DocIntelItems(file)
    BY <1>5 DEF Hosts!Items
  <2>2. DOMAIN items = {1} /\ items[1].id = Hosts!Position(1) /\ items[1].of = 1
    BY <2>1 DEF Hosts!DocIntelItems
  <2>. HIDE DEF n, items
  <2>. QED
    BY <1>1, <2>2, NamesTellApart DEF n, items
<1>. QED
  BY <1>2, <1>3, <1>4, <1>5
\* Before the batch is submitted nothing is known of it.
LEMMA HostsInit ==
  ASSUME SoloAssumption, Hosts!Init
  PROVE  HostsInv
<1>1. models \in Seq(Models)
  <2>1. PICK n \in 1 .. MaxSize : models \in [1 .. n -> Models]
    BY DEF Hosts!Init
  <2>2. n \in Nat
    BY <2>1 DEF SoloAssumption, Hosts!HostsAssumption
  <2>. QED
    BY <2>1, <2>2
<1>2. /\ host.kind \in Hosts!Kinds /\ stage = "new" /\ keySent = {}
      /\ hostRows = [k \in DOMAIN models |-> [state |-> "none", answer |-> 0]]
      /\ vendor = [accepted |-> FALSE, word |-> "", file |-> <<>>]
  BY DEF Hosts!Init, Hosts!Row, Hosts!Requests
<1>3. /\ ~vendor.accepted /\ vendor.file = <<>>
      /\ DOMAIN vendor = {"accepted", "word", "file"}
  BY <1>2
<1>4. InTheOrder(vendor.file)
  BY <1>3 DEF InTheOrder
<1>5. /\ \A k \in DOMAIN models : hostRows[k].state = "none"
      /\ hostRows \in [DOMAIN models -> [state  : {"none", "in_flight", "failed", "missing", "done"},
                                         answer : {0} \cup DOMAIN models]]
  BY <1>2
<1>6. Hosts!AnswersAreTheirOwn /\ Hosts!KeyStaysHome /\ RowsAtStage /\ InTurn
  BY <1>2, <1>5 DEF Hosts!AnswersAreTheirOwn, Hosts!KeyStaysHome, RowsAtStage, RowsAre, InTurn,
                    Hosts!Requests
<1>. QED
  BY <1>1, <1>2, <1>3, <1>4, <1>5, <1>6 DEF HostsInv

\* A step that writes every row alike keeps what the rows say.
LEMMA RowsWritten ==
  ASSUME models' = models, NEW state \in {"in_flight", "failed"},
         \A k \in DOMAIN models : hostRows'[k].state = state
  PROVE  Hosts!AnswersAreTheirOwn' /\ InTurn'
BY DEF Hosts!AnswersAreTheirOwn, Hosts!Requests, InTurn

\* What is read back to the rows is each row's own, or nothing.
LEMMA CollectedRows ==
  ASSUME HostsInv, NEW items, items = Hosts!Items(host.kind, vendor.file), Hosts!Mappable(items),
         NEW k \in DOMAIN models
  PROVE  \/ Hosts!Collected(k, items) = [state |-> "missing", answer |-> 0]
         \/ Hosts!Collected(k, items) = [state |-> "done", answer |-> k]
<1>1. CASE Hosts!ItemOf(items, k) = 0
  BY <1>1 DEF Hosts!Collected, Hosts!Row
<1>2. CASE Hosts!ItemOf(items, k) # 0
  <2>1. host.kind = "google" => InTheOrder(vendor.file)
    BY DEF HostsInv
  <2>2. items[Hosts!ItemOf(items, k)].of = k
    BY <1>2, <2>1, ItemIsItsOwn
  <2>. QED
    BY <1>2, <2>2 DEF Hosts!Collected, Hosts!Row
<1>. QED
  BY <1>1, <1>2

\* What the vendor's state is after a step that changes two parts of it.
LEMMA Amended ==
  ASSUME NEW v, DOMAIN v = {"accepted", "word", "file"}, NEW word, NEW file
  PROVE  /\ DOMAIN [v EXCEPT !.accepted = TRUE, !.word = word] = DOMAIN v
         /\ [v EXCEPT !.accepted = TRUE, !.word = word].accepted
         /\ [v EXCEPT !.accepted = TRUE, !.word = word].word = word
         /\ [v EXCEPT !.accepted = TRUE, !.word = word].file = v.file
         /\ DOMAIN [v EXCEPT !.word = word, !.file = file] = DOMAIN v
         /\ [v EXCEPT !.word = word, !.file = file].accepted = v.accepted
         /\ [v EXCEPT !.word = word, !.file = file].word = word
         /\ [v EXCEPT !.word = word, !.file = file].file = file
OBVIOUS

\* Every step of the caller and of the vendor keeps the invariant.
LEMMA HostsStep ==
  ASSUME HostsInv, Hosts!Next
  PROVE  HostsInv'
<1>. DEFINE states == {"none", "in_flight", "failed", "missing", "done"}
            RowsOf == [DOMAIN models -> [state : states, answer : {0} \cup DOMAIN models]]
<1>a. /\ host.kind \in Hosts!Kinds /\ models \in Seq(Models) /\ hostRows \in RowsOf
      /\ DOMAIN vendor = {"accepted", "word", "file"}
  BY DEF HostsInv
<1>b. host' = host /\ models' = models
  BY DEF Hosts!Next, Hosts!Refuse, Hosts!Begin, Hosts!Upload, Hosts!Submit, Hosts!VendorEnds, Hosts!Look,
    Hosts!Collect, Hosts!Complete, Hosts!Recollect
<1>c. ASSUME hostRows' = hostRows
      PROVE  Hosts!AnswersAreTheirOwn' /\ InTurn'
  BY <1>b, <1>c DEF HostsInv, Hosts!AnswersAreTheirOwn, InTurn, Hosts!Requests
<1>d. ASSUME Hosts!Fail
      PROVE  /\ hostRows' \in RowsOf /\ \A k \in DOMAIN models : hostRows'[k].state = "failed"
             /\ Hosts!AnswersAreTheirOwn' /\ InTurn'
  <2>1. hostRows' = [k \in DOMAIN models |-> [hostRows[k] EXCEPT !.state = "failed"]]
    BY <1>d DEF Hosts!Fail, Hosts!Requests
  <2>2. \A k \in DOMAIN models : /\ hostRows'[k] \in [state : states, answer : {0} \cup DOMAIN models]
                                 /\ hostRows'[k].state = "failed"
    BY <1>a, <2>1
  <2>3. hostRows' \in RowsOf
    BY <2>1, <2>2
  <2>. QED
    BY <1>b, <2>2, <2>3, RowsWritten
<1>e. ASSUME keySent' = keySent \/ keySent' = keySent \cup {"batch"}
      PROVE  Hosts!KeyStaysHome'
  BY <1>b, <1>e DEF HostsInv, Hosts!KeyStaysHome
<1>f. vendor' = vendor => /\ vendor'.accepted = vendor.accepted
                          /\ vendor'.word = vendor.word /\ vendor'.file = vendor.file
  OBVIOUS
<1>g. models' = models => \A file : InTheOrder(file) <=> InTheOrder(file)'
  BY DEF InTheOrder
<1>h. \A file : Hosts!Understood(file)' <=> Hosts!Understood(file)
  BY <1>b DEF Hosts!Understood, Hosts!Readable, Hosts!Unreadable, Hosts!Mappable, Hosts!Positional,
    Hosts!Items, Hosts!AnthropicItems, Hosts!OpenAIItems, Hosts!GoogleItems, Hosts!DocIntelItems,
    Hosts!IdOf, Hosts!Uid, Hosts!NoId, Hosts!Position
<1>i. ASSUME stage' \in {"uploading", "submitting", "submitted"}, RowsAre({"in_flight"})'
      PROVE  RowsAtStage'
  BY <1>i DEF RowsAtStage, RowsAre
<1>j. ASSUME stage' = "raised", RowsAre({"in_flight"})' \/ RowsAre({"failed"})'
      PROVE  RowsAtStage'
  BY <1>j DEF RowsAtStage, RowsAre
<1>k. ASSUME hostRows' = hostRows, NEW S, RowsAre(S)
      PROVE  RowsAre(S)'
  BY <1>b, <1>k DEF RowsAre
<1>1. CASE Hosts!Refuse
  <2>1. stage = "new" /\ stage' = "refused" /\ hostRows' = hostRows
    BY <1>1 DEF Hosts!Refuse
  <2>2. RowsAre({"none", "in_flight", "failed"})'
    BY <1>k, <2>1 DEF HostsInv, RowsAtStage
  <2>3. RowsAtStage'
    BY <2>1, <2>2 DEF RowsAtStage
  <2>. QED
    BY <1>1, <1>a, <1>b, <1>c, <1>e, <1>f, <1>g, <2>1, <2>3 DEF HostsInv, Hosts!Refuse
<1>2. CASE Hosts!Begin
  <2>1. hostRows' = [k \in DOMAIN models |-> [state |-> "in_flight", answer |-> 0]]
    BY <1>2 DEF Hosts!Begin, Hosts!Row, Hosts!Requests
  <2>2. hostRows' \in RowsOf /\ \A k \in DOMAIN models : hostRows'[k].state = "in_flight"
    BY <2>1
  <2>3. Hosts!AnswersAreTheirOwn' /\ InTurn'
    BY <1>b, <2>2, RowsWritten
  <2>4. RowsAtStage'
    <3>1. stage' \in {"raised", "uploading", "submitting"} /\ RowsAre({"in_flight"})'
      BY <1>2, <1>b, <2>2 DEF Hosts!Begin, RowsAre
    <3>. QED
      BY <1>i, <1>j, <3>1
  <2>. QED
    BY <1>2, <1>a, <1>b, <1>e, <1>f, <1>g, <2>2, <2>3, <2>4 DEF HostsInv, Hosts!Begin
<1>3. CASE Hosts!Upload
  <2>0. /\ stage = "uploading" /\ stage' \in {"submitting", "raised"}
        /\ IF stage' = "raised" THEN Hosts!Fail ELSE hostRows' = hostRows
    BY <1>3 DEF Hosts!Upload, Hosts!Uploaded
  <2>1. hostRows' \in RowsOf /\ Hosts!AnswersAreTheirOwn' /\ InTurn'
    BY <1>a, <1>c, <1>d, <2>0
  <2>2. RowsAtStage'
    <3>1. CASE stage' = "raised"
      <4>1. RowsAre({"failed"})'
        BY <1>b, <1>d, <2>0, <3>1 DEF RowsAre
      <4>. QED
        BY <1>j, <3>1, <4>1
    <3>2. CASE stage' # "raised"
      <4>1. RowsAre({"in_flight"})'
        BY <1>k, <2>0, <3>2 DEF HostsInv, RowsAtStage
      <4>. QED
        BY <1>i, <2>0, <3>2, <4>1
    <3>. QED
      BY <3>1, <3>2
  <2>. QED
    BY <1>3, <1>a, <1>b, <1>e, <1>f, <1>g, <2>0, <2>1, <2>2 DEF HostsInv, Hosts!Upload
<1>4. CASE Hosts!Submit
  <2>0. /\ stage = "submitting" /\ RowsAre({"in_flight"})
        /\ \/ stage' = "raised" /\ Hosts!Fail
           \/ stage' \in {"submitted", "raised"} /\ hostRows' = hostRows
    BY <1>4 DEF HostsInv, RowsAtStage, Hosts!Submit
  <2>1. hostRows' \in RowsOf /\ Hosts!AnswersAreTheirOwn' /\ InTurn'
    BY <1>a, <1>c, <1>d, <2>0
  <2>2. RowsAtStage'
    <3>1. CASE stage' = "raised" /\ Hosts!Fail
      <4>1. RowsAre({"failed"})'
        BY <1>b, <1>d, <3>1 DEF RowsAre
      <4>. QED
        BY <1>j, <3>1, <4>1
    <3>2. CASE stage' \in {"submitted", "raised"} /\ hostRows' = hostRows
      <4>1. RowsAre({"in_flight"})'
        BY <1>k, <2>0, <3>2
      <4>. QED
        BY <1>i, <1>j, <3>2, <4>1
    <3>. QED
      BY <2>0, <3>1, <3>2
  <2>3. \/ stage' = "raised" /\ vendor' = vendor
        \/ /\ stage' \in {"submitted", "raised"}
           /\ DOMAIN vendor' = DOMAIN vendor /\ vendor'.accepted /\ vendor'.file = vendor.file
           /\ vendor'.word \in Hosts!Running(host.kind)
    BY <1>4, <1>a, Amended DEF Hosts!Submit
  <2>4. CASE stage' = "raised" /\ vendor' = vendor
    BY <1>4, <1>a, <1>b, <1>e, <1>f, <1>g, <2>1, <2>2, <2>4 DEF HostsInv, Hosts!Submit
  <2>5. ASSUME stage' \in {"submitted", "raised"}, DOMAIN vendor' = DOMAIN vendor, vendor'.accepted,
               vendor'.file = vendor.file, vendor'.word \in Hosts!Running(host.kind)
        PROVE  HostsInv'
    <3>2. Hosts!Running(host.kind)' = Hosts!Running(host.kind)
      BY <1>b DEF Hosts!Running
    <3>. QED
      BY <1>4, <1>a, <1>b, <1>e, <1>g, <2>1, <2>2, <2>5, <3>2 DEF HostsInv, Hosts!Submit
  <2>. QED
    BY <2>3, <2>4, <2>5
<1>5. CASE Hosts!VendorEnds
  <2>1. PICK word \in Hosts!Over(host.kind), file \in Hosts!ResultFiles :
          vendor' = [vendor EXCEPT !.word = word, !.file = file]
    BY <1>5 DEF Hosts!VendorEnds
  <2>2. /\ vendor'.accepted = vendor.accepted /\ vendor'.word = word /\ vendor'.file = file
        /\ DOMAIN vendor' = DOMAIN vendor
    BY <1>a, <2>1, Amended
  <2>3. Hosts!Over(host.kind)' = Hosts!Over(host.kind)
    BY <1>b DEF Hosts!Over
  <2>4. host.kind = "google" => InTheOrder(file)
    <3>. SUFFICES ASSUME host.kind = "google" PROVE InTheOrder(file)
      OBVIOUS
    <3>. DEFINE L == Hosts!Lines({"named", "unnamed", "junk"})
    <3>1. /\ file \in UNION {[1 .. n -> L] : n \in 0 .. Len(models)}
          /\ \A i, j \in DOMAIN file : i < j => file[i].of < file[j].of
      <4>1. file \in Hosts!Aligned({"named", "unnamed", "junk"})
        BY DEF Hosts!ResultFiles
      <4>. QED
        BY <4>1 DEF Hosts!Aligned, Hosts!AnyOrder
    <3>2. L \subseteq [of : DOMAIN models, as : {"named", "unnamed", "junk", "broken"}]
      BY DEF Hosts!Lines, Hosts!Requests
    <3>. HIDE DEF L
    <3>3. PICK n \in 0 .. Len(models) : file \in [1 .. n -> L]
      BY <3>1
    <3>4. n \in Nat
      BY <1>a, <3>3
    <3>. DEFINE M == [of : DOMAIN models, as : {"named", "unnamed", "junk", "broken"}]
    <3>5. L \subseteq M
      BY <3>2
    <3>. HIDE DEF M
    <3>6. file \in Seq(M)
      BY <3>3, <3>4, <3>5
    <3>. QED
      BY <3>1, <3>6 DEF InTheOrder, M
  <2>5. /\ stage' = stage /\ hostRows' = hostRows /\ keySent' = keySent
        /\ vendor.accepted /\ vendor.word \in Hosts!Running(host.kind)
    BY <1>5 DEF Hosts!VendorEnds
  <2>6. stage \notin {"reading", "completing", "collected", "unreadable"}
    BY <1>a, <2>5, WordsTellApart DEF HostsInv
  <2>7. RowsAtStage'
    BY <1>k, <2>5, <2>6 DEF HostsInv, RowsAtStage
  <2>. QED
    BY <1>a, <1>b, <1>c, <1>e, <1>g, <2>2, <2>3, <2>4, <2>5, <2>6, <2>7 DEF HostsInv
<1>6. CASE Hosts!Look
  <2>. DEFINE place == Hosts!StatusGoesTo(host.kind, named)
  <2>1. /\ stage = "submitted" /\ place # "refused" /\ keySent' = keySent \cup {place}
        /\ stage' \in {"submitted", "reading"}
        /\ stage' = "reading" => Hosts!Ended(host.kind, vendor.word)
        /\ vendor' = vendor /\ hostRows' = hostRows
    BY <1>6 DEF Hosts!Look
  <2>2. Hosts!KeyStaysHome'
    <3>1. place # "abroad" /\ (host.kind \in {"openai_compat", "google"} => place \in {"batch", "refused"})
      BY <1>a, PlacesAreHome
    <3>. QED
      BY <1>b, <2>1, <3>1 DEF HostsInv, Hosts!KeyStaysHome
  <2>3. stage' = "reading" => vendor.word \in Hosts!Over(host.kind)
    BY <1>a, <2>1, WordsTellApart DEF HostsInv
  <2>4. RowsAtStage'
    <3>1. RowsAre({"in_flight"})'
      BY <1>k, <2>1 DEF HostsInv, RowsAtStage
    <3>. QED
      BY <2>1, <3>1 DEF RowsAtStage, RowsAre
  <2>. HIDE DEF place
  <2>. QED
    BY <1>a, <1>b, <1>c, <1>f, <1>g, <2>1, <2>2, <2>3, <2>4 DEF HostsInv
<1>7. CASE Hosts!Collect
  <2>. DEFINE place == Hosts!ResultsComeFrom(host.kind, named)
  <2>1. /\ stage = "reading" /\ place # "refused" /\ keySent' = keySent \cup {place}
        /\ vendor' = vendor /\ hostRows' = hostRows
        /\ stage' = IF Hosts!Understood(vendor.file) THEN "completing" ELSE "unreadable"
    BY <1>7 DEF Hosts!Collect
  <2>2. Hosts!KeyStaysHome'
    <3>1. place # "abroad" /\ (host.kind \in {"openai_compat", "google"} => place \in {"batch", "refused"})
      BY <1>a, PlacesAreHome
    <3>. QED
      BY <1>b, <2>1, <3>1 DEF HostsInv, Hosts!KeyStaysHome
  <2>. HIDE DEF place
  <2>3. RowsAtStage'
    <3>1. CASE Hosts!Understood(vendor.file)
      <4>1. RowsAre({"in_flight", "done", "missing"})' /\ stage' = "completing"
        BY <1>k, <2>1, <3>1 DEF HostsInv, RowsAtStage
      <4>2. Hosts!Understood(vendor.file)'
        BY <1>f, <1>h, <2>1, <3>1
      <4>. QED
        BY <4>1, <4>2 DEF RowsAtStage
    <3>2. CASE ~Hosts!Understood(vendor.file)
      <4>1. RowsAre({"in_flight"})' /\ stage' = "unreadable"
        BY <1>k, <2>1, <3>2 DEF HostsInv, RowsAtStage
      <4>. QED
        BY <4>1 DEF RowsAtStage, RowsAre
    <3>. QED
      BY <3>1, <3>2
  <2>4. stage' \in {"completing", "unreadable"}
    BY <2>1
  <2>. QED
    BY <1>a, <1>b, <1>c, <1>f, <1>g, <2>1, <2>2, <2>3, <2>4 DEF HostsInv
<1>8. ASSUME NEW k \in DOMAIN models, Hosts!Complete(k)
      PROVE  HostsInv'
  <2>. DEFINE items == Hosts!Items(host.kind, vendor.file)
              new   == Hosts!Collected(k, items)
  <2>1. /\ stage = "completing" /\ hostRows[k].state = "in_flight"
        /\ \A l \in DOMAIN models : l < k => hostRows[l].state # "in_flight"
        /\ hostRows' = [hostRows EXCEPT ![k] = new]
        /\ stage' = IF k = Len(models) THEN "collected" ELSE "completing"
        /\ vendor' = vendor /\ keySent' = keySent
    BY <1>8 DEF Hosts!Complete, Hosts!Requests
  <2>2. Hosts!Understood(vendor.file) /\ RowsAre({"in_flight", "done", "missing"}) /\ Hosts!Mappable(items)
    BY <2>1 DEF HostsInv, RowsAtStage, Hosts!Understood
  <2>3. new = [state |-> "missing", answer |-> 0] \/ new = [state |-> "done", answer |-> k]
    BY <2>2, CollectedRows
  <2>4. /\ new \in [state : states, answer : {0} \cup DOMAIN models] /\ new.state \in {"missing", "done"}
        /\ new.state = "done" => new.answer = k
    <3>. HIDE DEF new, items
    <3>. QED
      BY <2>3
  <2>. HIDE DEF new, items
  <2>5. /\ hostRows'[k] = new /\ \A l \in DOMAIN models \ {k} : hostRows'[l] = hostRows[l]
        /\ hostRows' \in RowsOf
    BY <1>a, <2>1, <2>4
  <2>6. Hosts!AnswersAreTheirOwn'
    BY <1>b, <2>4, <2>5 DEF HostsInv, Hosts!AnswersAreTheirOwn, Hosts!Requests
  <2>7. DOMAIN models = 1 .. Len(models) /\ Len(models) \in Nat
    BY <1>a
  <2>8. InTurn'
    <3>1. ASSUME NEW i \in DOMAIN models, NEW l \in DOMAIN models, i < l,
                 hostRows'[i].state = "in_flight"
          PROVE  hostRows'[l].state = "in_flight"
      <4>1. i # k /\ hostRows[i].state = "in_flight"
        BY <2>4, <2>5, <3>1
      <4>2. l # k
        BY <2>1, <3>1, <4>1
      <4>. QED
        BY <2>5, <3>1, <4>1, <4>2 DEF HostsInv, InTurn
    <3>. QED
      BY <1>b, <3>1 DEF InTurn
  <2>9. RowsAtStage'
    <3>1. RowsAre({"in_flight", "done", "missing"})'
      BY <1>b, <2>2, <2>4, <2>5 DEF RowsAre
    <3>2. CASE k = Len(models)
      <4>1. \A l \in DOMAIN models : l = k \/ l < k
        BY <2>7, <3>2
      <4>2. \A l \in DOMAIN models : hostRows'[l].state # "in_flight"
        BY <2>1, <2>4, <2>5, <4>1
      <4>3. RowsAre({"done", "missing"})'
        BY <1>b, <3>1, <4>2 DEF RowsAre
      <4>. QED
        BY <2>1, <3>2, <4>3 DEF RowsAtStage
    <3>3. CASE k # Len(models)
      <4>1. Hosts!Understood(vendor.file)'
        BY <1>f, <1>h, <2>1, <2>2
      <4>. QED
        BY <2>1, <3>1, <3>3, <4>1 DEF RowsAtStage
    <3>. QED
      BY <3>2, <3>3
  <2>10. stage' \in {"completing", "collected"}
    BY <2>1
  <2>. QED
    BY <1>a, <1>b, <1>e, <1>f, <1>g, <2>1, <2>5, <2>6, <2>8, <2>9, <2>10 DEF HostsInv
<1>9. CASE Hosts!Recollect
  <2>1. /\ stage = "completing" /\ stage' = "reading" /\ vendor' = vendor /\ hostRows' = hostRows
        /\ keySent' = keySent
    BY <1>9 DEF Hosts!Recollect
  <2>2. RowsAtStage'
    <3>1. RowsAre({"in_flight", "done", "missing"})' /\ Hosts!Understood(vendor.file)
      BY <1>k, <2>1 DEF HostsInv, RowsAtStage
    <3>2. Hosts!Understood(vendor.file)'
      BY <1>f, <1>h, <2>1, <3>1
    <3>. QED
      BY <2>1, <3>1, <3>2 DEF RowsAtStage
  <2>. QED
    BY <1>a, <1>b, <1>c, <1>e, <1>f, <1>g, <2>1, <2>2 DEF HostsInv
<1>. QED
  BY <1>1, <1>2, <1>3, <1>4, <1>5, <1>6, <1>7, <1>8, <1>9 DEF Hosts!Next, Hosts!Requests

\* What is left alone keeps the invariant.
LEMMA HostsStutter ==
  ASSUME HostsInv, UNCHANGED hostVars
  PROVE  HostsInv'
<1>1. /\ host' = host /\ models' = models /\ hostRows' = hostRows /\ stage' = stage
      /\ vendor' = vendor /\ keySent' = keySent
  BY DEF hostVars
<1>2. Hosts!Understood(vendor.file)' <=> Hosts!Understood(vendor.file)
  BY <1>1 DEF Hosts!Understood, Hosts!Readable, Hosts!Unreadable, Hosts!Mappable, Hosts!Positional,
    Hosts!Items, Hosts!AnthropicItems, Hosts!OpenAIItems, Hosts!GoogleItems, Hosts!DocIntelItems,
    Hosts!IdOf, Hosts!Uid, Hosts!NoId, Hosts!Position
<1>3. RowsAtStage' /\ InTurn'
  BY <1>1, <1>2 DEF HostsInv, RowsAtStage, RowsAre, InTurn
<1>. QED
  BY <1>1, <1>3 DEF HostsInv, InTheOrder, Hosts!Running, Hosts!Over, Hosts!AnswersAreTheirOwn,
    Hosts!KeyStaysHome, Hosts!Requests

\* For any models and any size of a batch: whatever a vendor leaves out, leaves unnamed, writes
\* again or in another order, a row is completed with the answer to its own request, from a batch
\* that is over, every row if the file was understood and else none; and the key goes to no host but the configured one (BatchIsItsOwn;
\* batch_results, the four parse_batch_status and parse_batch_results, _safe_file_id, _batch_url).
THEOREM BatchesAreTheirOwn ==
  ASSUME SoloAssumption
  PROVE  SoloSpec => []BatchIsItsOwn
<1>. DEFINE Inv == part = "hosts" => HostsInv
<1>1. SoloInit => Inv
  BY HostsInit DEF SoloInit
<1>2. Inv /\ [SoloNext]_partsVars => Inv'
  <2>. SUFFICES ASSUME Inv, [SoloNext]_partsVars, part' = "hosts" PROVE HostsInv'
    OBVIOUS
  <2>1. part' = part /\ (Hosts!Next \/ UNCHANGED hostVars)
    BY DEF SoloNext, partsVars
  <2>. QED
    BY <2>1, HostsStep, HostsStutter
<1>3. Inv => BatchIsItsOwn
  <2>. SUFFICES ASSUME HostsInv PROVE Hosts!BatchIsItsOwn
    BY DEF BatchIsItsOwn
  <2>1. Hosts!ReadOnceOver
    BY DEF HostsInv, RowsAtStage, RowsAre, Hosts!ReadOnceOver, Hosts!Requests
  <2>2. Hosts!TogetherOrNot
    BY DEF HostsInv, RowsAtStage, RowsAre, InTurn, Hosts!TogetherOrNot, Hosts!Requests
  <2>. QED
    BY <2>1, <2>2 DEF HostsInv, Hosts!BatchIsItsOwn
<1>. HIDE DEF Inv
<1>. QED
  BY <1>1, <1>2, <1>3, PTL DEF SoloSpec

-----------------------------------------------------------------------------
(* One call (CallTarget).                                                  *)

CallStages == {"starting", "no_gateway", "ready", "raised", "resolved", "refused", "judged",
               "built", "sent", "answered"}

\* The body that was built, and the row that was reserved.
BuiltBody ==
  [reach |-> IF "model" \in Call!Extra /\ Call!entry.kind # "gcp_vertex" THEN "global" ELSE ref.reach,
   maxTokens |-> IF "max_tokens" \in Call!Extra THEN 2 * Default ELSE Call!MaxTokens]
Reserved(cost) ==
  [region |-> ref.region, residency |-> Call!entry.residency, cost |-> cost, list |-> Call!Cited,
   estimate |-> IF Call!Priced THEN Call!Estimate(Call!request.tokens, Call!MaxTokens) ELSE 0]
Counted ==
  /\ usage.input \in Nat /\ usage.cacheRead \in Nat /\ usage.output \in Nat
  /\ usage.input + usage.cacheRead <= 2 * Call!request.tokens
  /\ usage.output <= body.maxTokens

\* Each stage vouches for what the stages before it found.
CallInv ==
  /\ case \in Cases /\ callStage \in CallStages
  /\ callStage \notin {"starting", "no_gateway"} => Call!ListsAgree
  /\ callStage \in {"resolved", "judged", "built", "sent", "answered"} => ref = Call!Resolved
  /\ callStage \in {"judged", "built", "sent", "answered"} => Call!Allowed
  /\ callStage \in {"built", "sent", "answered"} =>
       Call!Builds /\ Call!MaxTokens \in Nat /\ body = BuiltBody
  /\ callStage \notin {"sent", "answered"} => callRow.cost = None
  /\ callStage = "sent" => callRow = Reserved(None)
  /\ callStage = "answered" =>
       /\ Counted
       /\ callRow \in {Reserved(None), Reserved(Call!Cost(usage))}
       /\ callRow.cost # None => Call!Priced

\* A call starts with nothing found.
LEMMA CallInit ==
  ASSUME Call!Init
  PROVE  CallInv
BY DEF Call!Init, CallInv, CallStages

\* What a stage found stays true while the case does.
LEMMA CallStep ==
  ASSUME SoloAssumption, CallInv, Call!Next
  PROVE  CallInv'
<1>. USE DEF CallStages, Call!entry, Call!rule, Call!lists, Call!request
<1>a. case.request.maxTokens \in Nat \cup {None} /\ case.request.mode \in {"standard", "passthrough"}
  BY DEF CallInv, SoloAssumption, Call!CallTargetAssumption
<1>b. Default \in Nat
  BY DEF SoloAssumption, Call!CallTargetAssumption
<1>c. case' = case
  BY DEF Call!Next, Call!Construct, Call!Resolve, Call!Judge, Call!Build, Call!Send, Call!Answer
<1>d. /\ Call!ListsAgree' = Call!ListsAgree /\ Call!Resolved' = Call!Resolved
      /\ Call!MaxTokens' = Call!MaxTokens /\ Call!Priced' = Call!Priced /\ Call!Cited' = Call!Cited
  BY <1>c DEF Call!ListsAgree, Call!Resolved, Call!MaxTokens, Call!Priced, Call!PricesFor, Call!Cited
<1>e. ref' = ref => /\ Call!Allowed' = Call!Allowed /\ Call!Builds' = Call!Builds
                    /\ Call!Extra' = Call!Extra /\ BuiltBody' = BuiltBody
  BY <1>c, <1>d DEF Call!Allowed, Call!Builds, Call!CheckResidency, Call!CheckPlace, Call!IsMantle,
    Call!IsBedrock, Call!Extra, BuiltBody
<1>1. CASE Call!Construct
  BY <1>1, <1>c, <1>d DEF CallInv, Call!Construct
<1>2. CASE Call!Resolve
  BY <1>2, <1>c, <1>d DEF CallInv, Call!Resolve
<1>3. CASE Call!Judge
  BY <1>3, <1>c, <1>d, <1>e DEF CallInv, Call!Judge
<1>4. CASE Call!Build
  <2>1. callStage' = "built" => Call!MaxTokens \in Nat
    BY <1>4, <1>a, <1>b DEF Call!Build, Call!MaxTokens
  <2>2. callStage' = "built" => body' = BuiltBody
    BY <1>4 DEF Call!Build, BuiltBody
  <2>. QED
    BY <1>4, <1>c, <1>d, <1>e, <2>1, <2>2 DEF CallInv, Call!Build
<1>5. CASE Call!Send
  <2>1. callRow' = Reserved(None)
    BY <1>5 DEF Call!Send, Reserved
  <2>2. Reserved(None)' = Reserved(None)
    BY <1>5, <1>c, <1>d DEF Call!Send, Reserved, Call!Estimate, Call!Rate
  <2>. QED
    BY <1>5, <1>c, <1>d, <1>e, <2>1, <2>2 DEF CallInv, Call!Send
<1>6. CASE Call!Answer
  <2>1. Reserved(None)' = Reserved(None)
    BY <1>6, <1>c, <1>d DEF Call!Answer, Reserved, Call!Estimate, Call!Rate
  <2>2. Counted'
    <3>1. PICK input, cacheRead \in 0 .. 2 * case.request.tokens, output \in 0 .. body.maxTokens :
             /\ input + cacheRead <= 2 * case.request.tokens
             /\ usage' = [input |-> input, cacheRead |-> cacheRead, output |-> output]
      BY <1>6 DEF Call!Answer
    <3>. QED
      BY <1>6, <1>c, <3>1 DEF Counted, Call!Answer
  <2>3. callRow' = Reserved(None) \/ (callRow' = Reserved(Call!Cost(usage))' /\ Call!Priced)
    <3>1. callRow = Reserved(None)
      BY <1>6 DEF Call!Answer, CallInv
    <3>2. \A c : [callRow EXCEPT !.cost = c] = Reserved(c)
      BY <3>1 DEF Reserved
    <3>. QED
      BY <1>6, <1>c, <1>d, <3>2 DEF Call!Answer, Reserved, Call!Estimate, Call!Rate, Call!Cost
  <2>4. callRow'.cost # None => Call!Priced
    BY <2>3 DEF Reserved
  <2>. QED
    BY <1>6, <1>c, <1>d, <1>e, <2>1, <2>2, <2>3, <2>4 DEF CallInv, Call!Answer
<1>. QED
  BY <1>1, <1>2, <1>3, <1>4, <1>5, <1>6 DEF Call!Next

\* What is left alone keeps the invariant.
LEMMA CallStutter ==
  ASSUME CallInv, UNCHANGED callVars
  PROVE  CallInv'
BY DEF CallInv, CallStages, callVars, Call!entry, Call!rule, Call!lists, Call!request,
  Call!ListsAgree, Call!Resolved, Call!MaxTokens, Call!Priced, Call!PricesFor, Call!Cited,
  Call!Allowed, Call!Builds, Call!CheckResidency, Call!CheckPlace, Call!IsMantle, Call!IsBedrock,
  Call!Extra, BuiltBody, Reserved, Call!Estimate, Call!Rate, Call!Cost, Counted

\* A call goes to the place its row and its rule say (GoesWhereItSays).
LEMMA GoesRight ==
  ASSUME SoloAssumption, CallInv
  PROVE  Call!GoesWhereItSays
<1>. SUFFICES ASSUME Call!Sent, case.entry.kind \in {"aws_bedrock", "gcp_vertex"},
                     "model" \notin Call!Extra
              PROVE  /\ callRow.region \in {None, case.entry.host.region}
                     /\ case.rule.regions # None => case.entry.host.region \in case.rule.regions
                     /\ case.entry.kind = "aws_bedrock" =>
                          /\ callRow.residency \in {None, body.reach}
                          /\ case.rule.maxResidency # None =>
                               Call!Reach(body.reach) <= Call!Reach(case.rule.maxResidency)
  BY DEF Call!GoesWhereItSays, Call!entry, Call!rule
<1>1. /\ Call!Allowed /\ Call!Builds /\ body = BuiltBody
      /\ \E cost : callRow = Reserved(cost)
  BY DEF CallInv, Call!Sent
<1>2. body.reach = ref.reach /\ callRow.region = ref.region /\ callRow.residency = case.entry.residency
  BY <1>1 DEF BuiltBody, Reserved, Call!entry
<1>3. ref.region # None => ref.region = case.entry.host.region
  BY <1>1 DEF Call!Builds, Call!CheckResidency, Call!CheckPlace, Call!entry
<1>4. case.rule.regions # None => ref.region \in case.rule.regions
  BY <1>1 DEF Call!Allowed, Call!rule
<1>5. ref.region \in {None, case.entry.host.region}
  BY <1>3
<1>6. case.rule.regions # None => case.entry.host.region \in case.rule.regions
  <2>1. case.rule.regions = None \/ None \notin case.rule.regions
    BY DEF SoloAssumption, Call!CallTargetAssumption, CallInv
  <2>. QED
    BY <1>4, <1>5, <2>1
<1>7. ASSUME case.entry.kind = "aws_bedrock"
      PROVE  /\ case.entry.residency \in {None, ref.reach}
             /\ case.rule.maxResidency # None => Call!Reach(ref.reach) <= Call!Reach(case.rule.maxResidency)
  <2>1. case.entry.residency \in {None, ref.reach}
    BY <1>1, <1>7 DEF Call!Builds, Call!CheckResidency, Call!entry
  <2>2. None \notin {"single-region", "geo", "global"}
    BY DEF SoloAssumption, Call!CallTargetAssumption
  <2>3. \A r : Call!Reach(r) \in 0 .. 3
    BY DEF Call!Reach
  <2>4. Call!Reach(None) = 3
    BY <2>2 DEF Call!Reach
  <2>5. case.rule.maxResidency # None =>
          Call!Reach(case.entry.residency) <= Call!Reach(case.rule.maxResidency)
    BY <1>1 DEF Call!Allowed, Call!rule, Call!entry
  <2>. QED
    BY <2>1, <2>3, <2>4, <2>5
<1>. QED
  BY <1>2, <1>5, <1>6, <1>7

\* What the caller left out is filled in only where it may be (NothingFilledIn).
LEMMA FilledRight ==
  ASSUME CallInv
  PROVE  Call!NothingFilledIn
BY DEF CallInv, CallStages, Call!NothingFilledIn, Call!Sent, Call!entry, Call!request, Call!MaxTokens,
  Call!Extra, Call!Resolved, BuiltBody

\* A cost is by the one list that names the model (OneListPrices).
LEMMA PricedRight ==
  ASSUME CallInv
  PROVE  Call!OneListPrices
<1>. SUFFICES ASSUME callRow.cost # None, ~case.entry.zero
              PROVE  /\ callRow.list = IF case.entry.selfHosted THEN "hosted" ELSE "vendor"
                     /\ {l \in {"vendor", "hosted"} :
                           case.lists[l] # None /\ "this" \in case.lists[l]} = {callRow.list}
  BY DEF Call!OneListPrices, Call!entry, Call!lists
<1>1. /\ Call!ListsAgree /\ Call!Priced /\ callRow.list = Call!Cited
  BY DEF CallInv, CallStages, Reserved
<1>2. case.lists.vendor = case.lists["vendor"] /\ case.lists.hosted = case.lists["hosted"]
  OBVIOUS
<1>3. CASE case.entry.selfHosted
  BY <1>1, <1>2, <1>3 DEF Call!ListsAgree, Call!Priced, Call!PricesFor, Call!Cited, Call!entry, Call!lists
<1>4. CASE ~case.entry.selfHosted
  <2>1. "this" \in case.lists.vendor /\ case.lists.vendor # None /\ callRow.list = "vendor"
    BY <1>1, <1>4 DEF Call!Priced, Call!PricesFor, Call!Cited, Call!entry, Call!lists
  <2>2. case.lists.hosted = None \/ "this" \notin case.lists.hosted
    BY <1>1, <1>4 DEF Call!ListsAgree, Call!entry, Call!lists
  <2>. QED
    BY <1>2, <1>4, <2>1, <2>2
<1>. QED
  BY <1>3, <1>4

\* A call is reserved at no less than it may come to (ReservedEnough).
LEMMA ReservedRight ==
  ASSUME SoloAssumption, CallInv
  PROVE  Call!ReservedEnough
<1>. DEFINE tokens == case.request.tokens
            prompt == usage.input + usage.cacheRead
            max    == Call!MaxTokens
<1>. SUFFICES ASSUME callRow.cost # None
              PROVE  /\ prompt > Above /\ ~case.entry.zero => callRow.estimate >= LongRate * tokens
                     /\ prompt <= tokens /\ "max_tokens" \notin Call!Extra => callRow.cost <= callRow.estimate
  BY DEF Call!ReservedEnough, Call!entry, Call!request
<1>1. /\ Counted /\ Call!Priced /\ max \in Nat /\ body = BuiltBody
      /\ callRow = Reserved(Call!Cost(usage)) /\ case \in Cases
  <2>1. callStage = "answered"
    BY DEF CallInv, CallStages, Reserved
  <2>2. callRow # Reserved(None)
    BY DEF Reserved
  <2>. QED
    BY <2>1, <2>2 DEF CallInv
<1>2. /\ tokens \in Nat /\ Above \in Nat /\ LongRate \in Nat \ {0}
      /\ usage.input \in Nat /\ usage.cacheRead \in Nat /\ usage.output \in Nat
      /\ prompt \in Nat /\ prompt <= 2 * tokens
  BY <1>1 DEF Counted, SoloAssumption, Call!CallTargetAssumption, Call!request
<1>3. /\ callRow.estimate = (tokens + max) * Call!Rate(2 * tokens)
      /\ callRow.cost = (usage.input + usage.cacheRead + usage.output) * Call!Rate(prompt)
  BY <1>1 DEF Reserved, Call!Estimate, Call!Cost, Call!request
<1>4. /\ Call!Rate(2 * tokens) \in Nat /\ Call!Rate(prompt) \in Nat
      /\ Call!Rate(prompt) <= Call!Rate(2 * tokens)
  BY <1>2 DEF Call!Rate
<1>5. ASSUME prompt > Above, ~case.entry.zero
      PROVE  callRow.estimate >= LongRate * tokens
  <2>1. Call!Rate(2 * tokens) = LongRate
    BY <1>2, <1>5 DEF Call!Rate, Call!entry
  <2>2. \A t, m, r \in Nat : (t + m) * r >= r * t
    <3>1. \A t, m, r \in Nat : (t + m) * r = r * t + m * r /\ m * r \in Nat /\ r * t \in Nat
      OBVIOUS
    <3>. QED
      BY <3>1
  <2>. QED
    BY <1>1, <1>2, <1>3, <2>1, <2>2
<1>6. ASSUME prompt <= tokens, "max_tokens" \notin Call!Extra
      PROVE  callRow.cost <= callRow.estimate
  <2>1. usage.output <= max
    BY <1>1, <1>6 DEF Counted, BuiltBody
  <2>2. \A x, y, q, r \in Nat : x <= y /\ q <= r => x * q <= y * r
    <3>. SUFFICES ASSUME NEW x \in Nat, NEW y \in Nat, NEW q \in Nat, NEW r \in Nat,
                         x <= y, q <= r
                  PROVE  x * q <= y * r
      OBVIOUS
    <3>1. PICK d \in Nat : y = x + d
      <4>1. y - x \in Nat /\ y = x + (y - x)
        OBVIOUS
      <4>. QED
        BY <4>1
    <3>2. PICK e \in Nat : r = q + e
      <4>1. r - q \in Nat /\ r = q + (r - q)
        OBVIOUS
      <4>. QED
        BY <4>1
    <3>3. y * r = x * q + x * e + d * q + d * e
      BY <3>1, <3>2
    <3>4. x * q \in Nat /\ x * e \in Nat /\ d * q \in Nat /\ d * e \in Nat
      OBVIOUS
    <3>. QED
      BY <3>3, <3>4
  <2>3. usage.input + usage.cacheRead + usage.output \in Nat /\ tokens + max \in Nat
        /\ usage.input + usage.cacheRead + usage.output <= tokens + max
    BY <1>1, <1>2, <1>6, <2>1
  <2>. HIDE DEF max, tokens, prompt
  <2>. QED
    BY <1>3, <1>4, <2>2, <2>3
<1>. QED
  BY <1>5, <1>6

\* For every configuration, rule, price list and request: a call goes where its row and its rule
\* say, nothing the caller left out is filled in where it may not be, and it is reserved and
\* costed by its own rates (CallIsAsJudged; resolve, check_residency, the adapters' build_request,
\* estimate and cost).
THEOREM CallsAreAsJudged ==
  ASSUME SoloAssumption
  PROVE  SoloSpec => []CallIsAsJudged
<1>. DEFINE Inv == part = "call" => CallInv
<1>1. SoloInit => Inv
  BY CallInit DEF SoloInit
<1>2. Inv /\ [SoloNext]_partsVars => Inv'
  <2>. SUFFICES ASSUME Inv, [SoloNext]_partsVars, part' = "call" PROVE CallInv'
    OBVIOUS
  <2>1. part' = part /\ (Call!Next \/ UNCHANGED callVars)
    BY DEF SoloNext, partsVars
  <2>. QED
    BY <2>1, CallStep, CallStutter
<1>3. Inv => CallIsAsJudged
  BY GoesRight, FilledRight, PricedRight, ReservedRight DEF CallIsAsJudged, Call!CallIsAsJudged
<1>. HIDE DEF Inv
<1>. QED
  BY <1>1, <1>2, <1>3, PTL DEF SoloSpec

-----------------------------------------------------------------------------
(* Opening a ledger (LedgerOpening).                                       *)

\* The statements of _migrate, of a file of the first version; a later file's are the last of
\* them.  And what is left once the rows to backfill are selected.
Statement ==
  [do   : {"look", "add", "select", "update", "clear", "refill", "record", "index"},
   what : {"call_uid", "redacted", "cache_source", None}]
Whole ==
  <<Migration!Step("look", "call_uid"), Migration!Step("add", "call_uid"),
    Migration!Step("select", None),
    Migration!Step("look", "redacted"), Migration!Step("add", "redacted"),
    Migration!Step("clear", None), Migration!Step("refill", None),
    Migration!Step("look", "cache_source"), Migration!Step("add", "cache_source"),
    Migration!Step("record", None), Migration!Step("index", None)>>
From(n)  == SubSeq(Whole, n, 11)
Updating == <<Migration!Step("update", None)>> \o From(4)

\* The statement that p is at.
At(p) == 12 - Len(plan[p])
Migrates(p, f) == opening[p] = "migrate" /\ scene.file[p] = f

\* What a row was written with, by who wrote it: before, by this library, or by an older process.
RowOk(f, id, r) ==
  \/ /\ r.by = "before" /\ r.what = "call" /\ scene.version # 0 /\ id <= 2
     /\ IF scene.version < 2 THEN r.uid \in {None, <<"legacy", id, "call">>} ELSE r.uid = <<"first", id>>
  \/ r.by = "new" /\ r.what = "call" /\ r.uid = <<"uid", f, id>>
  \/ /\ r.by = "old" /\ r.what = <<"old", f>> /\ scene.version # 0 /\ id > 2
     /\ IF scene.version < 2 THEN r.uid \in {None, <<"legacy", id, <<"old", f>>>>}
        ELSE r.uid = <<"uid", f, id>>

\* The rows without a uid that are not an older process's.
Nulls(f) == {id \in DOMAIN rows[f] : rows[f][id].uid = None /\ rows[f][id].by # "old"}

\* The spend is the sum of the rows.
InStep(f) == (IF spend[f] = None THEN 0 ELSE spend[f]) = Len(rows[f])

OpeningTypes ==
  /\ scene \in Scenarios
  /\ version \in [Files -> Nat \cup {None}] /\ columns \in [Files -> SUBSET Migration!Every]
  /\ spend \in [Files -> Nat \cup {None}] /\ counted \in [Files -> BOOLEAN]
  /\ rows \in [Files -> Seq([what : {"call"} \cup ({"old"} \X Files), uid : Migration!Uids \cup {None},
                             by : {"before", "old", "new"}])]
  /\ opening \in [Processes -> {"closed", "script", "version", "migrate", "open"}]
  /\ plan \in [Processes -> Seq(Statement)]
  /\ todo \in [Processes -> SUBSET Nat]

\* What a file has, by its version.
FileOk(f) ==
  /\ scene.version # 0 => Len(rows[f]) >= 2
  /\ \A id \in DOMAIN rows[f] : RowOk(f, id, rows[f][id])
  /\ version[f] = Migration!New \/ version[f] = IF scene.version = 0 THEN None ELSE scene.version
  /\ Migration!ColumnsOf(scene.version) \subseteq columns[f]
  /\ version[f] = Migration!New =>
       columns[f] = Migration!Every /\ counted[f] /\ Nulls(f) = {} /\ scene.version <= 11
  /\ scene.version >= 9 => counted[f]
  /\ scene.version = 0 => InStep(f) /\ (rows[f] # <<>> => counted[f])

\* What an opener's statements still have to do is what the file still lacks.
OpenerOk(p) ==
  LET f == scene.file[p] IN
  /\ opening[p] # "migrate" => plan[p] = <<>>
  /\ plan[p] # Updating => todo[p] = {}
  /\ todo[p] \subseteq {id \in DOMAIN rows[f] : rows[f][id].by # "new"}
  /\ opening[p] \in {"version", "migrate", "open"} => counted[f]
  /\ opening[p] = "version" /\ version[f] = None => columns[f] = Migration!Every
  /\ opening[p] = "open" => version[f] = Migration!New
  /\ opening[p] = "migrate" =>
       /\ At(p) \in 1 .. 11
       /\ plan[p] = From(At(p)) \/ (plan[p] = Updating /\ At(p) = 3)
       /\ At(p) <= 3 => scene.version < 2
       /\ At(p) <= 7 => scene.version # 0 /\ scene.version < 9
       /\ scene.version <= 11
       /\ At(p) > 2 => "call_uid" \in columns[f]
       /\ At(p) > 3 => Nulls(f) = {}
       /\ plan[p] = Updating => Nulls(f) \subseteq todo[p]
       /\ At(p) > 5 => "redacted" \in columns[f]
       /\ At(p) > 9 => "cache_source" \in columns[f]
       /\ At(p) > 10 => version[f] = Migration!New

\* Unless two were opening a file at once, its spend is the sum of its rows, or is still to be
\* counted by whoever opens it.
AloneAt(f) ==
  /\ \A p, q \in Processes : p # q /\ Migrates(p, f) /\ Migrates(q, f) => f \in overlap
  /\ f \notin overlap =>
       /\ InStep(f) \/ /\ version[f] # Migration!New /\ scene.version < 9
                       /\ \A p \in Processes : Migrates(p, f) => At(p) <= 7
       /\ \A p \in Processes : Migrates(p, f) /\ At(p) <= 7 => version[f] # Migration!New

OpeningInv ==
  /\ OpeningTypes
  /\ \A f \in Files : FileOk(f) /\ AloneAt(f)
  /\ \A p \in Processes : OpenerOk(p)

\* The statements, one after the other.
LEMMA WholeIs ==
  /\ Len(Whole) = 11 /\ Whole \in Seq(Statement)
  /\ Whole[1] = Migration!Step("look", "call_uid") /\ Whole[2] = Migration!Step("add", "call_uid")
  /\ Whole[3] = Migration!Step("select", None)
  /\ Whole[4] = Migration!Step("look", "redacted") /\ Whole[5] = Migration!Step("add", "redacted")
  /\ Whole[6] = Migration!Step("clear", None) /\ Whole[7] = Migration!Step("refill", None)
  /\ Whole[8] = Migration!Step("look", "cache_source")
  /\ Whole[9] = Migration!Step("add", "cache_source")
  /\ Whole[10] = Migration!Step("record", None) /\ Whole[11] = Migration!Step("index", None)
<1>1. \A c \in {"call_uid", "redacted", "cache_source", None} :
        /\ Migration!Step("look", c) \in Statement /\ Migration!Step("add", c) \in Statement
        /\ Migration!Step("select", c) \in Statement /\ Migration!Step("clear", c) \in Statement
        /\ Migration!Step("refill", c) \in Statement /\ Migration!Step("record", c) \in Statement
        /\ Migration!Step("index", c) \in Statement
  BY DEF Statement, Migration!Step
<1>2. \A S : \A a, b, c, d, e, g, h, i, j, k, l \in S :
        LET w == <<a, b, c, d, e, g, h, i, j, k, l>>
        IN  /\ w \in Seq(S) /\ Len(w) = 11 /\ w[1] = a /\ w[2] = b /\ w[3] = c /\ w[4] = d /\ w[5] = e
            /\ w[6] = g /\ w[7] = h /\ w[8] = i /\ w[9] = j /\ w[10] = k /\ w[11] = l
  OBVIOUS
<1>. QED
  BY <1>1, <1>2, Zenon DEF Whole

\* A suffix of a sequence: its head, its tail and its length.
LEMMA Suffix ==
  ASSUME NEW S, NEW s \in Seq(S), NEW n, n = Len(s), NEW i \in 1 .. n
  PROVE  /\ SubSeq(s, i, n) # <<>> /\ Len(SubSeq(s, i, n)) = n + 1 - i
         /\ Head(SubSeq(s, i, n)) = s[i] /\ Tail(SubSeq(s, i, n)) = SubSeq(s, i + 1, n)
         /\ SubSeq(s, i, n) \in Seq(S) /\ SubSeq(s, n + 1, n) = <<>>
<1>. DEFINE t == SubSeq(s, i, n)
<1>1. n \in Nat /\ i \in Nat /\ i <= n /\ i >= 1
  OBVIOUS
<1>2. /\ t = [k \in 1 .. (n + 1 - i) |-> s[i + k - 1]] /\ t \in Seq(S) /\ Len(t) = n + 1 - i
  BY <1>1
<1>3. SubSeq(s, i + 1, n) = [k \in 1 .. (n - i) |-> s[i + k]]
  <2>1. SubSeq(s, i + 1, n) = [k \in 1 .. (n + 1 - (i + 1)) |-> s[(i + 1) + k - 1]]
    BY <1>1
  <2>. QED
    BY <1>1, <2>1
<1>4. t # <<>> /\ Head(t) = s[i]
  <2>1. t \in Seq(S) /\ Len(t) # 0 /\ t[1] = s[i]
    BY <1>1, <1>2
  <2>. HIDE DEF t
  <2>2. t # <<>> /\ Head(t) = t[1]
    BY <2>1
  <2>. QED
    BY <2>1, <2>2
<1>5. Tail(t) = [k \in 1 .. (n - i) |-> s[i + k]]
  <2>1. Tail(t) = [k \in 1 .. (Len(t) - 1) |-> t[k + 1]]
    BY <1>2, <1>4
  <2>2. Len(t) - 1 = n - i
    BY <1>1, <1>2
  <2>3. \A k \in 1 .. (n - i) : t[k + 1] = s[i + k]
    BY <1>1, <1>2
  <2>. QED
    BY <2>1, <2>2, <2>3
<1>6. SubSeq(s, n + 1, n) = <<>>
  BY <1>1
<1>. QED
  BY <1>2, <1>3, <1>4, <1>5, <1>6

\* What is left of the statements, after each of them.
LEMMA FromIs ==
  /\ From(12) = <<>>
  /\ \A i \in 1 .. 11 : /\ From(i) # <<>> /\ Len(From(i)) = 12 - i /\ Head(From(i)) = Whole[i]
                        /\ Tail(From(i)) = From(i + 1)
                        /\ From(i) \in Seq(Statement)
<1>. DEFINE n == 11
<1>1. Whole \in Seq(Statement) /\ n = Len(Whole)
  BY WholeIs
<1>. HIDE DEF n
<1>2. ASSUME NEW i \in 1 .. n
      PROVE  /\ SubSeq(Whole, i, n) # <<>> /\ Len(SubSeq(Whole, i, n)) = n + 1 - i
             /\ Head(SubSeq(Whole, i, n)) = Whole[i]
             /\ Tail(SubSeq(Whole, i, n)) = SubSeq(Whole, i + 1, n)
             /\ SubSeq(Whole, i, n) \in Seq(Statement) /\ SubSeq(Whole, n + 1, n) = <<>>
  BY <1>1, Suffix
<1>. USE DEF n
<1>3. \A i \in 1 .. n : n + 1 - i = 12 - i
  OBVIOUS
<1>4. 1 \in 1 .. n /\ n + 1 = 12
  OBVIOUS
<1>. QED
  BY <1>2, <1>3, <1>4 DEF From

\* Selecting leaves an update before the statements from the fourth.
LEMMA UpdatingIs ==
  /\ Updating # <<>> /\ Len(Updating) = 9 /\ Head(Updating) = Migration!Step("update", None)
  /\ Tail(Updating) = From(4) /\ \A i \in 1 .. 11 : Updating # From(i)
  /\ Updating \in Seq(Statement)
  /\ Updating # <<>>
<1>. DEFINE S == Statement
            u == Migration!Step("update", None)
<1>1. u \in S /\ From(4) \in Seq(S) /\ Len(From(4)) = 8
  <2>1. u \in S
    BY DEF Migration!Step, Statement
  <2>2. 4 \in 1 .. 11 /\ 12 - 4 = 8
    OBVIOUS
  <2>. QED
    BY <2>1, <2>2, FromIs
<1>. HIDE DEF S, u
<1>2. /\ <<u>> \o From(4) \in Seq(S) /\ Len(<<u>> \o From(4)) = 9
      /\ Head(<<u>> \o From(4)) = u /\ Tail(<<u>> \o From(4)) = From(4) /\ <<u>> \o From(4) # <<>>
  <2>1. \A s \in Seq(S) : /\ <<u>> \o s \in Seq(S) /\ Len(<<u>> \o s) = 1 + Len(s) /\ <<u>> \o s # <<>>
                          /\ Head(<<u>> \o s) = u /\ Tail(<<u>> \o s) = s
    <3>. SUFFICES ASSUME NEW s \in Seq(S)
                  PROVE  /\ <<u>> \o s \in Seq(S) /\ Len(<<u>> \o s) = 1 + Len(s) /\ <<u>> \o s # <<>>
                         /\ Head(<<u>> \o s) = u /\ Tail(<<u>> \o s) = s
      OBVIOUS
    <3>1. <<u>> \in Seq(S) /\ <<u>> # <<>> /\ Len(<<u>>) = 1 /\ <<u>>[1] = u
      BY <1>1
    <3>2. <<u>> \o s \in Seq(S) /\ Len(<<u>> \o s) = 1 + Len(s) /\ <<u>> \o s # <<>>
          /\ (<<u>> \o s)[1] = u
      BY <3>1
    <3>3. \A k \in 1 .. Len(s) : (<<u>> \o s)[k + 1] = s[k]
      BY <3>1
    <3>4. Tail(<<u>> \o s) = s
      BY <3>2, <3>3
    <3>. QED
      BY <3>2, <3>4
  <2>2. 1 + 8 = 9
    OBVIOUS
  <2>. QED
    BY <1>1, <2>1, <2>2, Zenon
<1>3. \A i \in 1 .. 11 : Head(From(i)).do # "update"
  <2>1. \A i \in 1 .. 11 : Whole[i].do # "update"
    BY WholeIs DEF Migration!Step
  <2>. QED
    BY <2>1, FromIs
<1>4. u.do = "update"
  BY DEF u, Migration!Step
<1>. QED
  BY <1>2, <1>3, <1>4 DEF Updating, S, u

\* What a file of each version still has to run.
LEMMA StepsAre ==
  ASSUME NEW v \in 0 .. 11
  PROVE  Migration!Steps(v) = From(IF v < 2 THEN 1 ELSE IF v < 8 THEN 4 ELSE IF v < 9 THEN 6
                                   ELSE IF v < 11 THEN 8 ELSE 11)
<1>1. CASE v < 2
  <2>1. Migration!Steps(v) = From(1)
    BY <1>1 DEF Migration!Steps, Migration!Adding, From, Whole
  <2>. QED
    BY <1>1, <2>1
<1>2. CASE v >= 2 /\ v < 8
  <2>1. Migration!Steps(v) = From(4)
    BY <1>2 DEF Migration!Steps, Migration!Adding, From, Whole
  <2>. QED
    BY <1>2, <2>1
<1>3. CASE v = 8
  <2>1. Migration!Steps(v) = From(6)
    BY <1>3 DEF Migration!Steps, Migration!Adding, From, Whole
  <2>. QED
    BY <1>3, <2>1
<1>4. CASE v \in {9, 10}
  <2>1. Migration!Steps(v) = From(8)
    BY <1>4 DEF Migration!Steps, Migration!Adding, From, Whole
  <2>. QED
    BY <1>4, <2>1
<1>5. CASE v = 11
  <2>1. Migration!Steps(v) = From(11)
    BY <1>5 DEF Migration!Steps, Migration!Adding, From, Whole
  <2>. QED
    BY <1>5, <2>1
<1>6. v < 2 \/ (v >= 2 /\ v < 8) \/ v = 8 \/ v \in {9, 10} \/ v = 11
  OBVIOUS
<1>. QED
  BY <1>1, <1>2, <1>3, <1>4, <1>5, <1>6, Zenon

\* What is assumed of the files and of who opens them.
LEMMA SceneIs ==
  ASSUME SoloAssumption, scene \in Scenarios
  PROVE  /\ scene.version \in Nat /\ scene.old \subseteq Files /\ scene.file \in [Processes -> Files]
         /\ scene.version = 0 => scene.old = {}
         /\ None \notin Nat /\ None \notin Migration!Uids
BY DEF SoloAssumption, Migration!OpeningAssumption

\* A file that is left alone.
LEMMA SameFile ==
  ASSUME NEW f, FileOk(f), scene' = scene, version'[f] = version[f], columns'[f] = columns[f],
         rows'[f] = rows[f], spend'[f] = spend[f], counted'[f] = counted[f]
  PROVE  FileOk(f)'
BY DEF FileOk, RowOk, Nulls, InStep, Migration!ColumnsOf, Migration!Every, Migration!New

\* What is done to a file that takes nothing from another opener of it.
Grows(f) ==
  /\ columns[f] \subseteq columns'[f] /\ (counted[f] => counted'[f])
  /\ version'[f] = version[f] \/ version'[f] = Migration!New
  /\ Nulls(f)' \subseteq Nulls(f)
  /\ \A id \in DOMAIN rows[f] : id \in DOMAIN rows'[f] /\ rows'[f][id].by = rows[f][id].by

\* An opener that takes no step is where it was in what it has to do.
LEMMA OpenerKeeps ==
  ASSUME SoloAssumption, NEW p, OpenerOk(p), scene' = scene, opening'[p] = opening[p],
         plan'[p] = plan[p], todo'[p] = todo[p], NEW f, f = scene.file[p], Grows(f),
         columns'[f] \subseteq Migration!Every
  PROVE  OpenerOk(p)'
<1>1. /\ scene'.file[p] = f /\ At(p)' = At(p) /\ Migration!New' = Migration!New
      /\ Updating' = Updating /\ From(At(p))' = From(At(p)) /\ Migration!Every' = Migration!Every
  BY DEF At, Updating, From, Whole, Migration!Step, Migration!Every, Migration!ColumnsOf, Migration!New
<1>2. None # Migration!New
  BY DEF SoloAssumption, Migration!OpeningAssumption, Migration!New
<1>3. todo[p] \subseteq {id \in DOMAIN rows[f] : rows[f][id].by # "new"}
        => todo[p] \subseteq {id \in DOMAIN rows'[f] : rows'[f][id].by # "new"}
  BY DEF Grows
<1>4. f = scene.file[p] /\ scene'.file[p] = f /\ OpenerOk(p)
  BY <1>1
<1>5. /\ opening'[p] # "migrate" => plan'[p] = <<>>
      /\ plan'[p] # Updating => todo'[p] = {}
      /\ todo'[p] \subseteq {id \in DOMAIN rows'[f] : rows'[f][id].by # "new"}
  BY <1>3, <1>4 DEF OpenerOk
<1>6. /\ opening'[p] \in {"version", "migrate", "open"} => counted'[f]
      /\ opening'[p] = "version" /\ version'[f] = None => columns'[f] = Migration!Every
      /\ opening'[p] = "open" => version'[f] = Migration!New
  BY <1>2, <1>4 DEF OpenerOk, Grows
<1>7. ASSUME opening'[p] = "migrate"
      PROVE  /\ At(p) \in 1 .. 11
             /\ plan'[p] = From(At(p)) \/ (plan'[p] = Updating /\ At(p) = 3)
             /\ At(p) <= 3 => scene'.version < 2
             /\ At(p) <= 7 => scene'.version # 0 /\ scene'.version < 9
             /\ scene'.version <= 11
             /\ At(p) > 2 => "call_uid" \in columns'[f]
             /\ At(p) > 3 => Nulls(f)' = {}
             /\ plan'[p] = Updating => Nulls(f)' \subseteq todo'[p]
             /\ At(p) > 5 => "redacted" \in columns'[f]
             /\ At(p) > 9 => "cache_source" \in columns'[f]
             /\ At(p) > 10 => version'[f] = Migration!New
  <2>1. /\ At(p) \in 1 .. 11
        /\ plan[p] = From(At(p)) \/ (plan[p] = Updating /\ At(p) = 3)
        /\ At(p) <= 3 => scene.version < 2
        /\ At(p) <= 7 => scene.version # 0 /\ scene.version < 9
        /\ scene.version <= 11
        /\ At(p) > 2 => "call_uid" \in columns[f]
        /\ At(p) > 3 => Nulls(f) = {}
        /\ plan[p] = Updating => Nulls(f) \subseteq todo[p]
        /\ At(p) > 5 => "redacted" \in columns[f]
        /\ At(p) > 9 => "cache_source" \in columns[f]
        /\ At(p) > 10 => version[f] = Migration!New
    BY <1>4, <1>7 DEF OpenerOk
  <2>. QED
    BY <2>1 DEF Grows
<1>. QED
  BY <1>1, <1>5, <1>6, <1>7 DEF OpenerOk

\* A file whose openers are where they were, before or after the spend is counted.
LEMMA SameAlone ==
  ASSUME NEW f, AloneAt(f), scene' = scene, overlap \subseteq overlap',
         version'[f] = version[f], spend'[f] = spend[f], Len(rows'[f]) = Len(rows[f]),
         \A q \in Processes : Migrates(q, f)' => Migrates(q, f) /\ (At(q)' <= 7 <=> At(q) <= 7)
  PROVE  AloneAt(f)'
<1>1. InStep(f)' = InStep(f) /\ Migration!New' = Migration!New
  BY DEF InStep, Migration!New
<1>2. \A p, q \in Processes : p # q /\ Migrates(p, f)' /\ Migrates(q, f)' => f \in overlap'
  BY DEF AloneAt
<1>3. f \notin overlap' => f \notin overlap
  OBVIOUS
<1>. QED
  BY <1>1, <1>2, <1>3 DEF AloneAt

\* What p alone does, without a word to its file.
PlainStep(p) ==
  /\ scene' = scene /\ version' = version /\ columns' = columns /\ rows' = rows
  /\ spend' = spend /\ counted' = counted /\ overlap' = overlap
  /\ \A q \in Processes \ {p} :
       opening'[q] = opening[q] /\ plan'[q] = plan[q] /\ todo'[q] = todo[q]
  /\ opening' \in [Processes -> {"closed", "script", "version", "migrate", "open"}]
  /\ plan' \in [Processes -> Seq(Statement)] /\ todo' \in [Processes -> SUBSET Nat]
  /\ opening'[p] = "migrate" => opening[p] = "migrate" /\ (At(p)' <= 7 <=> At(p) <= 7)

\* Such a step keeps the invariant if it keeps what is to be said of p.
LEMMA PlainKeeps ==
  ASSUME SoloAssumption, OpeningInv, NEW p \in Processes, PlainStep(p), OpenerOk(p)'
  PROVE  OpeningInv'
<1>1. OpeningTypes'
  BY DEF OpeningInv, OpeningTypes, PlainStep, Migration!Every, Migration!ColumnsOf, Migration!New,
    Migration!Uids, Statement
<1>2. \A f \in Files : FileOk(f)'
  BY SameFile DEF OpeningInv, PlainStep
<1>3. ASSUME NEW f \in Files PROVE AloneAt(f)'
  <2>1. \A q \in Processes : Migrates(q, f)' => Migrates(q, f) /\ (At(q)' <= 7 <=> At(q) <= 7)
    BY DEF PlainStep, Migrates, At
  <2>2. AloneAt(f) /\ scene' = scene /\ overlap \subseteq overlap' /\ version'[f] = version[f]
        /\ spend'[f] = spend[f] /\ Len(rows'[f]) = Len(rows[f])
    BY DEF OpeningInv, PlainStep
  <2>. QED
    BY <2>1, <2>2, SameAlone
<1>4. ASSUME NEW q \in Processes PROVE OpenerOk(q)'
  <2>1. CASE q = p
    BY <2>1
  <2>2. CASE q # p
    <3>. DEFINE f == scene.file[q]
    <3>1. f \in Files
      BY SceneIs DEF OpeningInv, OpeningTypes
    <3>2. /\ OpenerOk(q) /\ scene' = scene /\ opening'[q] = opening[q] /\ plan'[q] = plan[q]
          /\ todo'[q] = todo[q] /\ columns'[f] \subseteq Migration!Every
      BY <2>2, <3>1 DEF OpeningInv, OpeningTypes, PlainStep
    <3>3. Grows(f)
      BY <3>1 DEF PlainStep, Grows, Nulls
    <3>. QED
      BY <3>2, <3>3, OpenerKeeps
  <2>. QED
    BY <2>1, <2>2
<1>. QED
  BY <1>1, <1>2, <1>3, <1>4 DEF OpeningInv

\* The statement an opener is at.
LEMMA Reading ==
  ASSUME NEW p, OpenerOk(p), opening[p] = "migrate"
  PROVE  /\ plan[p] # <<>> /\ At(p) \in 1 .. 11
         /\ \/ /\ plan[p] = From(At(p)) /\ Head(plan[p]) = Whole[At(p)]
               /\ Tail(plan[p]) = From(At(p) + 1) /\ todo[p] = {}
            \/ /\ plan[p] = Updating /\ Head(plan[p]) = Migration!Step("update", None)
               /\ Tail(plan[p]) = From(4) /\ At(p) = 3
<1>1. At(p) \in 1 .. 11 /\ (plan[p] = From(At(p)) \/ (plan[p] = Updating /\ At(p) = 3))
  BY DEF OpenerOk
<1>2. plan[p] # Updating => todo[p] = {}
  BY DEF OpenerOk
<1>3. CASE plan[p] = From(At(p))
  BY <1>1, <1>2, <1>3, FromIs, UpdatingIs
<1>4. CASE plan[p] = Updating /\ At(p) = 3
  BY <1>1, <1>4, UpdatingIs
<1>. QED
  BY <1>1, <1>3, <1>4

\* The column that a statement looks for or adds.
ColumnAt(n) == IF n <= 2 THEN "call_uid" ELSE IF n <= 5 THEN "redacted" ELSE "cache_source"

\* Where each statement is.
LEMMA StatementsAre ==
  ASSUME NEW p, OpenerOk(p), opening[p] = "migrate"
  PROVE  LET do == Head(plan[p]).do  what == Head(plan[p]).what  n == At(p) IN
         /\ do = "update" => plan[p] = Updating /\ n = 3 /\ Tail(plan[p]) = From(4)
         /\ do # "update" => /\ plan[p] = From(n) /\ Tail(plan[p]) = From(n + 1) /\ todo[p] = {}
                             /\ do = Whole[n].do
         /\ do = "look" => n \in {1, 4, 8} /\ what = ColumnAt(n)
         /\ do = "add" => n \in {2, 5, 9} /\ what = ColumnAt(n)
         /\ do = "select" => n = 3
         /\ do = "clear" => n = 6
         /\ do = "refill" => n = 7
         /\ do = "record" => n = 10
         /\ do = "index" => n = 11
<1>1. CASE plan[p] = Updating
  BY <1>1, Reading, UpdatingIs DEF Migration!Step
<1>2. CASE plan[p] # Updating
  <2>. DEFINE n == At(p)
  <2>1. /\ n \in 1 .. 11 /\ plan[p] = From(n) /\ Head(plan[p]) = Whole[n]
        /\ Tail(plan[p]) = From(n + 1) /\ todo[p] = {}
    BY <1>2, Reading
  <2>2. /\ Whole[n].do # "update"
        /\ Whole[n].do = "look" => n \in {1, 4, 8} /\ Whole[n].what = ColumnAt(n)
        /\ Whole[n].do = "add" => n \in {2, 5, 9} /\ Whole[n].what = ColumnAt(n)
        /\ Whole[n].do = "select" => n = 3
        /\ Whole[n].do = "clear" => n = 6
        /\ Whole[n].do = "refill" => n = 7
        /\ Whole[n].do = "record" => n = 10
        /\ Whole[n].do = "index" => n = 11
    <3>. HIDE DEF n
    <3>1. n \in 1 .. 11
      BY <2>1
    <3>. QED
      BY <3>1, WholeIs DEF Migration!Step, ColumnAt
  <2>. HIDE DEF n
  <2>. QED
    BY <2>1, <2>2 DEF n
<1>. QED
  BY <1>1, <1>2

\* An opener that goes on to a statement.
LEMMA MovesOn ==
  ASSUME NEW p, NEW f, f = scene'.file[p], NEW n \in 1 .. 11, opening'[p] = "migrate",
         plan'[p] = From(n), todo'[p] = {}, counted'[f],
         n <= 3 => scene'.version < 2,
         n <= 7 => scene'.version # 0 /\ scene'.version < 9,
         scene'.version <= 11,
         n > 2 => "call_uid" \in columns'[f],
         n > 3 => Nulls(f)' = {},
         n > 5 => "redacted" \in columns'[f],
         n > 9 => "cache_source" \in columns'[f],
         n > 10 => version'[f] = Migration!New
  PROVE  OpenerOk(p)' /\ At(p)' = n
<1>1. /\ Migration!New' = Migration!New /\ Updating' = Updating /\ From(n)' = From(n)
      /\ plan'[p] # Updating
  BY UpdatingIs DEF Updating, From, Whole, Migration!Step, Migration!New
<1>2. Len(plan'[p]) = 12 - n
  BY FromIs
<1>3. At(p)' = n
  BY <1>2 DEF At
<1>4. scene'.file[p] = f /\ From(At(p))' = From(n)
  BY <1>1, <1>3 DEF From, Whole, Migration!Step
<1>. QED
  BY <1>1, <1>3, <1>4 DEF OpenerOk

\* An opener that has rows to give a uid.
LEMMA GivesUids ==
  ASSUME NEW p, NEW f, f = scene'.file[p], opening'[p] = "migrate", plan'[p] = Updating, counted'[f],
         scene'.version \in Nat, scene'.version < 2, scene'.version # 0,
         "call_uid" \in columns'[f], Nulls(f)' \subseteq todo'[p],
         todo'[p] \subseteq {id \in DOMAIN rows'[f] : rows'[f][id].by # "new"}
  PROVE  OpenerOk(p)' /\ At(p)' = 3
<1>1. Updating' = Updating /\ scene'.file[p] = f
  BY DEF Updating, From, Whole, Migration!Step
<1>2. At(p)' = 3
  BY UpdatingIs DEF At
<1>. QED
  BY <1>1, <1>2 DEF OpenerOk

\* An opener that has nothing more to run.
LEMMA LeavesOff ==
  ASSUME NEW p, NEW f, f = scene'.file[p], opening'[p] \in {"closed", "script", "version", "open"},
         plan'[p] = <<>>, todo'[p] = {},
         opening'[p] \in {"version", "open"} => counted'[f],
         opening'[p] = "version" /\ version'[f] = None => columns'[f] = Migration!Every,
         opening'[p] = "open" => version'[f] = Migration!New
  PROVE  OpenerOk(p)'
<1>1. Migration!New' = Migration!New /\ Migration!Every' = Migration!Every
  BY DEF Migration!New, Migration!Every, Migration!ColumnsOf
<1>2. scene'.file[p] = f
  OBVIOUS
<1>. QED
  BY <1>1, <1>2 DEF OpenerOk

\* What Types says of one process and its file.
LEMMA OfProcess ==
  ASSUME SoloAssumption, OpeningInv, NEW p \in Processes
  PROVE  /\ scene.file[p] \in Files /\ Migration!File(p) = scene.file[p]
         /\ OpenerOk(p) /\ FileOk(scene.file[p]) /\ AloneAt(scene.file[p])
         /\ columns[scene.file[p]] \subseteq Migration!Every
<1>1. scene.file[p] \in Files
  BY SceneIs DEF OpeningInv, OpeningTypes
<1>. QED
  BY <1>1 DEF OpeningInv, OpeningTypes, Migration!File

\* One process's part of the state is written, and no other's.
LEMMA OneProcess ==
  ASSUME OpeningInv, NEW p \in Processes, NEW o, NEW s, NEW t,
         opening' = [opening EXCEPT ![p] = o], plan' = [plan EXCEPT ![p] = s],
         todo' = [todo EXCEPT ![p] = t],
         o \in {"closed", "script", "version", "migrate", "open"}, s \in Seq(Statement), t \in SUBSET Nat
  PROVE  /\ opening'[p] = o /\ plan'[p] = s /\ todo'[p] = t
         /\ \A q \in Processes \ {p} :
              opening'[q] = opening[q] /\ plan'[q] = plan[q] /\ todo'[q] = todo[q]
         /\ opening' \in [Processes -> {"closed", "script", "version", "migrate", "open"}]
         /\ plan' \in [Processes -> Seq(Statement)] /\ todo' \in [Processes -> SUBSET Nat]
BY DEF OpeningInv, OpeningTypes

\* A process that stops, or that never was a migrator, keeps the invariant.
LEMMA StopsPlainly ==
  ASSUME SoloAssumption, OpeningInv, NEW p \in Processes, NEW o \in {"closed", "script"},
         opening' = [opening EXCEPT ![p] = o], plan' = [plan EXCEPT ![p] = <<>>],
         todo' = [todo EXCEPT ![p] = {}], scene' = scene, version' = version, columns' = columns,
         rows' = rows, spend' = spend, counted' = counted, overlap' = overlap
  PROVE  OpeningInv'
<1>1. /\ opening'[p] = o /\ plan'[p] = <<>> /\ todo'[p] = {}
      /\ \A q \in Processes \ {p} :
              opening'[q] = opening[q] /\ plan'[q] = plan[q] /\ todo'[q] = todo[q]
      /\ opening' \in [Processes -> {"closed", "script", "version", "migrate", "open"}]
      /\ plan' \in [Processes -> Seq(Statement)] /\ todo' \in [Processes -> SUBSET Nat]
  <2>1. <<>> \in Seq(Statement) /\ {} \in SUBSET Nat
        /\ o \in {"closed", "script", "version", "migrate", "open"}
    OBVIOUS
  <2>. QED
    BY <2>1, OneProcess
<1>2. OpenerOk(p)'
  BY <1>1, LeavesOff
<1>3. PlainStep(p)
  BY <1>1 DEF PlainStep
<1>. QED
  BY <1>2, <1>3, PlainKeeps

\* A statement that raises.
LEMMA RaisesPlainly ==
  ASSUME SoloAssumption, OpeningInv, NEW p \in Processes, Migration!Raises(p), scene' = scene,
         overlap' = overlap
  PROVE  OpeningInv'
BY StopsPlainly DEF Migration!Raises, Migration!fileVars

\* One file is written, by a process of it at most: what is to be said of that file, and of the
\* process, is enough.
LEMMA FileKeeps ==
  ASSUME SoloAssumption, OpeningInv, OpeningTypes', scene' = scene, overlap \subseteq overlap',
         NEW f \in Files, Grows(f), FileOk(f)', AloneAt(f)',
         \A g \in Files \ {f} : /\ version'[g] = version[g] /\ columns'[g] = columns[g]
                                /\ rows'[g] = rows[g] /\ spend'[g] = spend[g]
                                /\ counted'[g] = counted[g],
         \A q \in Processes :
           \/ opening'[q] = opening[q] /\ plan'[q] = plan[q] /\ todo'[q] = todo[q]
           \/ scene.file[q] = f /\ OpenerOk(q)'
  PROVE  OpeningInv'
<1>1. ASSUME NEW g \in Files PROVE FileOk(g)'
  <2>1. CASE g = f
    BY <2>1
  <2>2. CASE g # f
    BY <2>2, SameFile DEF OpeningInv
  <2>. QED
    BY <2>1, <2>2
<1>2. ASSUME NEW g \in Files PROVE AloneAt(g)'
  <2>1. CASE g = f
    BY <2>1
  <2>2. CASE g # f
    <3>1. \A q \in Processes : Migrates(q, g)' => Migrates(q, g) /\ (At(q)' <= 7 <=> At(q) <= 7)
      BY <2>2 DEF Migrates, At
    <3>2. AloneAt(g) /\ version'[g] = version[g] /\ spend'[g] = spend[g]
          /\ Len(rows'[g]) = Len(rows[g])
      BY <2>2 DEF OpeningInv
    <3>. QED
      BY <3>1, <3>2, SameAlone
  <2>. QED
    BY <2>1, <2>2
<1>3. ASSUME NEW q \in Processes PROVE OpenerOk(q)'
  <2>1. CASE OpenerOk(q)'
    BY <2>1
  <2>2. CASE opening'[q] = opening[q] /\ plan'[q] = plan[q] /\ todo'[q] = todo[q]
    <3>. DEFINE g == scene.file[q]
    <3>1. g \in Files /\ OpenerOk(q)
      BY OfProcess
    <3>2. Grows(g)
      <4>1. CASE g = f
        BY <4>1
      <4>2. CASE g # f
        BY <3>1, <4>2 DEF Grows, Nulls
      <4>. QED
        BY <4>1, <4>2
    <3>3. columns'[g] \subseteq Migration!Every
      <4>1. columns'[g] \subseteq Migration!Every'
        BY <3>1 DEF OpeningTypes
      <4>. QED
        BY <4>1 DEF Migration!Every, Migration!ColumnsOf, Migration!New
    <3>. QED
      BY <2>2, <3>1, <3>2, <3>3, OpenerKeeps
  <2>. QED
    BY <2>1, <2>2
<1>. QED
  BY <1>1, <1>2, <1>3 DEF OpeningInv

\* The steps that leave the file alone.
LEMMA PlainSteps ==
  ASSUME SoloAssumption, OpeningInv, NEW p \in Processes,
         \/ Migration!StartOpening(p) \/ Migration!Look(p) \/ Migration!SelectNulls(p)
         \/ Migration!BuildIndex(p) \/ Migration!Stop(p)
  PROVE  OpeningInv'
<1>a. PICK f \in Files : f = scene.file[p] /\ OpenerOk(p) /\ Migration!File(p) = f /\ FileOk(f)
  BY OfProcess
<1>b. plan[p] = <<>> => plan = [plan EXCEPT ![p] = <<>>]
  BY DEF OpeningInv, OpeningTypes
<1>c. todo[p] = {} => todo = [todo EXCEPT ![p] = {}]
  BY DEF OpeningInv, OpeningTypes
<1>d. opening[p] = "migrate" => opening = [opening EXCEPT ![p] = "migrate"]
  BY DEF OpeningInv, OpeningTypes
<1>1. CASE Migration!StartOpening(p)
  <2>1. opening[p] = "closed" /\ plan[p] = <<>> /\ todo[p] = {}
    BY <1>a, <1>1, UpdatingIs DEF Migration!StartOpening, OpenerOk
  <2>2. plan' = [plan EXCEPT ![p] = <<>>] /\ todo' = [todo EXCEPT ![p] = {}]
    BY <1>1, <1>b, <1>c, <2>1 DEF Migration!StartOpening
  <2>3. opening' = [opening EXCEPT ![p] = "script"]
    BY <1>1 DEF Migration!StartOpening
  <2>4. "script" \in {"closed", "script"}
    OBVIOUS
  <2>5. /\ scene' = scene /\ version' = version /\ columns' = columns
        /\ rows' = rows /\ spend' = spend /\ counted' = counted /\ overlap' = overlap
    BY <1>1 DEF Migration!StartOpening, Migration!fileVars
  <2>. QED
    BY <2>2, <2>3, <2>4, <2>5, StopsPlainly
<1>2. CASE Migration!Look(p)
  <2>. DEFINE n == At(p)
              m == IF ColumnAt(n) \in columns[f] THEN n + 2 ELSE n + 1
  <2>1. opening[p] = "migrate" /\ Head(plan[p]).do = "look"
    BY <1>2 DEF Migration!Look, Migration!Is
  <2>2. /\ n \in {1, 4, 8} /\ Head(plan[p]).what = ColumnAt(n) /\ Tail(plan[p]) = From(n + 1)
        /\ todo[p] = {}
    BY <1>a, <2>1, StatementsAre
  <2>3. counted[f] /\ (n <= 3 => scene.version < 2) /\ (n > 2 => "call_uid" \in columns[f])
        /\ (n > 3 => Nulls(f) = {}) /\ (n > 5 => "redacted" \in columns[f])
        /\ (n <= 7 => scene.version # 0 /\ scene.version < 9) /\ scene.version <= 11
    BY <1>a, <2>1 DEF OpenerOk
  <2>4. Tail(Tail(plan[p])) = From(n + 2)
    <3>1. n + 1 \in 1 .. 11 /\ (n + 1) + 1 = n + 2
      BY <2>2
    <3>. QED
      BY <2>2, <3>1, FromIs
  <2>5. plan' = [plan EXCEPT ![p] = From(m)] /\ m \in 1 .. 11
    <3>1. m \in 1 .. 11
      BY <2>2
    <3>2. plan' = [plan EXCEPT ![p] = IF ColumnAt(n) \in columns[f] THEN From(n + 2) ELSE From(n + 1)]
      BY <1>2, <1>a, <2>2, <2>4 DEF Migration!Look
    <3>. QED
      BY <3>1, <3>2
  <2>6. opening' = [opening EXCEPT ![p] = "migrate"] /\ todo' = [todo EXCEPT ![p] = {}]
    BY <1>2, <1>c, <1>d, <2>1, <2>2 DEF Migration!Look
  <2>7. /\ scene' = scene /\ version' = version /\ columns' = columns
        /\ rows' = rows /\ spend' = spend /\ counted' = counted /\ overlap' = overlap
    BY <1>2 DEF Migration!Look, Migration!fileVars
  <2>8. /\ opening'[p] = "migrate" /\ plan'[p] = From(m) /\ todo'[p] = {}
        /\ \A q \in Processes \ {p} :
              opening'[q] = opening[q] /\ plan'[q] = plan[q] /\ todo'[q] = todo[q]
        /\ opening' \in [Processes -> {"closed", "script", "version", "migrate", "open"}]
        /\ plan' \in [Processes -> Seq(Statement)] /\ todo' \in [Processes -> SUBSET Nat]
    <3>1. From(m) \in Seq(Statement) /\ {} \in SUBSET Nat
      BY <2>5, FromIs
    <3>. HIDE DEF m
    <3>. QED
      BY <2>5, <2>6, <3>1, OneProcess
  <2>9. /\ m <= 3 => scene'.version < 2
        /\ m <= 7 => scene'.version # 0 /\ scene'.version < 9
        /\ scene'.version <= 11
        /\ m > 2 => "call_uid" \in columns'[f]
        /\ m > 3 => Nulls(f)' = {}
        /\ m > 5 => "redacted" \in columns'[f]
        /\ m > 9 => "cache_source" \in columns'[f]
        /\ m > 10 => version'[f] = Migration!New
        /\ m <= 7 <=> n <= 7
    <3>1. Nulls(f)' = Nulls(f)
      BY <2>7 DEF Nulls
    <3>. QED
      BY <2>2, <2>3, <2>7, <3>1 DEF ColumnAt
  <2>. HIDE DEF m
  <2>10. f = scene'.file[p] /\ counted'[f]
    BY <1>a, <2>3, <2>7
  <2>11. OpenerOk(p)' /\ At(p)' = m
    BY <2>5, <2>8, <2>9, <2>10, MovesOn
  <2>12. PlainStep(p)
    BY <2>1, <2>7, <2>8, <2>9, <2>11 DEF PlainStep
  <2>. QED
    BY <2>11, <2>12, PlainKeeps
<1>3. CASE Migration!SelectNulls(p)
  <2>. DEFINE t == {id \in DOMAIN rows[f] : rows[f][id].uid = None}
  <2>1. opening[p] = "migrate" /\ Head(plan[p]).do = "select"
    BY <1>3 DEF Migration!SelectNulls, Migration!Is
  <2>2. At(p) = 3 /\ Tail(plan[p]) = From(3 + 1) /\ plan[p] = From(3) /\ counted[f] /\ scene.version < 2
        /\ "call_uid" \in columns[f] /\ scene.version # 0 /\ scene.version \in Nat
    <3>1. At(p) = 3 /\ Tail(plan[p]) = From(3 + 1) /\ plan[p] = From(3)
      BY <1>a, <2>1, StatementsAre
    <3>. QED
      BY <1>a, <2>1, <3>1, SceneIs DEF OpenerOk, OpeningInv, OpeningTypes
  <2>3. plan' = [plan EXCEPT ![p] = Updating]
    <3>1. 3 + 1 = 4
      OBVIOUS
    <3>. QED
      BY <1>3, <2>2, <3>1 DEF Migration!SelectNulls, Updating
  <2>4. opening' = [opening EXCEPT ![p] = "migrate"] /\ todo' = [todo EXCEPT ![p] = t]
    BY <1>3, <1>a, <1>d, <2>1 DEF Migration!SelectNulls
  <2>5. /\ scene' = scene /\ version' = version /\ columns' = columns
        /\ rows' = rows /\ spend' = spend /\ counted' = counted /\ overlap' = overlap
    BY <1>3 DEF Migration!SelectNulls, Migration!fileVars
  <2>6. /\ opening'[p] = "migrate" /\ plan'[p] = Updating /\ todo'[p] = t
        /\ \A q \in Processes \ {p} :
              opening'[q] = opening[q] /\ plan'[q] = plan[q] /\ todo'[q] = todo[q]
        /\ opening' \in [Processes -> {"closed", "script", "version", "migrate", "open"}]
        /\ plan' \in [Processes -> Seq(Statement)] /\ todo' \in [Processes -> SUBSET Nat]
    <3>1. t \in SUBSET Nat
      BY <1>a DEF OpeningInv, OpeningTypes
    <3>2. Updating \in Seq(Statement)
      BY UpdatingIs
    <3>. HIDE DEF t
    <3>. QED
      BY <2>3, <2>4, <3>1, <3>2, OneProcess
  <2>7. At(p)' = 3
    BY <2>6, UpdatingIs DEF At
  <2>8. Nulls(f) \subseteq t /\ \A id \in t : id \in DOMAIN rows[f] /\ rows[f][id].by # "new"
    <3>1. \A id \in DOMAIN rows[f] : RowOk(f, id, rows[f][id]) /\ id \in Nat
      BY <1>a DEF FileOk, OpeningInv, OpeningTypes
    <3>2. \A id \in Nat : None # <<"uid", f, id>>
      <4>1. \A id \in Nat : <<"uid", f, id>> \in Migration!Uids
        BY <1>a DEF Migration!Uids
      <4>. QED
        BY <4>1 DEF SoloAssumption, Migration!OpeningAssumption
    <3>. QED
      BY <3>1, <3>2 DEF RowOk, Nulls
  <2>9. OpenerOk(p)'
    <3>1. Nulls(f)' = Nulls(f) /\ f = scene'.file[p] /\ counted'[f] /\ scene'.version < 2
          /\ "call_uid" \in columns'[f] /\ rows' = rows /\ scene'.version \in Nat /\ scene'.version # 0
      BY <1>a, <2>2, <2>5 DEF Nulls
    <3>2. t \subseteq {id \in DOMAIN rows'[f] : rows'[f][id].by # "new"}
      BY <2>8, <3>1
    <3>3. opening'[p] = "migrate" /\ plan'[p] = Updating /\ todo'[p] = t /\ Nulls(f)' \subseteq t
      BY <2>6, <2>8, <3>1
    <3>. HIDE DEF t
    <3>. QED
      BY <3>1, <3>2, <3>3, GivesUids
  <2>10. PlainStep(p)
    BY <2>1, <2>2, <2>5, <2>6, <2>7 DEF PlainStep
  <2>. QED
    BY <2>9, <2>10, PlainKeeps
<1>4. CASE Migration!BuildIndex(p)
  <2>1. opening[p] = "migrate" /\ Head(plan[p]).do = "index"
    BY <1>4 DEF Migration!BuildIndex, Migration!Is
  <2>2. At(p) = 11 /\ todo[p] = {} /\ counted[f] /\ version[f] = Migration!New
    <3>1. At(p) = 11 /\ todo[p] = {}
      BY <1>a, <2>1, StatementsAre
    <3>. QED
      BY <1>a, <2>1, <3>1 DEF OpenerOk
  <2>3. /\ opening' = [opening EXCEPT ![p] = "open"] /\ plan' = [plan EXCEPT ![p] = <<>>]
        /\ todo' = [todo EXCEPT ![p] = {}]
    BY <1>4, <1>c, <2>2 DEF Migration!BuildIndex
  <2>4. /\ scene' = scene /\ version' = version /\ columns' = columns
        /\ rows' = rows /\ spend' = spend /\ counted' = counted /\ overlap' = overlap
    BY <1>4 DEF Migration!BuildIndex, Migration!fileVars
  <2>5. /\ opening'[p] = "open" /\ plan'[p] = <<>> /\ todo'[p] = {}
        /\ \A q \in Processes \ {p} :
              opening'[q] = opening[q] /\ plan'[q] = plan[q] /\ todo'[q] = todo[q]
        /\ opening' \in [Processes -> {"closed", "script", "version", "migrate", "open"}]
        /\ plan' \in [Processes -> Seq(Statement)] /\ todo' \in [Processes -> SUBSET Nat]
    <3>1. <<>> \in Seq(Statement) /\ {} \in SUBSET Nat
          /\ "open" \in {"closed", "script", "version", "migrate", "open"}
      OBVIOUS
    <3>. QED
      BY <2>3, <3>1, OneProcess
  <2>6. OpenerOk(p)'
    <3>1. f = scene'.file[p] /\ counted'[f] /\ version'[f] = Migration!New
      BY <1>a, <2>2, <2>4
    <3>. QED
      BY <2>5, <3>1, LeavesOff
  <2>7. PlainStep(p)
    BY <2>4, <2>5 DEF PlainStep
  <2>. QED
    BY <2>6, <2>7, PlainKeeps
<1>5. CASE Migration!Stop(p)
  <2>1. "closed" \in {"closed", "script"}
    OBVIOUS
  <2>. QED
    BY <1>5, <2>1, StopsPlainly DEF Migration!Stop, Migration!fileVars
<1>. QED
  BY <1>1, <1>2, <1>3, <1>4, <1>5

\* A file that keeps its rows.
LEMMA RowsStand ==
  ASSUME NEW f, rows'[f] = rows[f]
  PROVE  Nulls(f)' = Nulls(f) /\ Len(rows'[f]) = Len(rows[f]) /\ DOMAIN rows'[f] = DOMAIN rows[f]
BY DEF Nulls

\* The script of a new file makes every column, and of any file the triggers.
LEMMA ScriptStep ==
  ASSUME SoloAssumption, OpeningInv, NEW p \in Processes, Migration!RunScript(p)
  PROVE  OpeningInv'
<1>a. PICK f \in Files : /\ f = scene.file[p] /\ OpenerOk(p) /\ Migration!File(p) = f /\ FileOk(f)
                         /\ AloneAt(f) /\ columns[f] \subseteq Migration!Every
  BY OfProcess
<1>1. /\ opening[p] = "script" /\ opening' = [opening EXCEPT ![p] = "version"]
      /\ counted' = [counted EXCEPT ![f] = TRUE]
      /\ columns' = [columns EXCEPT ![f] = IF version[f] = None THEN Migration!Every ELSE columns[f]]
      /\ scene' = scene /\ version' = version /\ rows' = rows /\ spend' = spend /\ plan' = plan
      /\ todo' = todo /\ overlap' = overlap
  BY <1>a DEF Migration!RunScript
<1>2. plan[p] = <<>> /\ todo[p] = {}
  BY <1>a, <1>1, UpdatingIs DEF OpenerOk
<1>3. OpeningTypes'
  BY <1>a, <1>1 DEF OpeningInv, OpeningTypes, Migration!Every, Migration!ColumnsOf, Migration!New,
    Migration!Uids, Statement
<1>4. /\ counted'[f] /\ columns[f] \subseteq columns'[f]
      /\ version[f] = None => columns'[f] = Migration!Every
      /\ version[f] # None => columns'[f] = columns[f]
      /\ opening'[p] = "version"
      /\ \A g \in Files \ {f} : columns'[g] = columns[g] /\ counted'[g] = counted[g]
      /\ \A q \in Processes \ {p} : opening'[q] = opening[q]
  BY <1>a, <1>1 DEF OpeningInv, OpeningTypes
<1>5. Grows(f)
  BY <1>1, <1>4, RowsStand DEF Grows
<1>6. FileOk(f)'
  <2>1. None # Migration!New
    BY DEF SoloAssumption, Migration!OpeningAssumption, Migration!New
  <2>2. /\ Nulls(f)' = Nulls(f) /\ Migration!New' = Migration!New /\ Migration!Every' = Migration!Every
        /\ InStep(f)' = InStep(f)
        /\ Migration!ColumnsOf(scene.version)' = Migration!ColumnsOf(scene.version)
        /\ \A id, r : RowOk(f, id, r)' <=> RowOk(f, id, r)
    BY <1>1 DEF Nulls, Migration!New, Migration!Every, Migration!ColumnsOf, InStep, RowOk
  <2>. QED
    BY <1>a, <1>1, <1>4, <2>1, <2>2 DEF FileOk
<1>7. AloneAt(f)'
  <2>1. \A q \in Processes : Migrates(q, f)' => Migrates(q, f) /\ (At(q)' <= 7 <=> At(q) <= 7)
    BY <1>1, <1>4 DEF Migrates, At
  <2>2. /\ overlap \subseteq overlap' /\ version'[f] = version[f] /\ spend'[f] = spend[f]
        /\ Len(rows'[f]) = Len(rows[f])
    BY <1>1
  <2>. QED
    BY <1>a, <1>1, <2>1, <2>2, SameAlone
<1>8. OpenerOk(p)'
  <2>1. /\ f = scene'.file[p] /\ plan'[p] = <<>> /\ todo'[p] = {} /\ opening'[p] = "version"
        /\ (version'[f] = None => columns'[f] = Migration!Every) /\ counted'[f]
    BY <1>a, <1>1, <1>2, <1>4
  <2>. QED
    BY <2>1, LeavesOff
<1>9. /\ scene' = scene /\ overlap \subseteq overlap'
      /\ \A g \in Files \ {f} : /\ version'[g] = version[g] /\ columns'[g] = columns[g]
                                /\ rows'[g] = rows[g] /\ spend'[g] = spend[g] /\ counted'[g] = counted[g]
      /\ \A q \in Processes :
           \/ opening'[q] = opening[q] /\ plan'[q] = plan[q] /\ todo'[q] = todo[q]
           \/ scene.file[q] = f /\ OpenerOk(q)'
  BY <1>a, <1>1, <1>4, <1>8
<1>. QED
  BY <1>3, <1>5, <1>6, <1>7, <1>9, FileKeeps

\* The version is read, and with it what is left to do: of an opener alone, the count of the
\* spend is among it if the spend is not the sum of the rows.
LEMMA VersionStep ==
  ASSUME SoloAssumption, OpeningInv, NEW p \in Processes, Migration!ReadVersion(p)
  PROVE  OpeningInv'
<1>a. PICK f \in Files : /\ f = scene.file[p] /\ OpenerOk(p) /\ Migration!File(p) = f /\ FileOk(f)
                         /\ AloneAt(f) /\ columns[f] \subseteq Migration!Every
  BY OfProcess
<1>b. /\ scene.version \in Nat /\ None \notin Nat /\ version[f] \in Nat \cup {None} /\ Migration!New = 11
  BY <1>a, SceneIs DEF OpeningInv, OpeningTypes, Migration!New
<1>. DEFINE v == version[f]
            n == IF v = None THEN 10 ELSE IF v < 2 THEN 1 ELSE IF v < 8 THEN 4 ELSE IF v < 9 THEN 6
                 ELSE IF v < 11 THEN 8 ELSE 11
<1>1. /\ opening[p] = "version"
      /\ scene' = scene /\ version' = version /\ columns' = columns /\ rows' = rows /\ spend' = spend
      /\ counted' = counted /\ todo' = todo
      /\ overlap' = IF \E q \in Migration!Others(p) : opening[q] = "migrate" THEN overlap \cup {f}
                    ELSE overlap
  BY <1>a DEF Migration!ReadVersion, Migration!fileVars
<1>2. plan[p] = <<>> /\ todo[p] = {} /\ counted[f] /\ (v = None => columns[f] = Migration!Every)
  BY <1>a, <1>1, UpdatingIs DEF OpenerOk
<1>3. \/ /\ v # None /\ v > 11 /\ opening' = [opening EXCEPT ![p] = "closed"]
         /\ plan' = [plan EXCEPT ![p] = <<>>]
      \/ /\ v = None \/ v <= 11
         /\ opening' = [opening EXCEPT ![p] = "migrate"] /\ plan' = [plan EXCEPT ![p] = From(n)]
  <2>1. CASE v # None /\ v > 11
    BY <1>a, <1>b, <2>1 DEF Migration!ReadVersion
  <2>2. CASE v = None
    <3>1. <<Migration!Step("record", None), Migration!Step("index", None)>> = From(10)
      BY DEF From, Whole
    <3>2. ~(v # None /\ v > 11)
      BY <2>2
    <3>3. opening' = [opening EXCEPT ![p] = "migrate"]
      BY <1>a, <1>b, <3>2 DEF Migration!ReadVersion
    <3>4. plan' = [plan EXCEPT ![p] = <<Migration!Step("record", None), Migration!Step("index", None)>>]
      BY <1>a, <1>b, <2>2 DEF Migration!ReadVersion
    <3>. QED
      BY <2>2, <3>1, <3>3, <3>4
  <2>3. CASE v # None /\ v <= 11
    <3>1. v \in 0 .. 11 /\ ~(v # None /\ v > 11)
      BY <1>b, <2>3
    <3>2. Migration!Steps(v) = From(n)
      BY <2>3, <3>1, StepsAre
    <3>3. opening' = [opening EXCEPT ![p] = "migrate"]
      BY <1>a, <1>b, <3>1 DEF Migration!ReadVersion
    <3>4. plan' = [plan EXCEPT ![p] = Migration!Steps(v)]
      BY <1>a, <1>b, <2>3, <3>1 DEF Migration!ReadVersion
    <3>. QED
      BY <2>3, <3>2, <3>3, <3>4
  <2>. QED
    BY <1>b, <2>1, <2>2, <2>3
<1>4. n \in 1 .. 11
  BY <1>b
<1>. HIDE DEF n
<1>5. todo' = [todo EXCEPT ![p] = {}]
  BY <1>1, <1>2 DEF OpeningInv, OpeningTypes
<1>6. /\ todo'[p] = {}
      /\ \/ v # None /\ v > 11 /\ opening'[p] = "closed" /\ plan'[p] = <<>>
         \/ (v = None \/ v <= 11) /\ opening'[p] = "migrate" /\ plan'[p] = From(n)
      /\ \A q \in Processes \ {p} :
              opening'[q] = opening[q] /\ plan'[q] = plan[q] /\ todo'[q] = todo[q]
      /\ opening' \in [Processes -> {"closed", "script", "version", "migrate", "open"}]
      /\ plan' \in [Processes -> Seq(Statement)] /\ todo' \in [Processes -> SUBSET Nat]
  <2>1. <<>> \in Seq(Statement) /\ {} \in SUBSET Nat /\ From(n) \in Seq(Statement)
        /\ "closed" \in {"closed", "script", "version", "migrate", "open"}
        /\ "migrate" \in {"closed", "script", "version", "migrate", "open"}
    <3>1. From(n) \in Seq(Statement)
      BY <1>4, FromIs
    <3>. QED
      BY <3>1
  <2>. HIDE DEF v
  <2>2. CASE opening' = [opening EXCEPT ![p] = "closed"] /\ plan' = [plan EXCEPT ![p] = <<>>]
             /\ v # None /\ v > 11
    BY <1>5, <2>1, <2>2, OneProcess
  <2>3. CASE opening' = [opening EXCEPT ![p] = "migrate"] /\ plan' = [plan EXCEPT ![p] = From(n)]
             /\ (v = None \/ v <= 11)
    BY <1>5, <2>1, <2>3, OneProcess
  <2>. QED
    BY <1>3, <2>2, <2>3
<1>7. OpeningTypes'
  BY <1>1, <1>6 DEF OpeningInv, OpeningTypes, Migration!Every, Migration!ColumnsOf, Migration!New,
    Migration!Uids, Statement
<1>8. Nulls(f)' = Nulls(f) /\ Grows(f)
  BY <1>1, RowsStand DEF Grows
<1>9. FileOk(f)'
  BY <1>a, <1>1, SameFile
<1>10. ASSUME opening'[p] = "migrate"
       PROVE  /\ n <= 3 => scene.version < 2
              /\ n > 2 => "call_uid" \in columns[f]
              /\ n > 3 => Nulls(f) = {}
              /\ n > 5 => "redacted" \in columns[f]
              /\ n > 9 => "cache_source" \in columns[f]
              /\ n > 10 => version[f] = Migration!New
              /\ n <= 7 => v # 11 /\ scene.version < 9 /\ scene.version # 0
              /\ n > 7 => v = 11 \/ scene.version = 0 \/ scene.version >= 9
              /\ scene.version <= 11
  <2>1. /\ v = 11 \/ v = IF scene.version = 0 THEN None ELSE scene.version
        /\ Migration!ColumnsOf(scene.version) \subseteq columns[f]
        /\ v = 11 => columns[f] = Migration!Every /\ Nulls(f) = {} /\ scene.version <= 11
        /\ \A id \in DOMAIN rows[f] : RowOk(f, id, rows[f][id])
    BY <1>a, <1>b DEF FileOk
  <2>2. scene.version = 0 \/ scene.version >= 2 => Nulls(f) = {}
    <3>1. \A id \in DOMAIN rows[f] : id \in Nat
      BY <1>a DEF OpeningInv, OpeningTypes
    <3>2. \A id \in Nat : None # <<"uid", f, id>> /\ None # <<"first", id>>
      <4>1. \A id \in Nat : <<"uid", f, id>> \in Migration!Uids /\ <<"first", id>> \in Migration!Uids
        BY <1>a DEF Migration!Uids
      <4>. QED
        BY <4>1 DEF SoloAssumption, Migration!OpeningAssumption
    <3>3. ASSUME scene.version = 0 \/ scene.version >= 2, NEW id \in DOMAIN rows[f],
                 rows[f][id].uid = None
          PROVE  rows[f][id].by = "old"
      <4>1. RowOk(f, id, rows[f][id]) /\ id \in Nat
        BY <2>1, <3>1
      <4>. QED
        BY <1>b, <3>2, <3>3, <4>1 DEF RowOk
    <3>. QED
      BY <3>3 DEF Nulls
  <2>3. v = None \/ v <= 11
    BY <1>6, <1>10
  <2>4. CASE v = 11
    BY <1>b, <2>1, <2>4 DEF n, Migration!Every, Migration!ColumnsOf, Migration!New
  <2>5. CASE scene.version = 0 /\ v = None
    BY <1>b, <1>2, <2>2, <2>5 DEF n, Migration!Every, Migration!ColumnsOf, Migration!New
  <2>6. CASE v # 11 /\ scene.version # 0 /\ v = scene.version
    BY <1>b, <2>1, <2>2, <2>3, <2>6 DEF n, Migration!ColumnsOf
  <2>. QED
    BY <2>1, <2>4, <2>5, <2>6
<1>11. OpenerOk(p)' /\ (opening'[p] = "migrate" => At(p)' = n)
  <2>1. f = scene'.file[p] /\ counted'[f]
    BY <1>a, <1>1, <1>2
  <2>2. CASE opening'[p] = "migrate"
    <3>1. plan'[p] = From(n) /\ todo'[p] = {}
      BY <1>6, <2>2
    <3>2. /\ n <= 3 => scene'.version < 2
          /\ n <= 7 => scene'.version # 0 /\ scene'.version < 9
          /\ scene'.version <= 11
          /\ n > 2 => "call_uid" \in columns'[f]
          /\ n > 3 => Nulls(f)' = {}
          /\ n > 5 => "redacted" \in columns'[f]
          /\ n > 9 => "cache_source" \in columns'[f]
          /\ n > 10 => version'[f] = Migration!New
      BY <1>1, <1>8, <1>10, <2>2
    <3>. QED
      BY <1>4, <2>1, <2>2, <3>1, <3>2, MovesOn
  <2>3. CASE opening'[p] = "closed"
    BY <1>6, <2>1, <2>3, LeavesOff
  <2>. QED
    BY <1>6, <2>2, <2>3
<1>12. AloneAt(f)'
  <2>1. \A q \in Processes \ {p} : /\ Migrates(q, f)' <=> Migrates(q, f)
                                   /\ At(q)' = At(q)
    BY <1>1, <1>6 DEF Migrates, At
  <2>2. overlap \subseteq overlap' /\ InStep(f)' = InStep(f) /\ Migration!New' = 11
    BY <1>1 DEF InStep, Migration!New
  <2>3. CASE opening'[p] = "closed"
    <3>1. \A q \in Processes : Migrates(q, f)' => Migrates(q, f) /\ (At(q)' <= 7 <=> At(q) <= 7)
      BY <2>1, <2>3 DEF Migrates
    <3>2. version'[f] = version[f] /\ spend'[f] = spend[f] /\ Len(rows'[f]) = Len(rows[f])
      BY <1>1
    <3>. QED
      BY <1>a, <1>1, <2>2, <3>1, <3>2, SameAlone
  <2>4. CASE opening'[p] = "migrate"
    <3>1. (\E q \in Processes \ {p} : Migrates(q, f)) => f \in overlap'
      BY <1>a, <1>1 DEF Migrates, Migration!Others, Migration!File
    <3>2. \A q, r \in Processes : q # r /\ Migrates(q, f)' /\ Migrates(r, f)' => f \in overlap'
      BY <2>1, <3>1
    <3>3. ASSUME f \notin overlap'
          PROVE  /\ InStep(f)' \/ /\ version'[f] # 11 /\ scene'.version < 9
                                  /\ \A q \in Processes : Migrates(q, f)' => At(q)' <= 7
                 /\ \A q \in Processes : Migrates(q, f)' /\ At(q)' <= 7 => version'[f] # 11
      <4>1. \A q \in Processes : Migrates(q, f)' => q = p
        BY <2>1, <3>1, <3>3
      <4>2. At(p)' = n /\ n \in Nat
        BY <1>4, <1>11, <2>4
      <4>3. InStep(f) \/ (version[f] # 11 /\ scene.version < 9)
        BY <1>a, <1>b, <2>2, <3>3 DEF AloneAt
      <4>4. scene.version = 0 => InStep(f)
        BY <1>a DEF FileOk
      <4>5. /\ n <= 7 => v # 11 /\ scene.version < 9 /\ scene.version # 0
            /\ n > 7 => v = 11 \/ scene.version = 0 \/ scene.version >= 9
        BY <1>10, <2>4
      <4>6. \A q \in Processes : Migrates(q, f)' => At(q)' = n
        BY <4>1, <4>2
      <4>. QED
        BY <1>1, <1>b, <2>2, <4>2, <4>3, <4>4, <4>5, <4>6
    <3>. QED
      BY <2>2, <3>2, <3>3 DEF AloneAt
  <2>. QED
    BY <1>6, <2>3, <2>4
<1>13. /\ scene' = scene /\ overlap \subseteq overlap'
       /\ \A g \in Files \ {f} : /\ version'[g] = version[g] /\ columns'[g] = columns[g]
                                 /\ rows'[g] = rows[g] /\ spend'[g] = spend[g]
                                 /\ counted'[g] = counted[g]
       /\ \A q \in Processes :
            \/ opening'[q] = opening[q] /\ plan'[q] = plan[q] /\ todo'[q] = todo[q]
            \/ scene.file[q] = f /\ OpenerOk(q)'
  BY <1>a, <1>1, <1>6, <1>11
<1>. QED
  BY <1>7, <1>8, <1>9, <1>12, <1>13, FileKeeps

\* What an opener's statement may rely on.
LEMMA PlaceIs ==
  ASSUME NEW p, OpenerOk(p), opening[p] = "migrate", NEW f, f = scene.file[p], NEW n, n = At(p)
  PROVE  /\ counted[f] /\ n \in 1 .. 11
         /\ n <= 3 => scene.version < 2
         /\ n <= 7 => scene.version # 0 /\ scene.version < 9
         /\ scene.version <= 11
         /\ n > 2 => "call_uid" \in columns[f]
         /\ n > 3 => Nulls(f) = {}
         /\ n > 5 => "redacted" \in columns[f]
         /\ n > 9 => "cache_source" \in columns[f]
         /\ n > 10 => version[f] = Migration!New
BY DEF OpenerOk

LEMMA EveryIs ==
  /\ Migration!Every = {"call_uid", "redacted", "cache_source"}
  /\ \A n : ColumnAt(n) \in Migration!Every
BY DEF Migration!Every, Migration!ColumnsOf, Migration!New, ColumnAt

\* A statement that ran, of the process p on the file f: p is at the next.
Ticks(p, f, n) ==
  /\ opening[p] = "migrate" /\ opening' = opening /\ At(p) = n /\ todo[p] = {} /\ todo' = todo
  /\ plan' = [plan EXCEPT ![p] = From(n + 1)] /\ scene' = scene /\ overlap' = overlap
  /\ f = scene.file[p]

LEMMA TicksOn ==
  ASSUME OpeningInv, NEW p \in Processes, NEW f, NEW n \in 1 .. 10, Ticks(p, f, n)
  PROVE  /\ opening'[p] = "migrate" /\ plan'[p] = From(n + 1) /\ todo'[p] = {} /\ f = scene'.file[p]
         /\ \A q \in Processes \ {p} :
              opening'[q] = opening[q] /\ plan'[q] = plan[q] /\ todo'[q] = todo[q]
         /\ opening' \in [Processes -> {"closed", "script", "version", "migrate", "open"}]
         /\ plan' \in [Processes -> Seq(Statement)] /\ todo' \in [Processes -> SUBSET Nat]
         /\ At(p)' = n + 1
         /\ \A q \in Processes : Migrates(q, f)' <=> Migrates(q, f)
         /\ \A q \in Processes \ {p} : At(q)' = At(q)
<1>1. n + 1 \in 1 .. 11 /\ 12 - (n + 1) = 11 - n
  OBVIOUS
<1>2. From(n + 1) \in Seq(Statement) /\ Len(From(n + 1)) = 11 - n
  BY <1>1, FromIs
<1>3. plan'[p] = From(n + 1) /\ plan' \in [Processes -> Seq(Statement)]
      /\ \A q \in Processes \ {p} : plan'[q] = plan[q]
  BY <1>2 DEF Ticks, OpeningInv, OpeningTypes
<1>4. At(p)' = n + 1
  BY <1>2, <1>3 DEF At
<1>. QED
  BY <1>3, <1>4 DEF Ticks, OpeningInv, OpeningTypes, Migrates, At

\* A column that is missing is added.
LEMMA AddStep ==
  ASSUME SoloAssumption, OpeningInv, NEW p \in Processes, Migration!AddColumn(p)
  PROVE  OpeningInv'
<1>a. PICK f \in Files : /\ f = scene.file[p] /\ OpenerOk(p) /\ Migration!File(p) = f /\ FileOk(f)
                         /\ AloneAt(f) /\ columns[f] \subseteq Migration!Every
  BY OfProcess
<1>1. opening[p] = "migrate" /\ Head(plan[p]).do = "add" /\ scene' = scene /\ overlap' = overlap
  BY DEF Migration!AddColumn, Migration!Is
<1>2. PICK n \in {2, 5, 9} : /\ n = At(p) /\ Head(plan[p]).what = ColumnAt(n)
                             /\ Tail(plan[p]) = From(n + 1) /\ todo[p] = {}
  BY <1>a, <1>1, StatementsAre
<1>3. /\ counted[f] /\ n \in 1 .. 10
      /\ n <= 3 => scene.version < 2
      /\ n <= 7 => scene.version # 0 /\ scene.version < 9
      /\ scene.version <= 11
      /\ n > 2 => "call_uid" \in columns[f]
      /\ n > 3 => Nulls(f) = {}
      /\ n > 5 => "redacted" \in columns[f]
  BY <1>a, <1>1, <1>2, PlaceIs
<1>4. CASE Migration!Raises(p)
  BY <1>1, <1>4, RaisesPlainly
<1>5. CASE ~Migration!Raises(p)
  <2>. DEFINE c == ColumnAt(n)
  <2>1. /\ c \notin columns[f] /\ columns' = [columns EXCEPT ![f] = columns[f] \cup {c}]
        /\ Migration!Ran(p) /\ version' = version /\ rows' = rows /\ spend' = spend /\ counted' = counted
    BY <1>a, <1>2, <1>5 DEF Migration!AddColumn
  <2>2. Ticks(p, f, n)
    BY <1>a, <1>1, <1>2, <2>1 DEF Migration!Ran, Ticks
  <2>3. /\ columns'[f] = columns[f] \cup {c} /\ c \in Migration!Every
        /\ \A g \in Files \ {f} : columns'[g] = columns[g]
        /\ columns' \in [Files -> SUBSET Migration!Every]
    BY <1>a, <2>1, EveryIs DEF OpeningInv, OpeningTypes
  <2>. HIDE DEF c
  <2>4. /\ opening'[p] = "migrate" /\ plan'[p] = From(n + 1) /\ todo'[p] = {} /\ f = scene'.file[p]
        /\ \A q \in Processes \ {p} :
              opening'[q] = opening[q] /\ plan'[q] = plan[q] /\ todo'[q] = todo[q]
        /\ opening' \in [Processes -> {"closed", "script", "version", "migrate", "open"}]
        /\ plan' \in [Processes -> Seq(Statement)] /\ todo' \in [Processes -> SUBSET Nat]
        /\ At(p)' = n + 1
        /\ \A q \in Processes : Migrates(q, f)' <=> Migrates(q, f)
        /\ \A q \in Processes \ {p} : At(q)' = At(q)
    BY <1>3, <2>2, TicksOn
  <2>5. Migration!Every' = Migration!Every /\ Migration!Uids' = Migration!Uids /\ Statement' = Statement
    BY DEF Migration!Every, Migration!ColumnsOf, Migration!New, Migration!Uids, Statement
  <2>6. OpeningTypes'
    BY <1>1, <2>1, <2>3, <2>4, <2>5 DEF OpeningInv, OpeningTypes
  <2>7. Grows(f)
    BY <2>1, <2>3, RowsStand DEF Grows
  <2>8. Nulls(f)' = Nulls(f) /\ InStep(f)' = InStep(f) /\ version[f] # Migration!New
    <3>1. version[f] # Migration!New
      BY <1>a, <2>1, <2>3 DEF FileOk
    <3>. QED
      BY <2>1, <3>1 DEF Nulls, InStep
  <2>9. FileOk(f)'
    <3>1. /\ Migration!New' = Migration!New
          /\ Migration!ColumnsOf(scene.version)' = Migration!ColumnsOf(scene.version)
          /\ \A id, r : RowOk(f, id, r)' <=> RowOk(f, id, r)
      BY <1>1 DEF Migration!New, Migration!ColumnsOf, RowOk
    <3>. QED
      BY <1>a, <1>1, <2>1, <2>3, <2>8, <3>1 DEF FileOk
  <2>10. AloneAt(f)'
    <3>1. \A q \in Processes : Migrates(q, f)' => Migrates(q, f) /\ (At(q)' <= 7 <=> At(q) <= 7)
      BY <1>2, <2>4
    <3>2. /\ overlap \subseteq overlap' /\ version'[f] = version[f] /\ spend'[f] = spend[f]
          /\ Len(rows'[f]) = Len(rows[f])
      BY <1>1, <2>1
    <3>. QED
      BY <1>a, <1>1, <3>1, <3>2, SameAlone
  <2>11. OpenerOk(p)'
    <3>. DEFINE m == n + 1
    <3>1. /\ m \in 1 .. 11 /\ counted'[f]
          /\ m <= 3 => scene'.version < 2
          /\ m <= 7 => scene'.version # 0 /\ scene'.version < 9
          /\ scene'.version <= 11
          /\ m > 2 => "call_uid" \in columns'[f]
          /\ m > 3 => Nulls(f)' = {}
          /\ m > 5 => "redacted" \in columns'[f]
          /\ m > 9 => "cache_source" \in columns'[f]
          /\ m > 10 => version'[f] = Migration!New
      BY <1>1, <1>2, <1>3, <2>1, <2>3, <2>8 DEF c, ColumnAt
    <3>2. plan'[p] = From(m)
      BY <2>4
    <3>. HIDE DEF m
    <3>. QED
      BY <2>4, <3>1, <3>2, MovesOn
  <2>12. /\ scene' = scene /\ overlap \subseteq overlap'
         /\ \A g \in Files \ {f} : /\ version'[g] = version[g] /\ columns'[g] = columns[g]
                                   /\ rows'[g] = rows[g] /\ spend'[g] = spend[g]
                                   /\ counted'[g] = counted[g]
         /\ \A q \in Processes :
              \/ opening'[q] = opening[q] /\ plan'[q] = plan[q] /\ todo'[q] = todo[q]
              \/ scene.file[q] = f /\ OpenerOk(q)'
    BY <1>a, <1>1, <2>1, <2>3, <2>4, <2>11
  <2>. QED
    BY <2>6, <2>7, <2>9, <2>10, <2>12, FileKeeps
<1>. QED
  BY <1>4, <1>5

\* The spend is forgotten, to be counted again: the opener alone is still to do that.
LEMMA ClearStep ==
  ASSUME SoloAssumption, OpeningInv, NEW p \in Processes, Migration!Clear(p)
  PROVE  OpeningInv'
<1>a. PICK f \in Files : /\ f = scene.file[p] /\ OpenerOk(p) /\ Migration!File(p) = f /\ FileOk(f)
                         /\ AloneAt(f) /\ columns[f] \subseteq Migration!Every
  BY OfProcess
<1>1. opening[p] = "migrate" /\ Head(plan[p]).do = "clear" /\ scene' = scene /\ overlap' = overlap
  BY DEF Migration!Clear, Migration!Is
<1>2. PICK n \in {6} : n = At(p) /\ Tail(plan[p]) = From(n + 1) /\ todo[p] = {}
  BY <1>a, <1>1, StatementsAre
<1>3. /\ counted[f] /\ n \in 1 .. 10 /\ scene.version # 0 /\ scene.version < 9 /\ scene.version <= 11
      /\ "call_uid" \in columns[f] /\ Nulls(f) = {} /\ "redacted" \in columns[f]
  <2>1. n > 5 /\ n <= 7 /\ n > 2 /\ n > 3 /\ n \in 1 .. 10
    OBVIOUS
  <2>2. /\ counted[f] /\ n \in 1 .. 11
        /\ n <= 3 => scene.version < 2
        /\ n <= 7 => scene.version # 0 /\ scene.version < 9
        /\ scene.version <= 11
        /\ n > 2 => "call_uid" \in columns[f]
        /\ n > 3 => Nulls(f) = {}
        /\ n > 5 => "redacted" \in columns[f]
        /\ n > 9 => "cache_source" \in columns[f]
        /\ n > 10 => version[f] = Migration!New
    BY <1>a, <1>1, <1>2, PlaceIs
  <2>. QED
    BY <2>1, <2>2
<1>4. OpeningInv'
  <2>1. /\ spend' = [spend EXCEPT ![f] = None]
        /\ Migration!Ran(p) /\ version' = version /\ rows' = rows /\ columns' = columns
        /\ counted' = counted
    BY <1>a DEF Migration!Clear
  <2>2. Ticks(p, f, n)
    BY <1>a, <1>1, <1>2, <2>1 DEF Migration!Ran, Ticks
  <2>3. /\ spend'[f] = None /\ \A g \in Files \ {f} : spend'[g] = spend[g]
        /\ spend' \in [Files -> Nat \cup {None}]
    BY <1>a, <2>1 DEF OpeningInv, OpeningTypes
  <2>4. /\ opening'[p] = "migrate" /\ plan'[p] = From(n + 1) /\ todo'[p] = {} /\ f = scene'.file[p]
        /\ \A q \in Processes \ {p} :
              opening'[q] = opening[q] /\ plan'[q] = plan[q] /\ todo'[q] = todo[q]
        /\ opening' \in [Processes -> {"closed", "script", "version", "migrate", "open"}]
        /\ plan' \in [Processes -> Seq(Statement)] /\ todo' \in [Processes -> SUBSET Nat]
        /\ At(p)' = n + 1
        /\ \A q \in Processes : Migrates(q, f)' <=> Migrates(q, f)
        /\ \A q \in Processes \ {p} : At(q)' = At(q)
    BY <1>3, <2>2, TicksOn
  <2>5. Migration!Every' = Migration!Every /\ Migration!Uids' = Migration!Uids /\ Statement' = Statement
    BY DEF Migration!Every, Migration!ColumnsOf, Migration!New, Migration!Uids, Statement
  <2>6. OpeningTypes'
    BY <1>1, <2>1, <2>3, <2>4, <2>5 DEF OpeningInv, OpeningTypes
  <2>7. Grows(f)
    BY <2>1, <2>3, RowsStand DEF Grows
  <2>8. Nulls(f)' = Nulls(f)
    BY <2>1 DEF Nulls
  <2>9. FileOk(f)'
    <3>1. /\ Migration!New' = Migration!New /\ Migration!Every' = Migration!Every
          /\ Migration!ColumnsOf(scene.version)' = Migration!ColumnsOf(scene.version)
          /\ \A id, r : RowOk(f, id, r)' <=> RowOk(f, id, r)
      BY <1>1 DEF Migration!Every, Migration!New, Migration!ColumnsOf, RowOk
    <3>. QED
      BY <1>a, <1>1, <1>2, <1>3, <2>1, <2>3, <2>8, <3>1 DEF FileOk
  <2>10. AloneAt(f)'
    <3>1. /\ \A q, r \in Processes : q # r /\ Migrates(q, f) /\ Migrates(r, f) => f \in overlap
          /\ \A q \in Processes : f \notin overlap /\ Migrates(q, f) /\ At(q) <= 7
                                     => version[f] # Migration!New
      BY <1>a DEF AloneAt
    <3>2. Migrates(p, f) /\ At(p) <= 7
      BY <1>a, <1>1, <1>2 DEF Migrates
    <3>3. ASSUME f \notin overlap
          PROVE  /\ version[f] # Migration!New
                 /\ \A q \in Processes : Migrates(q, f) => q = p
      BY <3>1, <3>2, <3>3
    <3>4. Migration!New' = Migration!New /\ At(p)' <= 7
      BY <2>4 DEF Migration!New
    <3>. QED
      BY <1>1, <1>3, <2>1, <2>4, <3>1, <3>3, <3>4 DEF AloneAt
  <2>11. OpenerOk(p)'
    <3>. DEFINE m == n + 1
    <3>1. /\ m \in 1 .. 11 /\ counted'[f]
          /\ m <= 3 => scene'.version < 2
          /\ m <= 7 => scene'.version # 0 /\ scene'.version < 9
          /\ scene'.version <= 11
          /\ m > 2 => "call_uid" \in columns'[f]
          /\ m > 3 => Nulls(f)' = {}
          /\ m > 5 => "redacted" \in columns'[f]
          /\ m > 9 => "cache_source" \in columns'[f]
          /\ m > 10 => version'[f] = Migration!New
      BY <1>1, <1>2, <1>3, <2>1, <2>3, <2>8
    <3>2. plan'[p] = From(m)
      BY <2>4
    <3>. HIDE DEF m
    <3>. QED
      BY <2>4, <3>1, <3>2, MovesOn
  <2>12. /\ scene' = scene /\ overlap \subseteq overlap'
         /\ \A g \in Files \ {f} : /\ version'[g] = version[g] /\ columns'[g] = columns[g]
                                   /\ rows'[g] = rows[g] /\ spend'[g] = spend[g]
                                   /\ counted'[g] = counted[g]
         /\ \A q \in Processes :
              \/ opening'[q] = opening[q] /\ plan'[q] = plan[q] /\ todo'[q] = todo[q]
              \/ scene.file[q] = f /\ OpenerOk(q)'
    BY <1>a, <1>1, <2>1, <2>3, <2>4, <2>11
  <2>. QED
    BY <2>6, <2>7, <2>9, <2>10, <2>12, FileKeeps
<1>. QED
  BY <1>4

\* The spend is counted from the rows, which are some.
LEMMA RefillStep ==
  ASSUME SoloAssumption, OpeningInv, NEW p \in Processes, Migration!Refill(p)
  PROVE  OpeningInv'
<1>a. PICK f \in Files : /\ f = scene.file[p] /\ OpenerOk(p) /\ Migration!File(p) = f /\ FileOk(f)
                         /\ AloneAt(f) /\ columns[f] \subseteq Migration!Every
  BY OfProcess
<1>1. opening[p] = "migrate" /\ Head(plan[p]).do = "refill" /\ scene' = scene /\ overlap' = overlap
  BY DEF Migration!Refill, Migration!Is
<1>2. PICK n \in {7} : n = At(p) /\ Tail(plan[p]) = From(n + 1) /\ todo[p] = {}
  BY <1>a, <1>1, StatementsAre
<1>3. /\ counted[f] /\ n \in 1 .. 10 /\ scene.version # 0 /\ scene.version < 9 /\ scene.version <= 11
      /\ "call_uid" \in columns[f] /\ Nulls(f) = {} /\ "redacted" \in columns[f]
  <2>1. n > 5 /\ n <= 7 /\ n > 2 /\ n > 3 /\ n \in 1 .. 10
    OBVIOUS
  <2>2. /\ counted[f] /\ n \in 1 .. 11
        /\ n <= 3 => scene.version < 2
        /\ n <= 7 => scene.version # 0 /\ scene.version < 9
        /\ scene.version <= 11
        /\ n > 2 => "call_uid" \in columns[f]
        /\ n > 3 => Nulls(f) = {}
        /\ n > 5 => "redacted" \in columns[f]
        /\ n > 9 => "cache_source" \in columns[f]
        /\ n > 10 => version[f] = Migration!New
    BY <1>a, <1>1, <1>2, PlaceIs
  <2>. QED
    BY <2>1, <2>2
<1>4. CASE Migration!Raises(p)
  BY <1>1, <1>4, RaisesPlainly
<1>5. CASE ~Migration!Raises(p)
  <2>a. Len(rows[f]) \in Nat /\ Len(rows[f]) >= 2 /\ Migration!Costed(f) = Len(rows[f])
    BY <1>a, <1>3 DEF FileOk, OpeningInv, OpeningTypes, Migration!Costed
  <2>1. /\ spend' = [spend EXCEPT ![f] = Len(rows[f])]
        /\ Migration!Ran(p) /\ version' = version /\ rows' = rows /\ columns' = columns
        /\ counted' = counted
    BY <1>a, <1>5, <2>a DEF Migration!Refill
  <2>2. Ticks(p, f, n)
    BY <1>a, <1>1, <1>2, <2>1 DEF Migration!Ran, Ticks
  <2>3. /\ spend'[f] = Len(rows[f]) /\ \A g \in Files \ {f} : spend'[g] = spend[g]
        /\ spend' \in [Files -> Nat \cup {None}]
    BY <1>a, <2>a, <2>1 DEF OpeningInv, OpeningTypes
  <2>4. /\ opening'[p] = "migrate" /\ plan'[p] = From(n + 1) /\ todo'[p] = {} /\ f = scene'.file[p]
        /\ \A q \in Processes \ {p} :
              opening'[q] = opening[q] /\ plan'[q] = plan[q] /\ todo'[q] = todo[q]
        /\ opening' \in [Processes -> {"closed", "script", "version", "migrate", "open"}]
        /\ plan' \in [Processes -> Seq(Statement)] /\ todo' \in [Processes -> SUBSET Nat]
        /\ At(p)' = n + 1
        /\ \A q \in Processes : Migrates(q, f)' <=> Migrates(q, f)
        /\ \A q \in Processes \ {p} : At(q)' = At(q)
    BY <1>3, <2>2, TicksOn
  <2>5. Migration!Every' = Migration!Every /\ Migration!Uids' = Migration!Uids /\ Statement' = Statement
    BY DEF Migration!Every, Migration!ColumnsOf, Migration!New, Migration!Uids, Statement
  <2>6. OpeningTypes'
    BY <1>1, <2>1, <2>3, <2>4, <2>5 DEF OpeningInv, OpeningTypes
  <2>7. Grows(f)
    BY <2>1, <2>3, RowsStand DEF Grows
  <2>8. Nulls(f)' = Nulls(f) /\ InStep(f)'
    <3>1. None \notin Nat
      BY SceneIs DEF OpeningInv, OpeningTypes
    <3>. QED
      BY <2>a, <2>1, <2>3, <3>1 DEF Nulls, InStep
  <2>9. FileOk(f)'
    <3>1. /\ Migration!New' = Migration!New /\ Migration!Every' = Migration!Every
          /\ Migration!ColumnsOf(scene.version)' = Migration!ColumnsOf(scene.version)
          /\ \A id, r : RowOk(f, id, r)' <=> RowOk(f, id, r)
      BY <1>1 DEF Migration!Every, Migration!New, Migration!ColumnsOf, RowOk
    <3>. QED
      BY <1>a, <1>1, <1>2, <1>3, <2>1, <2>3, <2>8, <3>1 DEF FileOk
  <2>10. AloneAt(f)'
    <3>1. /\ \A q, r \in Processes : q # r /\ Migrates(q, f) /\ Migrates(r, f) => f \in overlap
      BY <1>a DEF AloneAt
    <3>2. Migrates(p, f)
      BY <1>a, <1>1 DEF Migrates
    <3>3. ASSUME f \notin overlap
          PROVE  \A q \in Processes : Migrates(q, f) => q = p
      BY <3>1, <3>2, <3>3
    <3>4. ~(At(p)' <= 7)
      BY <2>4
    <3>. QED
      BY <1>1, <2>4, <2>8, <3>1, <3>3, <3>4 DEF AloneAt
  <2>11. OpenerOk(p)'
    <3>. DEFINE m == n + 1
    <3>1. /\ m \in 1 .. 11 /\ counted'[f]
          /\ m <= 3 => scene'.version < 2
          /\ m <= 7 => scene'.version # 0 /\ scene'.version < 9
          /\ scene'.version <= 11
          /\ m > 2 => "call_uid" \in columns'[f]
          /\ m > 3 => Nulls(f)' = {}
          /\ m > 5 => "redacted" \in columns'[f]
          /\ m > 9 => "cache_source" \in columns'[f]
          /\ m > 10 => version'[f] = Migration!New
      BY <1>1, <1>2, <1>3, <2>1, <2>3, <2>8
    <3>2. plan'[p] = From(m)
      BY <2>4
    <3>. HIDE DEF m
    <3>. QED
      BY <2>4, <3>1, <3>2, MovesOn
  <2>12. /\ scene' = scene /\ overlap \subseteq overlap'
         /\ \A g \in Files \ {f} : /\ version'[g] = version[g] /\ columns'[g] = columns[g]
                                   /\ rows'[g] = rows[g] /\ spend'[g] = spend[g]
                                   /\ counted'[g] = counted[g]
         /\ \A q \in Processes :
              \/ opening'[q] = opening[q] /\ plan'[q] = plan[q] /\ todo'[q] = todo[q]
              \/ scene.file[q] = f /\ OpenerOk(q)'
    BY <1>a, <1>1, <2>1, <2>3, <2>4, <2>11
  <2>. QED
    BY <2>6, <2>7, <2>9, <2>10, <2>12, FileKeeps
<1>. QED
  BY <1>4, <1>5

\* The version is recorded, of a file that has all that the version promises.
LEMMA RecordStep ==
  ASSUME SoloAssumption, OpeningInv, NEW p \in Processes, Migration!RecordVersion(p)
  PROVE  OpeningInv'
<1>a. PICK f \in Files : /\ f = scene.file[p] /\ OpenerOk(p) /\ Migration!File(p) = f /\ FileOk(f)
                         /\ AloneAt(f) /\ columns[f] \subseteq Migration!Every
  BY OfProcess
<1>1. opening[p] = "migrate" /\ Head(plan[p]).do = "record" /\ scene' = scene /\ overlap' = overlap
  BY DEF Migration!RecordVersion, Migration!Is
<1>2. PICK n \in {10} : n = At(p) /\ Tail(plan[p]) = From(n + 1) /\ todo[p] = {}
  BY <1>a, <1>1, StatementsAre
<1>3. /\ counted[f] /\ n \in 1 .. 10 /\ scene.version <= 11
      /\ "call_uid" \in columns[f] /\ Nulls(f) = {} /\ "redacted" \in columns[f]
      /\ "cache_source" \in columns[f]
  <2>1. n > 5 /\ n > 9 /\ n > 2 /\ n > 3 /\ n \in 1 .. 10
    OBVIOUS
  <2>2. /\ counted[f] /\ n \in 1 .. 11
        /\ n <= 3 => scene.version < 2
        /\ n <= 7 => scene.version # 0 /\ scene.version < 9
        /\ scene.version <= 11
        /\ n > 2 => "call_uid" \in columns[f]
        /\ n > 3 => Nulls(f) = {}
        /\ n > 5 => "redacted" \in columns[f]
        /\ n > 9 => "cache_source" \in columns[f]
        /\ n > 10 => version[f] = Migration!New
    BY <1>a, <1>1, <1>2, PlaceIs
  <2>. QED
    BY <2>1, <2>2
<1>4. OpeningInv'
  <2>a. version[f] \in Nat \cup {None} /\ (version[f] = None \/ version[f] <= 11) /\ Migration!New = 11
    <3>1. scene.version \in Nat /\ None \notin Nat
      BY SceneIs DEF OpeningInv, OpeningTypes
    <3>. QED
      BY <1>a, <1>3, <3>1 DEF FileOk, OpeningInv, OpeningTypes, Migration!New
  <2>b. columns[f] = Migration!Every
    BY <1>a, <1>3, EveryIs
  <2>1. /\ version' = [version EXCEPT ![f] = 11]
        /\ Migration!Ran(p) /\ spend' = spend /\ rows' = rows /\ columns' = columns /\ counted' = counted
    <3>1. version' = [version EXCEPT ![f] = IF version[f] = None \/ version[f] < 11 THEN 11
                                            ELSE version[f]]
      BY <1>a, <2>a DEF Migration!RecordVersion
    <3>2. (IF version[f] = None \/ version[f] < 11 THEN 11 ELSE version[f]) = 11
      BY <2>a
    <3>. QED
      BY <3>1, <3>2 DEF Migration!RecordVersion
  <2>2. Ticks(p, f, n)
    BY <1>a, <1>1, <1>2, <2>1 DEF Migration!Ran, Ticks
  <2>3. /\ version'[f] = Migration!New /\ \A g \in Files \ {f} : version'[g] = version[g]
        /\ version' \in [Files -> Nat \cup {None}]
    BY <1>a, <2>a, <2>1 DEF OpeningInv, OpeningTypes
  <2>4. /\ opening'[p] = "migrate" /\ plan'[p] = From(n + 1) /\ todo'[p] = {} /\ f = scene'.file[p]
        /\ \A q \in Processes \ {p} :
              opening'[q] = opening[q] /\ plan'[q] = plan[q] /\ todo'[q] = todo[q]
        /\ opening' \in [Processes -> {"closed", "script", "version", "migrate", "open"}]
        /\ plan' \in [Processes -> Seq(Statement)] /\ todo' \in [Processes -> SUBSET Nat]
        /\ At(p)' = n + 1
        /\ \A q \in Processes : Migrates(q, f)' <=> Migrates(q, f)
        /\ \A q \in Processes \ {p} : At(q)' = At(q)
    BY <1>3, <2>2, TicksOn
  <2>5. Migration!Every' = Migration!Every /\ Migration!Uids' = Migration!Uids /\ Statement' = Statement
    BY DEF Migration!Every, Migration!ColumnsOf, Migration!New, Migration!Uids, Statement
  <2>6. OpeningTypes'
    BY <1>1, <2>1, <2>3, <2>4, <2>5 DEF OpeningInv, OpeningTypes
  <2>7. Grows(f)
    BY <2>1, <2>3, RowsStand DEF Grows
  <2>8. Nulls(f)' = Nulls(f) /\ InStep(f)' = InStep(f) /\ Migration!New' = Migration!New
    BY <2>1 DEF Nulls, InStep, Migration!New
  <2>9. FileOk(f)'
    <3>1. /\ Migration!New' = Migration!New /\ Migration!Every' = Migration!Every
          /\ Migration!ColumnsOf(scene.version)' = Migration!ColumnsOf(scene.version)
          /\ \A id, r : RowOk(f, id, r)' <=> RowOk(f, id, r)
      BY <1>1 DEF Migration!Every, Migration!New, Migration!ColumnsOf, RowOk
    <3>. QED
      BY <1>a, <1>1, <1>2, <1>3, <2>1, <2>3, <2>8, <3>1, <2>b DEF FileOk
  <2>10. AloneAt(f)'
    <3>1. /\ \A q, r \in Processes : q # r /\ Migrates(q, f) /\ Migrates(r, f) => f \in overlap
          /\ f \notin overlap => InStep(f) \/ (\A q \in Processes : Migrates(q, f) => At(q) <= 7)
      BY <1>a DEF AloneAt
    <3>2. Migrates(p, f) /\ ~(At(p) <= 7)
      BY <1>a, <1>1, <1>2 DEF Migrates
    <3>3. ASSUME f \notin overlap
          PROVE  /\ \A q \in Processes : Migrates(q, f) => q = p
                 /\ InStep(f)
      BY <3>1, <3>2, <3>3
    <3>4. ~(At(p)' <= 7)
      BY <2>4
    <3>. QED
      BY <1>1, <2>4, <2>8, <3>1, <3>3, <3>4 DEF AloneAt
  <2>11. OpenerOk(p)'
    <3>. DEFINE m == n + 1
    <3>1. /\ m \in 1 .. 11 /\ counted'[f]
          /\ m <= 3 => scene'.version < 2
          /\ m <= 7 => scene'.version # 0 /\ scene'.version < 9
          /\ scene'.version <= 11
          /\ m > 2 => "call_uid" \in columns'[f]
          /\ m > 3 => Nulls(f)' = {}
          /\ m > 5 => "redacted" \in columns'[f]
          /\ m > 9 => "cache_source" \in columns'[f]
          /\ m > 10 => version'[f] = Migration!New
      BY <1>1, <1>2, <1>3, <2>1, <2>3, <2>8
    <3>2. plan'[p] = From(m)
      BY <2>4
    <3>. HIDE DEF m
    <3>. QED
      BY <2>4, <3>1, <3>2, MovesOn
  <2>12. /\ scene' = scene /\ overlap \subseteq overlap'
         /\ \A g \in Files \ {f} : /\ version'[g] = version[g] /\ columns'[g] = columns[g]
                                   /\ rows'[g] = rows[g] /\ spend'[g] = spend[g]
                                   /\ counted'[g] = counted[g]
         /\ \A q \in Processes :
              \/ opening'[q] = opening[q] /\ plan'[q] = plan[q] /\ todo'[q] = todo[q]
              \/ scene.file[q] = f /\ OpenerOk(q)'
    BY <1>a, <1>1, <2>1, <2>3, <2>4, <2>11
  <2>. QED
    BY <2>6, <2>7, <2>9, <2>10, <2>12, FileKeeps
<1>. QED
  BY <1>4

\* What a row may say of itself.
Row == [what : {"call"} \cup ({"old"} \X Files), uid : Migration!Uids \cup {None},
        by : {"before", "old", "new"}]

\* One row of a file is given a uid.
LEMMA GivenUid ==
  ASSUME NEW f \in Files, rows \in [Files -> Seq(Row)], NEW id \in DOMAIN rows[f],
         NEW u \in Migration!Uids,
         rows' = [rows EXCEPT ![f][id].uid = u]
  PROVE  /\ rows' \in [Files -> Seq(Row)] /\ Len(rows'[f]) = Len(rows[f])
         /\ DOMAIN rows'[f] = DOMAIN rows[f]
         /\ \A g \in Files \ {f} : rows'[g] = rows[g]
         /\ \A i \in DOMAIN rows[f] \ {id} : rows'[f][i] = rows[f][i]
         /\ rows'[f][id].what = rows[f][id].what /\ rows'[f][id].by = rows[f][id].by
         /\ rows'[f][id].uid = u
<1>1. \A r \in Row : /\ [r EXCEPT !.uid = u] \in Row /\ [r EXCEPT !.uid = u].uid = u
                     /\ [r EXCEPT !.uid = u].what = r.what /\ [r EXCEPT !.uid = u].by = r.by
  BY DEF Row
<1>. DEFINE s == rows[f]
            r == [s[id] EXCEPT !.uid = u]
            t == [s EXCEPT ![id] = r]
<1>2. s \in Seq(Row) /\ id \in 1 .. Len(s) /\ s[id] \in Row
  <2>1. s \in Seq(Row)
    OBVIOUS
  <2>. HIDE DEF Row
  <2>. QED
    BY <2>1
<1>3. r \in Row /\ r.uid = u /\ r.what = s[id].what /\ r.by = s[id].by
  <2>. HIDE DEF s, Row
  <2>. QED
    BY <1>1, <1>2
<1>4. rows' = [rows EXCEPT ![f] = t]
  OBVIOUS
<1>. HIDE DEF r, s, Row
<1>5. t \in Seq(Row) /\ Len(t) = Len(s) /\ t[id] = r /\ (\A i \in DOMAIN s \ {id} : t[i] = s[i])
      /\ DOMAIN t = DOMAIN s
  BY <1>2, <1>3
<1>. HIDE DEF t
<1>6. rows'[f] = t /\ (\A g \in Files \ {f} : rows'[g] = rows[g]) /\ rows' \in [Files -> Seq(Row)]
  BY <1>4, <1>5
<1>7. rows[f] = s
  BY DEF s
<1>. QED
  BY <1>3, <1>5, <1>6, <1>7

\* The rows that were found without a uid are given one, and then it is the next statement's turn.
LEMMA UpdateStep ==
  ASSUME SoloAssumption, OpeningInv, NEW p \in Processes, Migration!Update(p)
  PROVE  OpeningInv'
<1>a. PICK f \in Files : /\ f = scene.file[p] /\ OpenerOk(p) /\ Migration!File(p) = f /\ FileOk(f)
                         /\ AloneAt(f) /\ columns[f] \subseteq Migration!Every
  BY OfProcess
<1>1. /\ opening[p] = "migrate" /\ Head(plan[p]).do = "update" /\ scene' = scene /\ overlap' = overlap
      /\ version' = version /\ columns' = columns /\ spend' = spend /\ counted' = counted
  BY DEF Migration!Update, Migration!Is
<1>2. plan[p] = Updating /\ At(p) = 3 /\ Tail(plan[p]) = From(4)
  BY <1>a, <1>1, StatementsAre
<1>3. /\ counted[f] /\ scene.version < 2 /\ scene.version # 0 /\ "call_uid" \in columns[f]
      /\ Nulls(f) \subseteq todo[p] /\ todo[p] \subseteq {id \in DOMAIN rows[f] : rows[f][id].by # "new"}
      /\ scene.version \in Nat /\ scene.version <= 11
  BY <1>a, <1>1, <1>2, SceneIs DEF OpenerOk, OpeningInv, OpeningTypes
<1>4. opening = [opening EXCEPT ![p] = "migrate"]
  BY <1>1 DEF OpeningInv, OpeningTypes
<1>5. CASE todo[p] = {}
  <2>1. /\ plan' = [plan EXCEPT ![p] = From(4)] /\ opening' = opening /\ todo' = todo /\ rows' = rows
    BY <1>2, <1>5 DEF Migration!Update, Migration!Ran
  <2>2. todo' = [todo EXCEPT ![p] = {}] /\ opening' = [opening EXCEPT ![p] = "migrate"]
    BY <1>4, <1>5, <2>1 DEF OpeningInv, OpeningTypes
  <2>3. /\ opening'[p] = "migrate" /\ plan'[p] = From(4) /\ todo'[p] = {}
        /\ \A q \in Processes \ {p} :
              opening'[q] = opening[q] /\ plan'[q] = plan[q] /\ todo'[q] = todo[q]
        /\ opening' \in [Processes -> {"closed", "script", "version", "migrate", "open"}]
        /\ plan' \in [Processes -> Seq(Statement)] /\ todo' \in [Processes -> SUBSET Nat]
    <3>1. From(4) \in Seq(Statement) /\ {} \in SUBSET Nat
          /\ "migrate" \in {"closed", "script", "version", "migrate", "open"}
      <4>1. 4 \in 1 .. 11
        OBVIOUS
      <4>. QED
        BY <4>1, FromIs
    <3>. QED
      BY <2>1, <2>2, <3>1, OneProcess
  <2>4. Nulls(f)' = {}
    BY <1>3, <1>5, <2>1 DEF Nulls
  <2>5. OpenerOk(p)' /\ At(p)' = 4
    <3>. DEFINE m == 4
    <3>1. /\ m \in 1 .. 11 /\ counted'[f] /\ f = scene'.file[p]
          /\ m <= 3 => scene'.version < 2
          /\ m <= 7 => scene'.version # 0 /\ scene'.version < 9
          /\ scene'.version <= 11
          /\ m > 2 => "call_uid" \in columns'[f]
          /\ m > 3 => Nulls(f)' = {}
          /\ m > 5 => "redacted" \in columns'[f]
          /\ m > 9 => "cache_source" \in columns'[f]
          /\ m > 10 => version'[f] = Migration!New
      BY <1>a, <1>1, <1>3, <2>4
    <3>2. plan'[p] = From(m)
      BY <2>3
    <3>3. OpenerOk(p)' /\ At(p)' = m
      <4>. HIDE DEF m
      <4>. QED
        BY <2>3, <3>1, <3>2, MovesOn
    <3>. QED
      BY <3>3
  <2>6. PlainStep(p)
    BY <1>1, <1>2, <2>1, <2>3, <2>5 DEF PlainStep
  <2>. QED
    BY <2>5, <2>6, PlainKeeps
<1>6. CASE todo[p] # {}
  <2>1. PICK id \in todo[p] : /\ rows' = [rows EXCEPT ![f][id].uid = Migration!LegacyUid(f, id)]
                              /\ todo' = [todo EXCEPT ![p] = todo[p] \ {id}]
                              /\ opening' = opening /\ plan' = plan
    BY <1>a, <1>6 DEF Migration!Update
  <2>. DEFINE u == <<"legacy", id, rows[f][id].what>>
  <2>2. id \in DOMAIN rows[f] /\ rows[f][id].by # "new" /\ id \in Nat /\ rows \in [Files -> Seq(Row)]
    BY <1>3 DEF OpeningInv, OpeningTypes, Row
  <2>3. \/ rows[f][id].by = "before" /\ rows[f][id].what = "call" /\ id <= 2
        \/ rows[f][id].by = "old" /\ rows[f][id].what = <<"old", f>> /\ id > 2
    <3>1. RowOk(f, id, rows[f][id])
      BY <1>a, <2>2 DEF FileOk
    <3>. QED
      BY <2>2, <3>1 DEF RowOk
  <2>4. u \in Migration!Uids /\ u # None
    <3>1. <<"legacy", id, "call">> \in Migration!Uids
          /\ <<"legacy", id, <<"old", f>>>> \in Migration!Uids
      BY <2>2 DEF Migration!Uids
    <3>2. None \notin Migration!Uids
      BY SceneIs DEF OpeningInv, OpeningTypes
    <3>. QED
      BY <2>3, <3>1, <3>2
  <2>5. rows' = [rows EXCEPT ![f][id].uid = u]
    BY <2>1 DEF Migration!LegacyUid
  <2>6. /\ rows' \in [Files -> Seq(Row)] /\ Len(rows'[f]) = Len(rows[f])
        /\ DOMAIN rows'[f] = DOMAIN rows[f]
        /\ \A g \in Files \ {f} : rows'[g] = rows[g]
        /\ \A i \in DOMAIN rows[f] \ {id} : rows'[f][i] = rows[f][i]
        /\ rows'[f][id].what = rows[f][id].what /\ rows'[f][id].by = rows[f][id].by
        /\ rows'[f][id].uid = u
    <3>. HIDE DEF u
    <3>. QED
      BY <2>2, <2>4, <2>5, GivenUid
  <2>7. RowOk(f, id, rows'[f][id])
    BY <1>3, <2>3, <2>6 DEF RowOk
  <2>. HIDE DEF u
  <2>8. /\ todo'[p] = todo[p] \ {id} /\ todo' \in [Processes -> SUBSET Nat]
        /\ \A q \in Processes \ {p} : todo'[q] = todo[q]
    BY <2>1 DEF OpeningInv, OpeningTypes
  <2>9. Nulls(f)' = Nulls(f) \ {id}
    BY <2>2, <2>4, <2>6 DEF Nulls
  <2>10. OpeningTypes'
    <3>1. Migration!Every' = Migration!Every /\ Migration!Uids' = Migration!Uids
          /\ Statement' = Statement
      BY DEF Migration!Every, Migration!ColumnsOf, Migration!New, Migration!Uids, Statement
    <3>2. rows' \in [Files -> Seq([what : {"call"} \cup ({"old"} \X Files),
                                   uid : Migration!Uids \cup {None}, by : {"before", "old", "new"}])]
      BY <2>6 DEF Row
    <3>. QED
      BY <1>1, <2>1, <2>8, <3>1, <3>2 DEF OpeningInv, OpeningTypes
  <2>11. Grows(f)
    BY <1>1, <2>2, <2>6, <2>9 DEF Grows
  <2>12. FileOk(f)'
    <3>1. /\ Migration!New' = Migration!New /\ Migration!Every' = Migration!Every
          /\ Migration!ColumnsOf(scene.version)' = Migration!ColumnsOf(scene.version)
          /\ \A i, r : RowOk(f, i, r)' <=> RowOk(f, i, r)
      BY <1>1 DEF Migration!Every, Migration!New, Migration!ColumnsOf, RowOk
    <3>2. \A i \in DOMAIN rows'[f] : RowOk(f, i, rows'[f][i])
      BY <1>a, <2>6, <2>7 DEF FileOk
    <3>3. version[f] = Migration!New => Nulls(f)' = {}
      BY <1>a, <2>9 DEF FileOk
    <3>4. (\A i \in DOMAIN rows[f] : RowOk(f, i, rows[f][i]))'
      BY <3>1, <3>2
    <3>. QED
      BY <1>a, <1>1, <1>3, <2>6, <3>1, <3>3, <3>4 DEF FileOk
  <2>13. AloneAt(f)'
    <3>1. \A q \in Processes : Migrates(q, f)' => Migrates(q, f) /\ (At(q)' <= 7 <=> At(q) <= 7)
      BY <1>1, <2>1 DEF Migrates, At
    <3>2. /\ overlap \subseteq overlap' /\ version'[f] = version[f] /\ spend'[f] = spend[f]
          /\ Len(rows'[f]) = Len(rows[f])
      BY <1>1, <2>6
    <3>. QED
      BY <1>a, <1>1, <3>1, <3>2, SameAlone
  <2>14. OpenerOk(p)'
    <3>1. /\ f = scene'.file[p] /\ opening'[p] = "migrate" /\ plan'[p] = Updating /\ counted'[f]
          /\ scene'.version \in Nat /\ scene'.version < 2 /\ scene'.version # 0
          /\ "call_uid" \in columns'[f] /\ Nulls(f)' \subseteq todo'[p]
      BY <1>a, <1>1, <1>2, <1>3, <2>1, <2>8, <2>9
    <3>2. todo'[p] \subseteq {i \in DOMAIN rows'[f] : rows'[f][i].by # "new"}
      BY <1>3, <2>6, <2>8
    <3>. QED
      BY <3>1, <3>2, GivesUids
  <2>15. /\ scene' = scene /\ overlap \subseteq overlap'
         /\ \A g \in Files \ {f} : /\ version'[g] = version[g] /\ columns'[g] = columns[g]
                                   /\ rows'[g] = rows[g] /\ spend'[g] = spend[g]
                                   /\ counted'[g] = counted[g]
         /\ \A q \in Processes :
              \/ opening'[q] = opening[q] /\ plan'[q] = plan[q] /\ todo'[q] = todo[q]
              \/ scene.file[q] = f /\ OpenerOk(q)'
    BY <1>a, <1>1, <2>1, <2>6, <2>8, <2>14
  <2>. QED
    BY <2>10, <2>11, <2>12, <2>13, <2>15, FileKeeps
<1>. QED
  BY <1>5, <1>6

\* A row is inserted in a file that counts its rows, or that nobody has opened with this library.
LEMMA Inserts ==
  ASSUME SoloAssumption, OpeningInv, NEW f \in Files, NEW r \in Row,
         rows' = [rows EXCEPT ![f] = Append(rows[f], r)],
         spend' = [spend EXCEPT ![f] = IF ~counted[f] THEN spend[f] ELSE IF spend[f] = None THEN 1
                                       ELSE spend[f] + 1],
         RowOk(f, Len(rows[f]) + 1, r), r.uid = None => r.by = "old",
         scene.version # 0 \/ counted[f],
         scene' = scene, version' = version, columns' = columns, counted' = counted,
         opening' = opening, plan' = plan, todo' = todo, overlap' = overlap
  PROVE  OpeningInv'
<1>. DEFINE n == Len(rows[f])
<1>a. /\ FileOk(f) /\ AloneAt(f) /\ rows \in [Files -> Seq(Row)] /\ n \in Nat /\ DOMAIN rows[f] = 1 .. n
      /\ spend[f] \in Nat \cup {None} /\ None \notin Nat /\ rows[f] \in Seq(Row)
  <2>1. /\ FileOk(f) /\ AloneAt(f) /\ rows \in [Files -> Seq(Row)] /\ spend[f] \in Nat \cup {None}
        /\ None \notin Nat
    BY SceneIs DEF OpeningInv, OpeningTypes, Row
  <2>2. rows[f] \in Seq(Row)
    BY <2>1
  <2>. HIDE DEF Row
  <2>3. n \in Nat /\ DOMAIN rows[f] = 1 .. n
    BY <2>2
  <2>. QED
    BY <2>1, <2>2, <2>3
<1>1. /\ rows'[f] = Append(rows[f], r) /\ \A g \in Files \ {f} : rows'[g] = rows[g]
      /\ rows' \in [Files -> Seq(Row)]
  <2>. HIDE DEF Row
  <2>. QED
    BY <1>a
<1>2. /\ Len(rows'[f]) = n + 1 /\ DOMAIN rows'[f] = 1 .. (n + 1) /\ rows'[f][n + 1] = r
      /\ \A i \in 1 .. n : rows'[f][i] = rows[f][i]
  <2>. HIDE DEF Row
  <2>. QED
    BY <1>a, <1>1
<1>3. /\ \A g \in Files \ {f} : spend'[g] = spend[g]
      /\ spend'[f] = IF ~counted[f] THEN spend[f] ELSE IF spend[f] = None THEN 1 ELSE spend[f] + 1
      /\ spend' \in [Files -> Nat \cup {None}]
  BY <1>a DEF OpeningInv, OpeningTypes
<1>. HIDE DEF n
<1>4. counted[f] /\ InStep(f) => InStep(f)'
  BY <1>a, <1>2, <1>3 DEF InStep, n
<1>5. Nulls(f)' \subseteq Nulls(f)
  <2>1. ASSUME NEW i \in 1 .. (n + 1), rows'[f][i].uid = None, rows'[f][i].by # "old"
        PROVE  i \in 1 .. n /\ rows'[f][i] = rows[f][i]
    <3>1. i # n + 1
      BY <1>2, <2>1
    <3>2. i \in 1 .. n
      BY <1>a, <3>1
    <3>. QED
      BY <1>2, <3>2
  <2>. QED
    BY <1>a, <1>2, <2>1 DEF Nulls
<1>6. OpeningTypes'
  <2>1. Migration!Every' = Migration!Every /\ Migration!Uids' = Migration!Uids /\ Statement' = Statement
    BY DEF Migration!Every, Migration!ColumnsOf, Migration!New, Migration!Uids, Statement
  <2>2. rows' \in [Files -> Seq([what : {"call"} \cup ({"old"} \X Files),
                                   uid : Migration!Uids \cup {None}, by : {"before", "old", "new"}])]
    BY <1>1 DEF Row
  <2>. QED
    BY <1>3, <2>1, <2>2 DEF OpeningInv, OpeningTypes
<1>7. Grows(f)
  <2>1. \A i \in DOMAIN rows[f] : i \in DOMAIN rows'[f] /\ rows'[f][i].by = rows[f][i].by
    BY <1>a, <1>2
  <2>. QED
    BY <1>5, <2>1 DEF Grows
<1>8. FileOk(f)'
  <2>1. /\ Migration!New' = Migration!New /\ Migration!Every' = Migration!Every
        /\ Migration!ColumnsOf(scene.version)' = Migration!ColumnsOf(scene.version)
        /\ \A i, s : RowOk(f, i, s)' <=> RowOk(f, i, s)
    BY DEF Migration!Every, Migration!New, Migration!ColumnsOf, RowOk
  <2>2. \A i \in DOMAIN rows'[f] : RowOk(f, i, rows'[f][i])
    <3>1. \A i \in 1 .. n : RowOk(f, i, rows[f][i])
      BY <1>a DEF FileOk
    <3>2. RowOk(f, n + 1, r)
      BY DEF n
    <3>3. \A i \in 1 .. (n + 1) : i \in 1 .. n \/ i = n + 1
      BY <1>a
    <3>. QED
      BY <1>2, <3>1, <3>2, <3>3
  <2>3. (\A i \in DOMAIN rows[f] : RowOk(f, i, rows[f][i]))'
    BY <2>1, <2>2
  <2>4. scene.version # 0 => Len(rows'[f]) >= 2
    BY <1>a, <1>2 DEF FileOk, n
  <2>5. version[f] = Migration!New => Nulls(f)' = {}
    BY <1>a, <1>5 DEF FileOk
  <2>6. scene.version = 0 => InStep(f)' /\ counted[f]
    BY <1>a, <1>4 DEF FileOk
  <2>7. /\ version[f] = Migration!New \/ version[f] = IF scene.version = 0 THEN None ELSE scene.version
        /\ Migration!ColumnsOf(scene.version) \subseteq columns[f]
        /\ version[f] = Migration!New => columns[f] = Migration!Every /\ counted[f]
                                        /\ scene.version <= 11
        /\ scene.version >= 9 => counted[f]
    BY <1>a DEF FileOk
  <2>. QED
    BY <2>1, <2>3, <2>4, <2>5, <2>6, <2>7 DEF FileOk
<1>9. AloneAt(f)'
  <2>1. \A q \in Processes : (Migrates(q, f)' <=> Migrates(q, f)) /\ At(q)' = At(q)
    BY DEF Migrates, At
  <2>2. Migration!New' = Migration!New
    BY DEF Migration!New
  <2>3. ~counted[f] => /\ scene.version < 9 /\ version[f] # Migration!New
                       /\ \A q \in Processes : ~Migrates(q, f)
    <3>1. scene.version \in Nat
      BY SceneIs DEF OpeningInv, OpeningTypes
    <3>2. ~counted[f] => ~(scene.version >= 9) /\ version[f] # Migration!New
      BY <1>a DEF FileOk
    <3>3. ASSUME NEW q \in Processes, Migrates(q, f) PROVE counted[f]
      BY <3>3 DEF Migrates, OpeningInv, OpenerOk
    <3>. QED
      BY <3>1, <3>2, <3>3
  <2>. QED
    BY <1>a, <1>4, <2>1, <2>2, <2>3 DEF AloneAt
<1>10. \A g \in Files \ {f} : /\ version'[g] = version[g] /\ columns'[g] = columns[g]
                              /\ rows'[g] = rows[g] /\ spend'[g] = spend[g] /\ counted'[g] = counted[g]
  BY <1>1, <1>3
<1>11. \A q \in Processes :
           \/ opening'[q] = opening[q] /\ plan'[q] = plan[q] /\ todo'[q] = todo[q]
           \/ scene.file[q] = f /\ OpenerOk(q)'
  OBVIOUS
<1>. QED
  BY <1>6, <1>7, <1>8, <1>9, <1>10, <1>11, FileKeeps

\* A call begins, of this library's or of an older one's.
LEMMA BeginStep ==
  ASSUME SoloAssumption, OpeningInv, NEW p \in Processes, Migration!Begin(p)
  PROVE  OpeningInv'
<1>a. PICK f \in Files : /\ f = scene.file[p] /\ OpenerOk(p) /\ Migration!File(p) = f /\ FileOk(f)
  BY OfProcess
<1>. DEFINE n == Len(rows[f]) + 1
            r == [what |-> "call", uid |-> <<"uid", f, n>>, by |-> "new"]
<1>1. /\ opening[p] = "open" /\ Migration!Insert(f, "call", <<"uid", f, n>>, "new")
      /\ scene' = scene /\ version' = version /\ columns' = columns /\ counted' = counted
      /\ opening' = opening /\ plan' = plan /\ todo' = todo /\ overlap' = overlap
  BY <1>a DEF Migration!Begin
<1>2. /\ rows' = [rows EXCEPT ![f] = Append(rows[f], r)]
      /\ spend' = [spend EXCEPT ![f] = IF ~counted[f] THEN spend[f] ELSE IF spend[f] = None THEN 1
                                       ELSE spend[f] + 1]
  BY <1>1 DEF Migration!Insert
<1>3. counted[f]
  BY <1>a, <1>1 DEF OpenerOk
<1>4. n \in Nat
  BY <1>a DEF OpeningInv, OpeningTypes
<1>5. <<"uid", f, n>> \in Migration!Uids /\ None \notin Migration!Uids
  BY <1>4, SceneIs DEF Migration!Uids, OpeningInv, OpeningTypes
<1>6. r \in Row /\ r.uid # None /\ RowOk(f, n, r)
  BY <1>5 DEF Row, RowOk
<1>. HIDE DEF r
<1>. QED
  BY <1>1, <1>2, <1>3, <1>6, Inserts

LEMMA OldBeginStep ==
  ASSUME SoloAssumption, OpeningInv, NEW f \in Files, Migration!OldBegin(f)
  PROVE  OpeningInv'
<1>a. FileOk(f) /\ f \in scene.old /\ scene.version # 0 /\ scene.version \in Nat
  BY SceneIs DEF OpeningInv, OpeningTypes, Migration!OldBegin
<1>. DEFINE n == Len(rows[f]) + 1
            u == IF scene.version < 2 THEN None ELSE <<"uid", f, n>>
            r == [what |-> <<"old", f>>, uid |-> u, by |-> "old"]
<1>1. /\ Migration!Insert(f, <<"old", f>>, u, "old")
      /\ scene' = scene /\ version' = version /\ columns' = columns /\ counted' = counted
      /\ opening' = opening /\ plan' = plan /\ todo' = todo /\ overlap' = overlap
  BY DEF Migration!OldBegin
<1>2. /\ rows' = [rows EXCEPT ![f] = Append(rows[f], r)]
      /\ spend' = [spend EXCEPT ![f] = IF ~counted[f] THEN spend[f] ELSE IF spend[f] = None THEN 1
                                       ELSE spend[f] + 1]
  BY <1>1 DEF Migration!Insert
<1>4. n \in Nat /\ n > 2
  BY <1>a DEF FileOk, OpeningInv, OpeningTypes
<1>5. <<"uid", f, n>> \in Migration!Uids
  BY <1>4 DEF Migration!Uids
<1>6. u \in Migration!Uids \cup {None}
  BY <1>5
<1>7. r \in Row /\ r.by = "old"
  <2>. HIDE DEF u
  <2>. QED
    BY <1>6 DEF Row
<1>8. RowOk(f, n, r)
  BY <1>a, <1>4 DEF RowOk
<1>. HIDE DEF r
<1>. QED
  BY <1>a, <1>1, <1>2, <1>7, <1>8, Inserts

LEMMA OpeningStep ==
  ASSUME SoloAssumption, OpeningInv, Migration!Next
  PROVE  OpeningInv'
<1>1. CASE \E f \in Files : Migration!OldBegin(f)
  BY <1>1, OldBeginStep
<1>2. ASSUME NEW p \in Processes,
             \/ Migration!StartOpening(p) \/ Migration!RunScript(p) \/ Migration!ReadVersion(p)
             \/ Migration!Look(p) \/ Migration!AddColumn(p)
             \/ Migration!SelectNulls(p) \/ Migration!Update(p) \/ Migration!Clear(p)
             \/ Migration!Refill(p) \/ Migration!RecordVersion(p)
             \/ Migration!BuildIndex(p) \/ Migration!Begin(p) \/ Migration!Stop(p)
      PROVE  OpeningInv'
  BY <1>2, PlainSteps, ScriptStep, VersionStep, AddStep, UpdateStep, ClearStep, RefillStep, RecordStep,
     BeginStep
<1>. QED
  BY <1>1, <1>2 DEF Migration!Next

LEMMA OpeningInit ==
  ASSUME SoloAssumption, Migration!Init
  PROVE  OpeningInv
<1>a. /\ scene \in Scenarios /\ scene.version \in Nat /\ scene.file \in [Processes -> Files]
      /\ None \notin Nat /\ None \notin Migration!Uids
  BY SceneIs DEF Migration!Init
<1>. DEFINE v == scene.version
            n == IF v = 0 THEN 0 ELSE 2
            first(id) == [what |-> "call", uid |-> IF v < 2 THEN None ELSE <<"first", id>>,
                          by |-> "before"]
            s == [id \in 1 .. n |-> first(id)]
<1>b. n \in Nat /\ (v = 0 => n = 0) /\ (v # 0 => n = 2) /\ \A id \in 1 .. n : id \in Nat /\ id <= n
  OBVIOUS
<1>1. /\ version = [f \in Files |-> IF v = 0 THEN None ELSE v]
      /\ columns = [f \in Files |-> Migration!ColumnsOf(v)]
      /\ rows = [f \in Files |-> s]
      /\ spend = [f \in Files |-> IF v < 9 THEN None ELSE 2]
      /\ counted = [f \in Files |-> v >= 9]
      /\ opening = [p \in Processes |-> "closed"] /\ plan = [p \in Processes |-> <<>>]
      /\ todo = [p \in Processes |-> {}]
  BY DEF Migration!Init
<1>2. ASSUME NEW id \in Nat
      PROVE  /\ first(id) \in Row /\ first(id).by = "before" /\ first(id).what = "call"
             /\ first(id).uid = IF v < 2 THEN None ELSE <<"first", id>>
             /\ <<"first", id>> # None
  <2>1. <<"first", id>> \in Migration!Uids
    BY DEF Migration!Uids
  <2>. QED
    BY <1>a, <2>1 DEF Row
<1>. HIDE DEF first, n
<1>3. /\ s \in Seq(Row) /\ Len(s) = n /\ DOMAIN s = 1 .. n /\ n \in Nat
      /\ \A id \in 1 .. n : s[id] = first(id) /\ id \in Nat
  <2>1. n \in Nat /\ \A id \in 1 .. n : first(id) \in Row
    BY <1>2, <1>b
  <2>. HIDE DEF Row
  <2>2. s \in [1 .. n -> Row]
    BY <2>1
  <2>3. s \in Seq(Row)
    BY <2>1, <2>2
  <2>4. DOMAIN s = 1 .. n
    OBVIOUS
  <2>. HIDE DEF s
  <2>5. Len(s) = n
    BY <2>1, <2>3, <2>4
  <2>. QED
    BY <2>1, <2>3, <2>4, <2>5 DEF s
<1>. HIDE DEF s
<1>4. Migration!ColumnsOf(v) \subseteq Migration!Every
  BY <1>a DEF Migration!Every, Migration!ColumnsOf, Migration!New
<1>5. OpeningTypes
  <2>1. rows \in [Files -> Seq(Row)]
    BY <1>1, <1>3
  <2>2. <<>> \in Seq(Statement)
    OBVIOUS
  <2>3. /\ version \in [Files -> Nat \cup {None}] /\ columns \in [Files -> SUBSET Migration!Every]
        /\ spend \in [Files -> Nat \cup {None}] /\ counted \in [Files -> BOOLEAN]
    BY <1>1, <1>4, <1>a
  <2>4. /\ opening \in [Processes -> {"closed", "script", "version", "migrate", "open"}]
        /\ plan \in [Processes -> Seq(Statement)] /\ todo \in [Processes -> SUBSET Nat]
    BY <1>1, <2>2
  <2>. QED
    BY <1>a, <2>1, <2>3, <2>4 DEF OpeningTypes, Row
<1>6. ASSUME NEW f \in Files PROVE FileOk(f)
  <2>1. rows[f] = s /\ version[f] = (IF v = 0 THEN None ELSE v) /\ (counted[f] <=> v >= 9)
        /\ columns[f] = Migration!ColumnsOf(v) /\ spend[f] = IF v < 9 THEN None ELSE 2
    BY <1>1
  <2>2. \A id \in DOMAIN s : RowOk(f, id, s[id])
    <3>1. ASSUME NEW id \in 1 .. n PROVE RowOk(f, id, s[id])
      <4>1. id \in Nat /\ v # 0 /\ id <= 2
        BY <1>b
      <4>2. /\ s[id].by = "before" /\ s[id].what = "call"
            /\ s[id].uid = IF v < 2 THEN None ELSE <<"first", id>>
        BY <1>2, <1>3, <4>1
      <4>. QED
        BY <4>1, <4>2 DEF RowOk
    <3>. QED
      BY <1>3, <3>1
  <2>3. v >= 2 => Nulls(f) = {}
    <3>1. ASSUME v >= 2, NEW id \in 1 .. n PROVE s[id].uid # None
      <4>1. s[id] = first(id) /\ id \in Nat /\ ~(v < 2)
        BY <1>3, <1>a, <3>1
      <4>. QED
        BY <1>2, <4>1
    <3>. QED
      BY <1>3, <2>1, <3>1 DEF Nulls
  <2>4. v = 0 => InStep(f) /\ rows[f] = <<>>
    <3>1. \A t \in Seq(Row) : Len(t) = 0 => t = <<>>
      OBVIOUS
    <3>. QED
      BY <1>3, <1>a, <1>b, <2>1, <3>1 DEF InStep
  <2>5. v # 0 => Len(rows[f]) >= 2
    BY <1>3, <1>b, <2>1
  <2>6. Migration!New = 11 /\ (v = 11 => Migration!ColumnsOf(v) = Migration!Every)
    BY DEF Migration!New, Migration!Every
  <2>. QED
    BY <1>a, <2>1, <2>2, <2>3, <2>4, <2>5, <2>6 DEF FileOk
<1>7. ASSUME NEW f \in Files PROVE AloneAt(f)
  <2>1. \A p \in Processes : ~Migrates(p, f)
    BY <1>1 DEF Migrates
  <2>2. InStep(f) \/ (version[f] # Migration!New /\ scene.version < 9)
    BY <1>1, <1>3, <1>a, <1>b DEF InStep, Migration!New
  <2>. QED
    BY <2>1, <2>2 DEF AloneAt
<1>8. ASSUME NEW p \in Processes PROVE OpenerOk(p)
  BY <1>1 DEF OpenerOk
<1>. QED
  BY <1>5, <1>6, <1>7, <1>8 DEF OpeningInv

LEMMA OpeningStutter ==
  ASSUME SoloAssumption, OpeningInv, UNCHANGED openingVars
  PROVE  OpeningInv'
<1>a. /\ scene' = scene /\ version' = version /\ columns' = columns /\ rows' = rows /\ spend' = spend
      /\ counted' = counted /\ opening' = opening /\ plan' = plan /\ todo' = todo /\ overlap' = overlap
  BY DEF openingVars
<1>1. OpeningTypes'
  BY <1>a DEF OpeningInv, OpeningTypes, Migration!Every, Migration!ColumnsOf, Migration!New,
    Migration!Uids, Statement
<1>2. \A f \in Files : FileOk(f)'
  BY <1>a, SameFile DEF OpeningInv
<1>3. ASSUME NEW f \in Files PROVE AloneAt(f)'
  <2>1. \A q \in Processes : Migrates(q, f)' => Migrates(q, f) /\ (At(q)' <= 7 <=> At(q) <= 7)
    BY <1>a DEF Migrates, At
  <2>2. AloneAt(f) /\ overlap \subseteq overlap' /\ version'[f] = version[f]
        /\ spend'[f] = spend[f] /\ Len(rows'[f]) = Len(rows[f])
    BY <1>a DEF OpeningInv
  <2>. QED
    BY <1>a, <2>1, <2>2, SameAlone
<1>4. ASSUME NEW q \in Processes PROVE OpenerOk(q)'
  <2>1. PICK f \in Files : f = scene.file[q] /\ OpenerOk(q) /\ columns[f] \subseteq Migration!Every
    BY OfProcess
  <2>2. Grows(f)
    BY <1>a DEF Grows, Nulls
  <2>. QED
    BY <1>a, <2>1, <2>2, OpenerKeeps
<1>. QED
  BY <1>1, <1>2, <1>3, <1>4 DEF OpeningInv

\* A uid says which row it is of, and whose: no two rows of a file share one, nor two of two copies
\* but those the copies began with.
LEMMA UidSays ==
  ASSUME NEW f, NEW id, NEW r, RowOk(f, id, r), r.uid # None
  PROVE  \/ r.uid[1] = "uid" /\ r.uid[2] = f /\ r.uid[3] = id /\ r.by # "before"
         \/ r.uid[1] = "first" /\ r.uid[2] = id /\ r.by = "before" /\ r.uid = <<"first", id>>
            /\ ~(scene.version < 2)
         \/ r.uid[1] = "legacy" /\ r.uid[2] = id /\ r.by = "before" /\ r.uid = <<"legacy", id, "call">>
            /\ scene.version < 2 /\ id <= 2
         \/ r.uid[1] = "legacy" /\ r.uid[2] = id /\ r.by = "old" /\ r.uid[3] = <<"old", f>>
            /\ scene.version < 2 /\ id > 2
BY DEF RowOk

LEMMA OpeningHolds ==
  ASSUME SoloAssumption, OpeningInv
  PROVE  Migration!LedgerIsWhole
<1>1. ASSUME NEW f \in Files, Migration!Opened(f)
      PROVE  version[f] = Migration!New
  <2>1. PICK p \in Processes : scene.file[p] = f /\ opening[p] = "open"
    BY <1>1 DEF Migration!Opened, Migration!File
  <2>2. OpenerOk(p)
    BY DEF OpeningInv
  <2>. QED
    BY <2>1, <2>2 DEF OpenerOk
<1>2. Migration!SpendIsTheRows
  <2>1. ASSUME NEW f \in Files, Migration!Opened(f), f \notin overlap
        PROVE  InStep(f)
    <3>1. AloneAt(f) /\ version[f] = Migration!New
      BY <1>1, <2>1 DEF OpeningInv
    <3>. QED
      BY <2>1, <3>1 DEF AloneAt
  <2>. QED
    BY <2>1 DEF Migration!SpendIsTheRows, InStep
<1>3. ASSUME NEW f \in Files, NEW i \in DOMAIN rows[f]
      PROVE  RowOk(f, i, rows[f][i]) /\ i \in Nat
  BY DEF OpeningInv, OpeningTypes, FileOk
<1>4. Migration!OpenedIsWhole
  <2>1. ASSUME NEW f \in Files, Migration!Opened(f)
        PROVE  /\ version[f] = Migration!New /\ columns[f] = Migration!Every
               /\ \A id \in DOMAIN rows[f] : rows[f][id].uid = None => rows[f][id].by = "old"
    <3>1. FileOk(f) /\ version[f] = Migration!New
      BY <1>1, <2>1 DEF OpeningInv
    <3>2. columns[f] = Migration!Every /\ Nulls(f) = {}
      BY <3>1 DEF FileOk
    <3>. QED
      BY <3>1, <3>2 DEF Nulls
  <2>2. ASSUME NEW f \in Files, NEW i \in DOMAIN rows[f], NEW j \in DOMAIN rows[f],
               rows[f][i].uid = rows[f][j].uid, rows[f][i].uid # None
        PROVE  i = j
    <3>. DEFINE r == rows[f][i]
                s == rows[f][j]
    <3>1. RowOk(f, i, r) /\ RowOk(f, j, s) /\ r.uid = s.uid /\ r.uid # None
      BY <1>3, <2>2
    <3>. HIDE DEF r, s
    <3>2. \/ r.uid[1] = "uid" /\ r.uid[3] = i
          \/ r.uid[1] \in {"first", "legacy"} /\ r.uid[2] = i
      BY <3>1, UidSays
    <3>3. \/ s.uid[1] = "uid" /\ s.uid[3] = j
          \/ s.uid[1] \in {"first", "legacy"} /\ s.uid[2] = j
      BY <3>1, UidSays
    <3>. QED
      BY <3>1, <3>2, <3>3
  <2>. QED
    BY <2>1, <2>2 DEF Migration!OpenedIsWhole
<1>5. Migration!CopiesAgree
  <2>1. ASSUME NEW f \in Files, NEW g \in Files, NEW i \in DOMAIN rows[f], NEW j \in DOMAIN rows[g],
               f # g, rows[f][i].uid # None, rows[g][j].uid # None
        PROVE  rows[f][i].uid = rows[g][j].uid
                 <=> i = j /\ rows[f][i].by = "before" /\ rows[g][j].by = "before"
    <3>. DEFINE r == rows[f][i]
                s == rows[g][j]
    <3>1. RowOk(f, i, r) /\ RowOk(g, j, s) /\ r.uid # None /\ s.uid # None /\ i \in Nat /\ j \in Nat
      BY <1>3, <2>1
    <3>. HIDE DEF r, s
    <3>2. \/ r.uid[1] = "uid" /\ r.uid[2] = f /\ r.uid[3] = i /\ r.by # "before"
          \/ r.uid[1] = "first" /\ r.uid[2] = i /\ r.by = "before" /\ r.uid = <<"first", i>>
             /\ ~(scene.version < 2)
          \/ r.uid[1] = "legacy" /\ r.uid[2] = i /\ r.by = "before" /\ r.uid = <<"legacy", i, "call">>
             /\ scene.version < 2 /\ i <= 2
          \/ r.uid[1] = "legacy" /\ r.uid[2] = i /\ r.by = "old" /\ r.uid[3] = <<"old", f>>
             /\ scene.version < 2 /\ i > 2
      BY <3>1, UidSays
    <3>3. \/ s.uid[1] = "uid" /\ s.uid[2] = g /\ s.uid[3] = j /\ s.by # "before"
          \/ s.uid[1] = "first" /\ s.uid[2] = j /\ s.by = "before" /\ s.uid = <<"first", j>>
             /\ ~(scene.version < 2)
          \/ s.uid[1] = "legacy" /\ s.uid[2] = j /\ s.by = "before" /\ s.uid = <<"legacy", j, "call">>
             /\ scene.version < 2 /\ j <= 2
          \/ s.uid[1] = "legacy" /\ s.uid[2] = j /\ s.by = "old" /\ s.uid[3] = <<"old", g>>
             /\ scene.version < 2 /\ j > 2
      BY <3>1, UidSays
    <3>4. <<"old", f>> # <<"old", g>>
      BY <2>1
    <3>5. ASSUME r.uid = s.uid PROVE i = j /\ r.by = "before" /\ s.by = "before"
      <4>1. r.uid[1] = s.uid[1] /\ r.uid[2] = s.uid[2] /\ r.uid[3] = s.uid[3]
        BY <3>5
      <4>. QED
        BY <2>1, <3>1, <3>2, <3>3, <3>4, <4>1
    <3>6. ASSUME i = j, r.by = "before", s.by = "before" PROVE r.uid = s.uid
      BY <3>2, <3>3, <3>6
    <3>7. r.uid = s.uid <=> i = j /\ r.by = "before" /\ s.by = "before"
      BY <3>5, <3>6
    <3>. QED
      BY <3>7 DEF r, s
  <2>. QED
    BY <2>1 DEF Migration!CopiesAgree
<1>. QED
  BY <1>2, <1>4, <1>5 DEF Migration!LedgerIsWhole

\* However many processes open a ledger of whichever earlier version, wherever each of them is
\* killed, and whatever older processes write meanwhile: once it is open it is of this version,
\* with every column and with a uid of its own in every row but those an older process wrote late;
\* the caps read the sum of its rows, unless two were opening it at once; and copies of one file
\* opened apart agree on the uids of the rows they share and on no others.
THEOREM LedgersAreWhole ==
  ASSUME SoloAssumption
  PROVE  SoloSpec => []LedgerIsWhole
<1>. DEFINE Inv == part = "opening" => OpeningInv
<1>1. SoloInit => Inv
  BY OpeningInit DEF SoloInit
<1>2. Inv /\ [SoloNext]_partsVars => Inv'
  <2>. SUFFICES ASSUME Inv, [SoloNext]_partsVars, part' = "opening" PROVE OpeningInv'
    OBVIOUS
  <2>1. part' = part /\ (Migration!Next \/ UNCHANGED openingVars)
    BY DEF SoloNext, partsVars
  <2>. QED
    BY <2>1, OpeningStep, OpeningStutter
<1>3. Inv => LedgerIsWhole
  BY OpeningHolds DEF LedgerIsWhole
<1>. HIDE DEF Inv
<1>. QED
  BY <1>1, <1>2, <1>3, PTL DEF SoloSpec
=============================================================================
