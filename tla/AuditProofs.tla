----------------------------- MODULE AuditProofs ----------------------------
(***************************************************************************)
(* Theorems about the audit chain, for every value of the constants: the   *)
(* appender (AuditAppender) and the corruptions of a chain (TamperEvidence, *)
(* as SoloParts instances it).                                             *)
(*                                                                         *)
(* VerifyClean needs nothing of the fleet: LogInv says that the records    *)
(* are linked, that the head a writer read inside its transaction is still *)
(* the head, and that every state written anywhere was once the row's,     *)
(* which never goes back.                                                  *)
(*                                                                         *)
(* AppenderKeepsTrack and AskedIsSealed are about the proxy that seals its *)
(* own chain (Alone).  TrackInv says what the appender remembers while it  *)
(* opens, while it is idle and while an append is under way.               *)
(*                                                                         *)
(* TamperInv says what is left of the honest log after each number of      *)
(* corruptions: the chain is the honest one, or it is built up again from  *)
(* a record that no anchor agrees with.                                    *)
(***************************************************************************)
EXTENDS SoloParts, SetTheorems, SequenceTheorems, TLAPS

-----------------------------------------------------------------------------
(* The ids in ascending order.                                             *)

\* There is an ascending order, and InOrder gives one.
Ascending(s, ids) ==
  /\ s \in [1 .. Cardinality(ids) -> ids]
  /\ \A i \in ids : \E k \in DOMAIN s : s[k] = i
  /\ \A j, k \in DOMAIN s : j < k => s[j] < s[k]

\* Every set of ids can be put in ascending order.
LEMMA OrderExists ==
  ASSUME NEW m \in Nat, NEW T \in SUBSET (1 .. m)
  PROVE  \E s : Ascending(s, T)
<1>. DEFINE G == {n \in Nat : \A U \in SUBSET (1 .. n) : \E s : Ascending(s, U)}
<1>1. 0 \in G
  <2>. SUFFICES ASSUME NEW U \in SUBSET (1 .. 0) PROVE \E s : Ascending(s, U)
    OBVIOUS
  <2>0. U = {}
    OBVIOUS
  <2>1. U = {} /\ Cardinality(U) = 0
    BY <2>0, FS_EmptySet
  <2>2. Ascending([k \in 1 .. 0 |-> 0], U)
    BY <2>1 DEF Ascending
  <2>. QED
    BY <2>2
<1>2. ASSUME NEW n \in Nat, n \in G
      PROVE  n + 1 \in G
  <2>. SUFFICES ASSUME NEW U \in SUBSET (1 .. (n + 1)) PROVE \E s : Ascending(s, U)
    OBVIOUS
  <2>1. CASE n + 1 \notin U
    <3>1. U \in SUBSET (1 .. n)
      BY <2>1
    <3>. QED
      BY <1>2, <3>1
  <2>2. CASE n + 1 \in U
    <3>. DEFINE R == U \ {n + 1}
                c == Cardinality(R)
    <3>1. R \in SUBSET (1 .. n)
      OBVIOUS
    <3>2. PICK s : Ascending(s, R)
      BY <1>2, <3>1
    <3>3. c \in Nat /\ Cardinality(U) = c + 1
      <4>1. IsFiniteSet(1 .. n)
        BY FS_Interval
      <4>2. IsFiniteSet(R)
        BY <3>1, <4>1, FS_Subset
      <4>3. c \in Nat /\ Cardinality(R \cup {n + 1}) = c + 1
        BY <4>2, FS_AddElement, FS_CardinalityType
      <4>4. R \cup {n + 1} = U
        BY <2>2
      <4>. QED
        BY <4>3, <4>4
    <3>. HIDE DEF c
    <3>4. /\ s \in [1 .. c -> R]
          /\ \A i \in R : \E k \in 1 .. c : s[k] = i
          /\ \A j, k \in 1 .. c : j < k => s[j] < s[k]
      BY <3>2 DEF Ascending, c
    <3>. DEFINE t == [k \in 1 .. (c + 1) |-> IF k = c + 1 THEN n + 1 ELSE s[k]]
    <3>5. t \in [1 .. (c + 1) -> U]
      BY <2>2, <3>3, <3>4
    <3>6. \A i \in U : \E k \in 1 .. (c + 1) : t[k] = i
      <4>. SUFFICES ASSUME NEW i \in U PROVE \E k \in 1 .. (c + 1) : t[k] = i
        OBVIOUS
      <4>1. CASE i = n + 1
        <5>1. c + 1 \in 1 .. (c + 1) /\ t[c + 1] = i
          BY <3>3, <4>1
        <5>. QED
          BY <5>1
      <4>2. CASE i # n + 1
        <5>1. PICK k \in 1 .. c : s[k] = i
          BY <3>4, <4>2
        <5>2. k \in 1 .. (c + 1) /\ t[k] = i
          BY <3>3, <5>1
        <5>. QED
          BY <5>2
      <4>. QED
        BY <4>1, <4>2
    <3>7. \A j, k \in 1 .. (c + 1) : j < k => t[j] < t[k]
      <4>. SUFFICES ASSUME NEW j \in 1 .. (c + 1), NEW k \in 1 .. (c + 1), j < k
                    PROVE  t[j] < t[k]
        OBVIOUS
      <4>1. j \in 1 .. c /\ s[j] \in 1 .. n /\ t[j] = s[j]
        <5>1. j \in 1 .. c
          BY <3>3
        <5>2. s[j] \in 1 .. n
          BY <3>1, <3>4, <5>1
        <5>. QED
          BY <3>3, <5>1, <5>2
      <4>2. CASE k = c + 1
        BY <4>1, <4>2
      <4>3. CASE k # c + 1
        <5>1. k \in 1 .. c /\ t[k] = s[k]
          BY <3>3, <4>3
        <5>. QED
          BY <3>4, <4>1, <5>1
      <4>. QED
        BY <4>2, <4>3
    <3>8. DOMAIN t = 1 .. (c + 1)
      OBVIOUS
    <3>. HIDE DEF t, R
    <3>9. Ascending(t, U)
      BY <3>3, <3>5, <3>6, <3>7, <3>8 DEF Ascending
    <3>. QED
      BY <3>9
  <2>. QED
    BY <2>1, <2>2
<1>3. m \in G
  <2>. HIDE DEF G
  <2>. QED
    BY <1>1, <1>2, NatSetInduction
<1>. QED
  BY <1>3

\* What is assumed of the constants, as the proofs use it.
LEMMA OrderOfIds ==
  ASSUME LastId \in Nat, NEW ids \in SUBSET Ids
  PROVE  Ascending(InOrder(ids), ids)
<1>1. PICK s : Ascending(s, ids)
  BY OrderExists DEF Ids
<1>2. \E t \in [1 .. Cardinality(ids) -> ids] :
        /\ \A i \in ids : \E k \in DOMAIN t : t[k] = i
        /\ \A j, k \in DOMAIN t : j < k => t[j] < t[k]
  BY <1>1 DEF Ascending
<1>. QED
  BY <1>2 DEF InOrder, Ascending

\* The bodies of ids: one for each id and none for any other.
LEMMA BodiesAre ==
  ASSUME LastId \in Nat, NEW ids \in SUBSET Ids, NEW states
  PROVE  /\ DOMAIN BodiesOf(ids, states) = 1 .. Cardinality(ids)
         /\ Cardinality(ids) \in Nat
         /\ \A k \in DOMAIN BodiesOf(ids, states) : \E i \in ids :
              BodiesOf(ids, states)[k] = [id |-> i, state |-> states[i]]
         /\ \A i \in ids : \E k \in DOMAIN BodiesOf(ids, states) :
              BodiesOf(ids, states)[k] = [id |-> i, state |-> states[i]]
         /\ \A j, k \in DOMAIN BodiesOf(ids, states) : 
              BodiesOf(ids, states)[j].id = BodiesOf(ids, states)[k].id => j = k
<1>. DEFINE s == InOrder(ids)
            b == BodiesOf(ids, states)
            c == Cardinality(ids)
<1>1. c \in Nat
  <2>1. IsFiniteSet(1 .. LastId)
    BY FS_Interval
  <2>2. IsFiniteSet(ids)
    BY <2>1, FS_Subset DEF Ids
  <2>. QED
    BY <2>2, FS_CardinalityType
<1>2. /\ s \in [1 .. c -> ids]
      /\ \A i \in ids : \E k \in 1 .. c : s[k] = i
      /\ \A j, k \in 1 .. c : j < k => s[j] < s[k]
  BY OrderOfIds DEF Ascending
<1>3. b = [k \in 1 .. c |-> [id |-> s[k], state |-> states[s[k]]]]
  BY <1>2 DEF BodiesOf
<1>. HIDE DEF b, s, c
<1>4. \A j, k \in 1 .. c : s[j] = s[k] => j = k
  <2>. SUFFICES ASSUME NEW j \in 1 .. c, NEW k \in 1 .. c, s[j] = s[k]
                PROVE  j = k
    OBVIOUS
  <2>0. s[j] \in ids /\ s[k] \in ids
    BY <1>2
  <2>1. \A i \in ids : i \in Int
    BY DEF Ids
  <2>. QED
    BY <1>1, <1>2, <2>0, <2>1
<1>5. /\ DOMAIN b = 1 .. c
      /\ \A k \in 1 .. c : b[k] = [id |-> s[k], state |-> states[s[k]]]
  BY <1>3
<1>6. \A k \in 1 .. c : \E i \in ids : b[k] = [id |-> i, state |-> states[i]]
  BY <1>2, <1>5
<1>7. \A i \in ids : \E k \in 1 .. c : b[k] = [id |-> i, state |-> states[i]]
  BY <1>2, <1>5
<1>8. \A j, k \in 1 .. c : b[j].id = b[k].id => j = k
  BY <1>4, <1>5
<1>. QED
  BY <1>1, <1>5, <1>6, <1>7, <1>8 DEF b, c

\* Bodies of rows that are in flight or complete are a sequence of bodies.
LEMMA BodiesType ==
  ASSUME LastId \in Nat, NEW ids \in SUBSET Ids, NEW states,
         \A i \in ids : states[i] \in {"in_flight", "complete"}
  PROVE  BodiesOf(ids, states) \in Seq(Body)
<1>. DEFINE b == BodiesOf(ids, states)
            c == Cardinality(ids)
<1>1. /\ DOMAIN b = 1 .. c /\ c \in Nat
      /\ \A k \in DOMAIN b : \E i \in ids : b[k] = [id |-> i, state |-> states[i]]
  BY BodiesAre
<1>2. b = [k \in 1 .. c |-> b[k]]
  <2>1. b = [k \in DOMAIN InOrder(ids) |->
               [id |-> InOrder(ids)[k], state |-> states[InOrder(ids)[k]]]]
    BY DEF BodiesOf
  <2>2. DOMAIN InOrder(ids) = 1 .. c
    BY OrderOfIds DEF Ascending
  <2>. QED
    BY <2>1, <2>2
<1>. HIDE DEF b, c
<1>3. \A k \in 1 .. c : b[k] \in Body
  BY <1>1 DEF Body
<1>4. b \in [1 .. c -> Body]
  BY <1>2, <1>3
<1>5. b \in Seq(Body)
  BY <1>1, <1>4, SeqDef
<1>. QED
  BY <1>5 DEF b

\* One body more of a prefix is one link more of its hash.
LEMMA OneMore ==
  ASSUME NEW first \in Seq(Body), NEW bs \in Seq(Body), NEW k \in 1 .. Len(bs)
  PROVE  first \o SubSeq(bs, 1, k) = Append(first \o SubSeq(bs, 1, k - 1), bs[k])
<1>. DEFINE u == SubSeq(bs, 1, k - 1)
            v == SubSeq(bs, 1, k)
            t == <<bs[k]>>
<1>1. Len(bs) \in Nat /\ \A i \in 1 .. k : bs[i] \in Body
  BY LenProperties, ElementOfSeq
<1>2. v = u \o t
  BY <1>1, SubSeqRecursiveSecond
<1>3. t \in Seq(Body)
  BY <1>1
<1>4. u \in Seq(Body)
  <2>1. 1 \in Int /\ k - 1 \in Int /\ \A i \in 1 .. (k - 1) : bs[i] \in Body
    BY <1>1
  <2>. QED
    BY <2>1, SubSeqProperties
<1>. HIDE DEF u, v, t
<1>5. (first \o u) \o t = first \o (u \o t)
  BY <1>3, <1>4, ConcatAssociative, SMTT(60)
<1>6. first \o u \in Seq(Body)
  BY <1>4, ConcatProperties
<1>7. Append(first \o u, bs[k]) = (first \o u) \o t
  BY <1>1, <1>6, AppendIsConcat DEF t
<1>. QED
  BY <1>2, <1>5, <1>7 DEF u, v

Record == [seq : Nat, prev : Hash, hash : Hash, body : Body]

\* The fields of records built one per body.
LEMMA FieldsOf ==
  ASSUME NEW n \in Nat, NEW q \in Nat, NEW g, NEW bs, NEW L,
         \A k \in 0 .. n : g[k] \in Hash,
         \A k \in 1 .. n : bs[k] \in Body,
         L = [k \in 1 .. n |-> [seq |-> q + k, prev |-> g[k - 1], hash |-> g[k], body |-> bs[k]]]
  PROVE  /\ L \in [1 .. n -> Record]
         /\ \A k \in 1 .. n : /\ L[k].seq = q + k /\ L[k].prev = g[k - 1]
                              /\ L[k].hash = g[k] /\ L[k].body = bs[k]
<1>1. \A k \in 1 .. n :
         L[k] = [seq |-> q + k, prev |-> g[k - 1], hash |-> g[k], body |-> bs[k]]
  OBVIOUS
<1>2. \A k \in 1 .. n : /\ L[k].seq = q + k /\ L[k].prev = g[k - 1]
                        /\ L[k].hash = g[k] /\ L[k].body = bs[k]
  BY <1>1
<1>3. \A k \in 1 .. n : L[k] \in Record
  <2>. SUFFICES ASSUME NEW k \in 1 .. n PROVE L[k] \in Record
    OBVIOUS
  <2>1. k - 1 \in 0 .. n /\ k \in 0 .. n /\ q + k \in Nat
    OBVIOUS
  <2>2. g[k - 1] \in Hash /\ g[k] \in Hash /\ bs[k] \in Body
    BY <2>1
  <2>. QED
    BY <1>1, <2>1, <2>2 DEF Record
<1>4. L = [k \in 1 .. n |-> L[k]]
  OBVIOUS
<1>. QED
  BY <1>2, <1>3, <1>4

\* The records after a head: numbered on from it, each linked to the one before.
LEMMA LinkedAre ==
  ASSUME NEW head, head.seq \in Nat, head.hash \in Hash, NEW bs \in Seq(Body)
  PROVE  /\ Linked(head, bs) \in Seq(Record)
         /\ Len(Linked(head, bs)) = Len(bs) /\ Len(bs) \in Nat
         /\ \A k \in 1 .. Len(bs) :
              /\ Linked(head, bs)[k].seq = head.seq + k
              /\ Linked(head, bs)[k].body = bs[k]
              /\ Linked(head, bs)[k].prev = IF k = 1 THEN head.hash ELSE Linked(head, bs)[k - 1].hash
              /\ Linked(head, bs)[k].hash = Link(Linked(head, bs)[k].prev, bs[k])
<1>. DEFINE n == Len(bs)
            L == Linked(head, bs)
            Of(g) == g = [k \in 0 .. n |-> IF k = 0 THEN head.hash ELSE Link(g[k - 1], bs[k])]
            w == [k \in 0 .. n |-> head.hash \o SubSeq(bs, 1, k)]
            h == CHOOSE g : Of(g)
<1>1. n \in Nat /\ \A k \in 1 .. n : bs[k] \in Body
  BY LenProperties, ElementOfSeq
<1>3. \A k \in 1 .. n : w[k] = Link(w[k - 1], bs[k])
  <2>. SUFFICES ASSUME NEW k \in 1 .. n PROVE w[k] = Link(w[k - 1], bs[k])
    OBVIOUS
  <2>1. head.hash \o SubSeq(bs, 1, k) = Append(head.hash \o SubSeq(bs, 1, k - 1), bs[k])
    BY OneMore DEF Hash
  <2>2. k \in 0 .. n /\ k - 1 \in 0 .. n
    BY <1>1
  <2>3. w[k] = head.hash \o SubSeq(bs, 1, k) /\ w[k - 1] = head.hash \o SubSeq(bs, 1, k - 1)
    BY <2>2
  <2>. HIDE DEF w
  <2>. QED
    BY <2>1, <2>3 DEF Link
<1>4. w[0] = head.hash
  <2>1. SubSeq(bs, 1, 0) = <<>>
    BY SubSeqEmpty
  <2>2. head.hash \o <<>> = head.hash
    BY ConcatEmptySeq DEF Hash
  <2>3. w[0] = head.hash \o SubSeq(bs, 1, 0)
    BY <1>1
  <2>. HIDE DEF w
  <2>. QED
    BY <2>1, <2>2, <2>3
<1>5. Of(w)
  <2>1. w = [k \in 0 .. n |-> w[k]]
    OBVIOUS
  <2>. HIDE DEF w
  <2>2. \A k \in 0 .. n : w[k] = IF k = 0 THEN head.hash ELSE Link(w[k - 1], bs[k])
    BY <1>1, <1>3, <1>4
  <2>3. w = [k \in 0 .. n |-> IF k = 0 THEN head.hash ELSE Link(w[k - 1], bs[k])]
    <3>. HIDE DEF n
    <3>. QED
      BY <2>1, <2>2
  <2>. QED
    BY <2>3
<1>6. Of(h)
  <2>. HIDE DEF w, Of
  <2>. QED
    BY <1>5
<1>7. L = [k \in 1 .. n |-> [seq |-> head.seq + k, prev |-> h[k - 1], hash |-> h[k], body |-> bs[k]]]
  BY DEF Linked
<1>. HIDE DEF h, L, w, n
<1>8. h[0] = head.hash /\ \A k \in 1 .. n : h[k] = Link(h[k - 1], bs[k])
  <2>1. h = [k \in 0 .. n |-> IF k = 0 THEN head.hash ELSE Link(h[k - 1], bs[k])]
    BY <1>6
  <2>2. \A k \in 0 .. n : h[k] = IF k = 0 THEN head.hash ELSE Link(h[k - 1], bs[k])
    BY <2>1
  <2>3. 0 \in 0 .. n /\ \A k \in 1 .. n : k \in 0 .. n /\ k # 0
    BY <1>1
  <2>. QED
    BY <2>2, <2>3, Zenon
<1>9. \A k \in 0 .. n : h[k] \in Hash
  <2>. DEFINE G == {k \in Nat : k <= n => h[k] \in Hash}
  <2>1. 0 \in G
    BY <1>8
  <2>2. ASSUME NEW k \in Nat, k \in G
        PROVE  k + 1 \in G
    <3>. SUFFICES ASSUME k + 1 <= n PROVE h[k + 1] \in Hash
      OBVIOUS
    <3>1. h[k] \in Hash /\ k + 1 \in 1 .. n
      BY <1>1, <2>2
    <3>2. h[k + 1] = Link(h[k], bs[k + 1]) /\ bs[k + 1] \in Body
      BY <1>1, <1>8, <3>1
    <3>. QED
      BY <3>1, <3>2, AppendProperties DEF Link, Hash
  <2>. HIDE DEF G
  <2>3. Nat \subseteq G
    BY <2>1, <2>2, NatSetInduction
  <2>. QED
    BY <1>1, <2>3 DEF G
<1>10. /\ L \in [1 .. n -> Record]
       /\ \A k \in 1 .. n : /\ L[k].seq = head.seq + k /\ L[k].prev = h[k - 1]
                            /\ L[k].hash = h[k] /\ L[k].body = bs[k]
  <2>. DEFINE q == head.seq
  <2>1. q \in Nat
    OBVIOUS
  <2>2. L = [k \in 1 .. n |-> [seq |-> q + k, prev |-> h[k - 1], hash |-> h[k], body |-> bs[k]]]
    BY <1>7
  <2>. HIDE DEF q
  <2>3. /\ L \in [1 .. n -> Record]
        /\ \A k \in 1 .. n : /\ L[k].seq = q + k /\ L[k].prev = h[k - 1]
                             /\ L[k].hash = h[k] /\ L[k].body = bs[k]
    BY <1>1, <1>9, <2>1, <2>2, FieldsOf
  <2>. QED
    BY <2>3 DEF q
<1>12. L \in Seq(Record) /\ Len(L) = n
  <2>1. L \in Seq(Record)
    BY <1>1, <1>10, SeqDef
  <2>. QED
    BY <1>1, <1>10, <2>1, LenProperties
<1>13. \A k \in 1 .. n : /\ L[k].seq = head.seq + k
                         /\ L[k].body = bs[k]
                         /\ L[k].prev = IF k = 1 THEN head.hash ELSE L[k - 1].hash
                         /\ L[k].hash = Link(L[k].prev, bs[k])
  <2>. SUFFICES ASSUME NEW k \in 1 .. n
                PROVE  /\ L[k].seq = head.seq + k
                       /\ L[k].body = bs[k]
                       /\ L[k].prev = IF k = 1 THEN head.hash ELSE L[k - 1].hash
                       /\ L[k].hash = Link(L[k].prev, bs[k])
    OBVIOUS
  <2>1. L[k].prev = h[k - 1] /\ L[k].hash = h[k] /\ L[k].body = bs[k] /\ L[k].seq = head.seq + k
    BY <1>10
  <2>2. k # 1 => L[k - 1].hash = h[k - 1]
    <3>. SUFFICES ASSUME k # 1 PROVE L[k - 1].hash = h[k - 1]
      OBVIOUS
    <3>1. k - 1 \in 1 .. n
      BY <1>1
    <3>. QED
      BY <1>10, <3>1
  <2>. QED
    BY <1>8, <2>1, <2>2
<1>. QED
  BY <1>1, <1>12, <1>13 DEF L, n

-----------------------------------------------------------------------------
(* The inductive invariants.                                               *)

Before(k) == IF k = 1 THEN Genesis ELSE chain[k - 1].hash

Chained ==
  \A k \in 1 .. Len(chain) : /\ chain[k].seq = k /\ chain[k].prev = Before(k)
                             /\ chain[k].hash = Link(chain[k].prev, chain[k].body)

\* The head a writer read inside its transaction is still the head.
Held ==
  \A w \in Writers : pc[w] = "commit" =>
    /\ base[w] = ChainHead
    /\ \A v \in Writers : pc[v] = "commit" => v = w

Published ==
  \A a \in anchors : a # Head0 => a.seq \in 1 .. Len(chain) /\ chain[a.seq].hash = a.hash

\* In the rows r, row i has come at least as far as s.
Reached(r, i, s) ==
  \/ s = "in_flight" /\ r[i] \in {"in_flight", "orphan", "complete"}
  \/ s = "complete" /\ r[i] = "complete"

Truthful ==
  /\ \A k \in 1 .. Len(chain) : Reached(row, chain[k].body.id, chain[k].body.state)
  /\ \A w \in Writers :
       /\ \A k \in 1 .. Len(bodies[w]) : Reached(row, bodies[w][k].id, bodies[w][k].state)
       /\ \A i \in Ids : view[w][i] # "none" => Reached(row, i, view[w][i])

Counted == flushes + (IF scheduled THEN 1 ELSE 0) <= Cardinality(reported)

LogInv == TypeOK /\ Counted /\ Chained /\ Held /\ Published /\ Truthful

\* A proxy that seals its own chain, with nobody beside it.
Alone ==
  /\ ~Hosted /\ ~CallsWhileOpening /\ IdsInOrder
  /\ "append" \notin Events /\ Operators = {}

Appending == pc["appender"] \in {"append", "commit"}

OnItsWay(i) ==
  \E k \in 1 .. Len(bodies["appender"]) :
    bodies["appender"][k] = [id |-> i, state |-> "complete"]
Covered(i) == OnItsWay(i) \/ SealedComplete(i)

RowsInOrder ==
  \A i \in Ids : /\ row[i] # "allocated"
                 /\ row[i] # "none" => \A j \in Ids : j < i => row[j] # "none"

Places ==
  /\ opened => pc["appender"] \in {"idle", "append", "commit"}
  /\ ~opened => pc["appender"] \in {"down", "stopped", "read", "sealed", "append", "commit"}
  /\ ~Appending => bodies["appender"] = <<>>

\* Opening: the rows stand still, and the opening seal covers the completed ones.
Opening ==
  ~opened => /\ pc["appender"] = "read" => view["appender"] = Rows
             /\ Appending => \A i \in Complete : Covered(i)
             /\ pc["appender"] = "sealed" => \A i \in Complete : SealedComplete(i)

\* What the watermark and the pending ids stand for.
Remembered ==
  opened => /\ \A i \in Ids : i <= watermark => row[i] # "none"
            /\ \A i \in pending : i <= watermark
            /\ \A i \in Visible : i > watermark \/ i \in pending \/ Covered(i)

\* A row that is pending, or above the watermark, has no record of its outcome.
NotSealedYet ==
  opened => /\ \A k \in 1 .. Len(chain) :
                 /\ chain[k].body.id <= watermark
                 /\ chain[k].body.state = "complete" => chain[k].body.id \notin pending
            /\ \A k \in 1 .. Len(bodies["appender"]) :
                 /\ bodies["appender"][k].state = "complete"
                 /\ bodies["appender"][k].id <= watermark
                 /\ bodies["appender"][k].id \notin pending

\* What is on its way is new: one body a row, and no record but of the row in flight.
News ==
  /\ \A j, k \in 1 .. Len(bodies["appender"]) :
       j < k => bodies["appender"][j].id # bodies["appender"][k].id
  /\ \A j \in 1 .. Len(chain), k \in 1 .. Len(bodies["appender"]) :
       chain[j].body.id = bodies["appender"][k].id =>
         chain[j].body.state = "in_flight" /\ bodies["appender"][k].state = "complete"

\* What an append that /audit/head or the stop waits for covers.
AskedFor ==
  /\ owed \subseteq Complete
  /\ anchoring = "sealed" => \A i \in owed : SealedComplete(i)
  /\ opened /\ Appending =>
       /\ task = "anchor" => anchoring = "asked" /\ \A i \in owed : Covered(i)
       /\ task = "final" /\ closing = "stop" => \A i \in Complete : Covered(i)

TrackInv ==
  /\ RowsInOrder /\ Places /\ Opening /\ Remembered /\ NotSealedYet /\ News
  /\ OneRecordPerChange /\ AskedFor

-----------------------------------------------------------------------------
(* Steps, and their types.                                                 *)

CallStep == \E i \in Ids : Allocate(i) \/ Begin(i) \/ Finish(i) \/ Lose(i)

\* The actions, one to a disjunct.
LEMMA Steps ==
  ASSUME Next
  PROVE  \/ CallStep
         \/ \E i \in Ids : Report(i)
         \/ Flush \/ AskAnchor \/ ReadHead \/ Close \/ Crash \/ Open \/ Opened \/ Anchor
         \/ \E w \in Writers : Seal(w)
         \/ \E w \in Writers : TxnBegin(w)
         \/ \E w \in Writers : TxnCommit(w)
         \/ \E w \in Writers : TxnFail(w)
         \/ \E t \in Tasks : AfterCall(t)
         \/ \E o \in Operators : SealRun(o)
<1>1. "appender" \in Writers /\ \A o \in Operators : o \in Writers
  BY DEF Writers
<1>. QED
  BY <1>1, Zenon DEF Next, ProxyNext, AppenderStep, OperatorStep, CallStep

\* A row is shown as one of three states, and the ids that are seen are in range.
LEMMA Shows ==
  ASSUME row \in [Ids -> RowStates]
  PROVE  /\ Rows \in [Ids -> {"none", "in_flight", "complete"}]
         /\ Visible \subseteq Ids /\ Complete \subseteq Ids /\ Complete \subseteq Visible
         /\ \A i \in Ids : /\ i \in Visible <=> row[i] \in {"in_flight", "orphan", "complete"}
                           /\ i \in Complete <=> row[i] = "complete"
                           /\ Rows[i] = Shown(row[i])
                           /\ Rows[i] # "none" => Reached(row, i, Rows[i])
                           /\ Rows[i] = "complete" <=> row[i] = "complete"
BY DEF Rows, Visible, Complete, Shown, RowStates, Reached

\* The head of a typed chain is a head.
LEMMA HeadType ==
  ASSUME chain \in Seq(Record)
  PROVE  ChainHead \in [seq : Nat, hash : Hash] /\ ChainHead.seq \in Nat /\ ChainHead.hash \in Hash
<1>1. Head0 \in [seq : Nat, hash : Hash]
  BY EmptySeq DEF Head0, Genesis, Hash
<1>2. ASSUME chain # <<>>
      PROVE  chain[Len(chain)].seq \in Nat /\ chain[Len(chain)].hash \in Hash
  <2>1. chain[Len(chain)] \in Record
    BY <1>2, EmptySeq, LenProperties, ElementOfSeq
  <2>. QED
    BY <2>1 DEF Record
<1>3. ChainHead \in [seq : Nat, hash : Hash]
  BY <1>1, <1>2 DEF ChainHead
<1>. QED
  BY <1>3

\* The ids seen, with the watermark or zero, have a largest.
LEMMA LargestSeen ==
  ASSUME LastId \in Nat, NEW S \in SUBSET Ids, NEW n \in 0 .. LastId
  PROVE  /\ Max(S \cup {n}) \in S \cup {n} /\ Max(S \cup {n}) \in 0 .. LastId
         /\ Max(S \cup {n}) >= n /\ \A i \in S : i <= Max(S \cup {n})
<1>. DEFINE T == S \cup {n}
<1>1. T \in SUBSET (0 .. LastId) /\ T # {} /\ n \in T /\ S \subseteq T
  BY DEF Ids
<1>. HIDE DEF T
<1>2. Max(T) \in T /\ \A x \in T : x <= Max(T)
  BY <1>1, GreatestOf
<1>3. Max(T) \in T /\ Max(T) \in 0 .. LastId /\ Max(T) >= n /\ \A i \in S : i <= Max(T)
  BY <1>1, <1>2
<1>. QED
  BY <1>3 DEF T

\* The flushes asked for and the flag are at most the calls that have reported.
LEMMA CountedStep ==
  ASSUME ConstantsAssumption, TypeOK, Counted, [Next]_vars
  PROVE  Counted' /\ flushes' \in 0 .. LastId
<1>. USE DEF ConstantsAssumption
<1>1. IsFiniteSet(Ids) /\ Cardinality(Ids) = LastId
  BY FS_Interval DEF Ids
<1>2. /\ IsFiniteSet(reported) /\ Cardinality(reported) \in Nat
      /\ Cardinality(reported) <= LastId
  <2>1. reported \subseteq Ids
    BY DEF TypeOK
  <2>2. IsFiniteSet(reported) /\ Cardinality(reported) <= Cardinality(Ids)
    BY <1>1, <2>1, FS_Subset
  <2>. QED
    BY <1>1, <2>2, FS_CardinalityType
<1>3. flushes \in Nat /\ scheduled \in BOOLEAN /\ flushes <= Cardinality(reported)
  BY <1>2 DEF TypeOK, Counted
<1>4. CASE \E i \in Ids : Report(i)
  <2>. PICK i \in Ids : Report(i)
    BY <1>4
  <2>1. reported' = reported \cup {i} /\ i \notin reported /\ flushes' = flushes
    BY DEF Report
  <2>2. Cardinality(reported') = Cardinality(reported) + 1
    BY <1>2, <2>1, FS_AddElement
  <2>. QED
    BY <1>2, <1>3, <2>1, <2>2 DEF Counted, TypeOK
<1>5. CASE Flush
  BY <1>2, <1>3, <1>5 DEF Flush, Counted, TypeOK, ledgerVars
<1>6. CASE Crash
  <2>1. flushes' = 0 /\ scheduled' = FALSE
    BY <1>6 DEF Crash
  <2>2. reported' \subseteq Ids
    <3>1. Complete \subseteq Ids
      BY DEF Complete
    <3>. QED
      BY <1>6, <3>1 DEF Crash, ledgerVars, TypeOK
  <2>3. Cardinality(reported') \in Nat
    <3>. DEFINE r == reported'
    <3>. HIDE DEF r
    <3>1. r \subseteq Ids => Cardinality(r) \in Nat
      BY <1>1, FS_Subset, FS_CardinalityType
    <3>. QED
      BY <2>2, <3>1 DEF r
  <2>. QED
    BY <1>1, <2>1, <2>3, FS_CardinalityType DEF Counted
<1>7. CASE Opened
  BY <1>1, <1>2, <1>7, FS_CardinalityType DEF Opened, Counted, ledgerVars
<1>8. ASSUME NEW t \in Tasks, AfterCall(t)
      PROVE  Counted' /\ flushes' \in 0 .. LastId
  <2>1. /\ flushes' = IF t = "flush" THEN flushes - 1 ELSE flushes
        /\ t = "flush" => flushes > 0
        /\ scheduled' = scheduled /\ reported' = reported
    BY <1>8 DEF AfterCall, Asked, ledgerVars
  <2>. QED
    BY <1>2, <1>3, <2>1 DEF Counted, TypeOK
<1>9. ASSUME UNCHANGED <<flushes, scheduled, reported>>
      PROVE  Counted' /\ flushes' \in 0 .. LastId
  BY <1>9 DEF Counted, TypeOK
<1>10. CASE UNCHANGED vars
  BY <1>9, <1>10 DEF vars, ledgerVars, serverVars
<1>11. CASE CallStep
  BY <1>9, <1>11 DEF CallStep, Allocate, Begin, Finish, Lose, serverVars
<1>12. CASE AskAnchor \/ ReadHead \/ Close \/ Open \/ Anchor
  BY <1>9, <1>12
     DEF AskAnchor, ReadHead, Close, Open, ReadRows, Anchor, ledgerVars, serverVars
<1>13. ASSUME NEW w \in Writers, Seal(w) \/ TxnBegin(w) \/ TxnCommit(w) \/ TxnFail(w)
       PROVE  Counted' /\ flushes' \in 0 .. LastId
  BY <1>9, <1>13 DEF Seal, TxnBegin, TxnCommit, TxnFail, ledgerVars, serverVars
<1>14. CASE \E o \in Operators : SealRun(o)
  BY <1>9, <1>14 DEF SealRun, ReadRows, ledgerVars, serverVars
<1>. QED
  BY Steps, <1>4, <1>5, <1>6, <1>7, <1>8, <1>10, <1>11, <1>12, <1>13, <1>14

Pcs == {"down", "stopped", "ready", "read", "append", "commit", "sealed", "idle", "done"}

\* Where a writer goes next is a place, with what Return, Resume and Raise set.
LEMMA ReturnTypes ==
  ASSUME TypeOK, NEW t \in Tasks, Return(t)
  PROVE  /\ anchoring' \in {"no", "asked", "sealed"} /\ opened' \in BOOLEAN
         /\ closing' \in {"no", "stop", "raise"} /\ pc' \in [Writers -> Pcs]
BY DEF TypeOK, Return, Pcs

\* The same after an append that succeeded.
LEMMA ResumeTypes ==
  ASSUME TypeOK, NEW w \in Writers, Resume(w)
  PROVE  /\ anchoring' \in {"no", "asked", "sealed"} /\ opened' \in BOOLEAN
         /\ closing' \in {"no", "stop", "raise"} /\ pc' \in [Writers -> Pcs]
<1>1. CASE w = "appender" /\ opened
  <2>1. Return(task) /\ task \in Tasks
    BY <1>1 DEF Resume, TypeOK
  <2>. QED
    BY <2>1, ReturnTypes
<1>2. CASE ~(w = "appender" /\ opened)
  BY <1>2 DEF Resume, TypeOK, AfterSeal, Pcs
<1>. QED
  BY <1>1, <1>2

\* The same after one that raised.
LEMMA RaiseTypes ==
  ASSUME TypeOK, NEW w \in Writers, Raise(w)
  PROVE  /\ anchoring' \in {"no", "asked", "sealed"} /\ opened' \in BOOLEAN
         /\ closing' \in {"no", "stop", "raise"} /\ pc' \in [Writers -> Pcs]
<1>1. CASE w = "appender"
  BY <1>1 DEF Raise, TypeOK, Pcs
<1>2. CASE w # "appender"
  BY <1>2 DEF Raise, TypeOK, Pcs
<1>. QED
  BY <1>1, <1>2

\* Every step keeps every variable of its type.
LEMMA TypesStep ==
  ASSUME ConstantsAssumption, TypeOK, Counted, [Next]_vars
  PROVE  TypeOK'
<1>. USE DEF ConstantsAssumption
<1>a. LastId \in Nat /\ "appender" \in Writers
  BY DEF Writers
<1>b. row \in [Ids -> RowStates] /\ chain \in Seq(Record)
  BY DEF TypeOK, Record
<1>c. ChainHead \in [seq : Nat, hash : Hash] /\ Head0 \in [seq : Nat, hash : Hash]
  BY <1>b, HeadType, EmptySeq DEF Head0, Genesis, Hash
<1>d. <<>> \in Seq(Body) /\ NoView \in [Ids -> {"none", "in_flight", "complete"}]
  BY EmptySeq DEF NoView
<1>e. flushes' \in 0 .. LastId
  BY CountedStep
<1>f. /\ Rows \in [Ids -> {"none", "in_flight", "complete"}]
      /\ Visible \subseteq Ids /\ Complete \subseteq Ids
      /\ \A i \in Complete : Rows[i] = "complete"
  BY <1>b, Shows
<1>1. CASE CallStep
  BY <1>1, <1>e DEF CallStep, Allocate, Begin, Finish, Lose, TypeOK, RowStates,
     serverVars, appenderVars, writerVars, anchorVars
<1>2. CASE \E i \in Ids : Report(i)
  BY <1>2, <1>e DEF Report, TypeOK, appenderVars, writerVars, anchorVars
<1>3. CASE Flush
  BY <1>3, <1>e DEF Flush, TypeOK, ledgerVars, appenderVars, writerVars, anchorVars
<1>4. CASE AskAnchor
  BY <1>4, <1>e, <1>f
     DEF AskAnchor, TypeOK, ledgerVars, serverVars, appenderVars, writerVars
<1>5. CASE ReadHead
  BY <1>5, <1>e, <1>c DEF ReadHead, TypeOK, ledgerVars, serverVars, appenderVars, writerVars
<1>6. CASE Close
  BY <1>6, <1>e DEF Close, TypeOK, ledgerVars, appenderVars, writerVars, anchorVars
<1>7. CASE Crash
  <2>1. row' \in [Ids -> RowStates] /\ reported' \subseteq Ids
    BY <1>7, <1>f DEF Crash, TypeOK, RowStates, ledgerVars
  <2>2. faults' \in 0 .. MaxFaults
    BY <1>7 DEF Crash, TypeOK
  <2>3. /\ pc' \in [Writers -> Pcs] /\ bodies' \in [Writers -> Seq(Body)]
        /\ view' \in [Writers -> [Ids -> {"none", "in_flight", "complete"}]]
        /\ base' \in [Writers -> [seq : Nat, hash : Hash]]
    BY <1>7, <1>c, <1>d DEF Crash, TypeOK, Pcs
  <2>. QED
    BY <1>7, <1>a, <1>e, <2>1, <2>2, <2>3 DEF Crash, TypeOK, Pcs
<1>8. ASSUME NEW w \in Writers, ReadRows(w)
      PROVE  TypeOK'
  BY <1>8, <1>e, <1>f DEF ReadRows, TypeOK, ledgerVars, serverVars, appenderVars, anchorVars
<1>9. CASE Opened
  <2>1. watermark' \in 0 .. LastId
    <3>1. 0 \in 0 .. LastId /\ Visible \in SUBSET Ids
      BY <1>a, <1>f
    <3>2. Max(Visible \cup {0}) \in 0 .. LastId
      BY <1>a, <3>1, LargestSeen
    <3>. QED
      BY <1>9, <3>2 DEF Opened
  <2>2. pending' \subseteq Ids
    BY <1>9, <1>f DEF Opened
  <2>. QED
    BY <1>9, <1>e, <2>1, <2>2 DEF Opened, TypeOK, ledgerVars, anchorVars
<1>10. CASE Anchor
  BY <1>10, <1>c, <1>e DEF Anchor, TypeOK, ledgerVars, serverVars, appenderVars, writerVars
<1>11. ASSUME NEW w \in Writers, Seal(w)
       PROVE  TypeOK'
  <2>. PICK old \in SUBSET Settled(w) :
         LET due == {i \in Ids : /\ view[w][i] # "none"
                                 /\ NeedsSeal(i, view[w][i])
                                 /\ view[w][i] = "complete" \/ i \in old}
         IN  /\ bodies' = [bodies EXCEPT ![w] = BodiesOf(due, view[w])]
             /\ pc' = [pc EXCEPT ![w] = IF due = {} THEN AfterSeal(w) ELSE "append"]
    BY <1>11 DEF Seal
  <2>. DEFINE due == {i \in Ids : /\ view[w][i] # "none"
                                  /\ NeedsSeal(i, view[w][i])
                                  /\ view[w][i] = "complete" \/ i \in old}
              states == view[w]
              b == BodiesOf(due, states)
  <2>1. due \in SUBSET Ids /\ \A i \in due : states[i] \in {"in_flight", "complete"}
    BY DEF TypeOK
  <2>2. /\ bodies' = [bodies EXCEPT ![w] = b]
        /\ pc' = [pc EXCEPT ![w] = IF due = {} THEN AfterSeal(w) ELSE "append"]
    OBVIOUS
  <2>. HIDE DEF due, states
  <2>3. b \in Seq(Body)
    BY <1>a, <2>1, BodiesType
  <2>. HIDE DEF b
  <2>4. pc' \in [Writers -> Pcs]
    BY <2>2 DEF TypeOK, AfterSeal, Pcs
  <2>5. bodies' \in [Writers -> Seq(Body)]
    BY <2>2, <2>3 DEF TypeOK
  <2>6. view' \in [Writers -> [Ids -> {"none", "in_flight", "complete"}]]
    BY <1>11, <1>d DEF Seal, TypeOK
  <2>. QED
    BY <1>11, <1>e, <2>4, <2>5, <2>6
       DEF Seal, TypeOK, Pcs, ledgerVars, serverVars, appenderVars, anchorVars
<1>12. ASSUME NEW w \in Writers, TxnBegin(w)
       PROVE  TypeOK'
  BY <1>12, <1>c, <1>e
     DEF TxnBegin, TypeOK, ledgerVars, serverVars, appenderVars, anchorVars
<1>13. ASSUME NEW w \in Writers, TxnCommit(w)
       PROVE  TypeOK'
  <2>. DEFINE L == Linked(base[w], bodies[w])
  <2>1. L \in Seq(Record)
    <3>1. base[w].seq \in Nat /\ base[w].hash \in Hash /\ bodies[w] \in Seq(Body)
      BY DEF TypeOK
    <3>. QED
      BY <3>1, LinkedAre
  <2>2. chain' = chain \o L
    BY <1>13 DEF TxnCommit
  <2>. HIDE DEF L
  <2>3. chain' \in Seq(Record)
    BY <1>b, <2>1, <2>2, ConcatProperties
  <2>4. /\ anchoring' \in {"no", "asked", "sealed"} /\ opened' \in BOOLEAN
        /\ closing' \in {"no", "stop", "raise"} /\ pc' \in [Writers -> Pcs]
    BY <1>13, ResumeTypes DEF TxnCommit
  <2>5. bodies' \in [Writers -> Seq(Body)] /\ base' \in [Writers -> [seq : Nat, hash : Hash]]
    BY <1>13, <1>c, <1>d DEF TxnCommit, TypeOK
  <2>. QED
    BY <1>13, <1>e, <2>3, <2>4, <2>5 DEF TxnCommit, TypeOK, Pcs, Record, ledgerVars
<1>14. ASSUME NEW w \in Writers, TxnFail(w)
       PROVE  TypeOK'
  <2>1. /\ anchoring' \in {"no", "asked", "sealed"} /\ opened' \in BOOLEAN
        /\ closing' \in {"no", "stop", "raise"} /\ pc' \in [Writers -> Pcs]
    BY <1>14, RaiseTypes DEF TxnFail
  <2>2. bodies' \in [Writers -> Seq(Body)] /\ base' \in [Writers -> [seq : Nat, hash : Hash]]
    BY <1>14, <1>c, <1>d DEF TxnFail, TypeOK
  <2>3. faults' \in 0 .. MaxFaults
    BY <1>14 DEF TxnFail, TypeOK
  <2>. QED
    BY <1>14, <1>e, <2>1, <2>2, <2>3 DEF TxnFail, TypeOK, Pcs, ledgerVars
<1>15. ASSUME NEW t \in Tasks, AfterCall(t)
       PROVE  TypeOK'
  <2>. DEFINE due == Fresh \cap Complete
              b == BodiesOf(due, Rows)
  <2>1. /\ due \in SUBSET Ids /\ Fresh \in SUBSET Ids
        /\ \A i \in due : Rows[i] \in {"in_flight", "complete"}
    BY <1>f DEF Fresh
  <2>2. /\ bodies' = [bodies EXCEPT !["appender"] = b]
        /\ IF due = {} THEN Return(t)
           ELSE /\ pc' = [pc EXCEPT !["appender"] = "append"]
                /\ UNCHANGED <<opened, closing, anchoring>>
    BY <1>15 DEF AfterCall
  <2>. HIDE DEF due
  <2>3. b \in Seq(Body)
    BY <1>a, <2>1, BodiesType
  <2>. HIDE DEF b
  <2>4. /\ anchoring' \in {"no", "asked", "sealed"} /\ opened' \in BOOLEAN
        /\ closing' \in {"no", "stop", "raise"} /\ pc' \in [Writers -> Pcs]
    <3>1. CASE due = {}
      BY <2>2, <3>1, ReturnTypes
    <3>2. CASE due # {}
      BY <2>2, <3>2 DEF TypeOK, Pcs
    <3>. QED
      BY <3>1, <3>2
  <2>5. bodies' \in [Writers -> Seq(Body)]
    BY <2>2, <2>3 DEF TypeOK
  <2>6. watermark' \in 0 .. LastId /\ pending' \subseteq Ids
    <3>1. watermark \in 0 .. LastId /\ pending \subseteq Ids
      BY DEF TypeOK
    <3>. QED
      BY <1>15, <1>a, <2>1, <3>1, LargestSeen DEF AfterCall
  <2>. QED
    BY <1>15, <1>e, <2>4, <2>5, <2>6 DEF AfterCall, TypeOK, Pcs, ledgerVars
<1>16. CASE UNCHANGED vars
  BY <1>16 DEF TypeOK, vars, ledgerVars, serverVars, appenderVars, writerVars, anchorVars
<1>17. CASE Open \/ \E o \in Operators : SealRun(o)
  BY <1>8, <1>17, <1>a DEF Open, SealRun, Writers
<1>. QED
  BY Steps, <1>1, <1>2, <1>3, <1>4, <1>5, <1>6, <1>7, <1>9, <1>10, <1>11, <1>12, <1>13,
     <1>14, <1>15, <1>16, <1>17

-----------------------------------------------------------------------------
(* The log: LogInv.                                                        *)

\* The chain changes by the commit of one writer, whose bodies it gains.
LEMMA ChainSteps ==
  ASSUME [Next]_vars
  PROVE  \/ chain' = chain
         \/ \E w \in Writers : /\ pc[w] = "commit"
                               /\ chain' = chain \o Linked(base[w], bodies[w])
                               /\ UNCHANGED <<row, view, anchors>>
<1>1. CASE UNCHANGED vars
  BY <1>1 DEF vars
<1>2. CASE CallStep
  BY <1>2 DEF CallStep, Allocate, Begin, Finish, Lose
<1>3. CASE \E i \in Ids : Report(i)
  BY <1>3 DEF Report
<1>4. CASE Flush \/ AskAnchor \/ ReadHead \/ Close \/ Crash \/ Open \/ Opened \/ Anchor
  BY <1>4 DEF Flush, AskAnchor, ReadHead, Close, Crash, Open, ReadRows, Opened, Anchor
<1>5. CASE \E w \in Writers : Seal(w) \/ TxnBegin(w) \/ TxnFail(w)
  BY <1>5 DEF Seal, TxnBegin, TxnFail
<1>6. CASE \E w \in Writers : TxnCommit(w)
  BY <1>6 DEF TxnCommit, ledgerVars
<1>7. CASE \E t \in Tasks : AfterCall(t)
  BY <1>7 DEF AfterCall
<1>8. CASE \E o \in Operators : SealRun(o)
  BY <1>8 DEF SealRun, ReadRows
<1>. QED
  BY Steps, <1>1, <1>2, <1>3, <1>4, <1>5, <1>6, <1>7, <1>8

\* A row never goes back: what it has reached stays reached.
LEMMA ReachedStays ==
  ASSUME TypeOK, [Next]_vars, NEW i \in Ids, NEW s, Reached(row, i, s)
  PROVE  Reached(row', i, s)
<1>1. CASE row' = row
  BY <1>1 DEF Reached
<1>2. CASE CallStep
  BY <1>2 DEF CallStep, Allocate, Begin, Finish, Lose, Reached, TypeOK
<1>3. CASE Crash
  BY <1>3 DEF Crash, Reached, TypeOK, ledgerVars
<1>4. CASE \E j \in Ids : Report(j)
  BY <1>1, <1>4 DEF Report
<1>5. CASE Flush \/ AskAnchor \/ ReadHead \/ Close \/ Open \/ Opened \/ Anchor
  BY <1>1, <1>5 DEF Flush, AskAnchor, ReadHead, Close, Open, ReadRows, Opened, Anchor, ledgerVars
<1>6. CASE \E w \in Writers : Seal(w) \/ TxnBegin(w) \/ TxnFail(w) \/ TxnCommit(w)
  BY <1>1, <1>6 DEF Seal, TxnBegin, TxnFail, TxnCommit, ledgerVars
<1>7. CASE \E t \in Tasks : AfterCall(t)
  BY <1>1, <1>7 DEF AfterCall, ledgerVars
<1>8. CASE \E o \in Operators : SealRun(o)
  BY <1>1, <1>8 DEF SealRun, ReadRows, ledgerVars
<1>9. CASE UNCHANGED vars
  BY <1>1, <1>9 DEF vars, ledgerVars
<1>. QED
  BY Steps, <1>2, <1>3, <1>4, <1>5, <1>6, <1>7, <1>8, <1>9

\* What a commit leaves: the old records, and one linked record per body after them.
LEMMA CommitAppends ==
  ASSUME TypeOK, Chained, Held, NEW w \in Writers, pc[w] = "commit",
         chain' = chain \o Linked(base[w], bodies[w])
  PROVE  /\ Len(chain) \in Nat /\ Len(bodies[w]) \in Nat
         /\ Len(chain') = Len(chain) + Len(bodies[w])
         /\ \A k \in 1 .. Len(chain) : chain'[k] = chain[k]
         /\ \A k \in 1 .. Len(bodies[w]) :
              /\ chain'[Len(chain) + k].seq = Len(chain) + k
              /\ chain'[Len(chain) + k].body = bodies[w][k]
              /\ chain'[Len(chain) + k].prev = IF Len(chain) + k = 1 THEN Genesis
                                               ELSE chain'[Len(chain) + k - 1].hash
              /\ chain'[Len(chain) + k].hash =
                   Link(chain'[Len(chain) + k].prev, chain'[Len(chain) + k].body)
<1>. DEFINE L == Linked(base[w], bodies[w])
            n == Len(chain)
            m == Len(bodies[w])
<1>1. base[w] = ChainHead /\ bodies[w] \in Seq(Body) /\ chain \in Seq(Record)
  BY DEF Held, TypeOK, Record
<1>2. base[w].seq \in Nat /\ base[w].hash \in Hash
  BY <1>1, HeadType
<1>3. /\ L \in Seq(Record) /\ Len(L) = m /\ m \in Nat
      /\ \A k \in 1 .. m :
           /\ L[k].seq = base[w].seq + k
           /\ L[k].body = bodies[w][k]
           /\ L[k].prev = IF k = 1 THEN base[w].hash ELSE L[k - 1].hash
           /\ L[k].hash = Link(L[k].prev, bodies[w][k])
  BY <1>1, <1>2, LinkedAre
<1>4. n \in Nat /\ (chain = <<>> <=> n = 0)
  BY <1>1, LenProperties, EmptySeq
<1>5. base[w].seq = n /\ base[w].hash = IF n = 0 THEN Genesis ELSE chain[n].hash
  <2>1. CASE chain = <<>>
    BY <1>1, <1>4, <2>1 DEF ChainHead, Head0
  <2>2. CASE chain # <<>>
    <3>1. n \in 1 .. n
      BY <1>4, <2>2
    <3>2. chain[n].seq = n
      BY <3>1 DEF Chained
    <3>. QED
      BY <1>1, <1>4, <2>2, <3>2 DEF ChainHead
  <2>. QED
    BY <2>1, <2>2
<1>. HIDE DEF L
<1>6. /\ Len(chain') = n + m
      /\ \A k \in 1 .. n : chain'[k] = chain[k]
      /\ \A k \in 1 .. m : chain'[n + k] = L[k]
  <2>1. chain' = chain \o L
    BY DEF L
  <2>. QED
    BY <1>1, <1>3, <1>4, <2>1, ConcatProperties
<1>. HIDE DEF n, m
<1>7. ASSUME NEW k \in 1 .. m
      PROVE  /\ chain'[n + k].seq = n + k
             /\ chain'[n + k].body = bodies[w][k]
             /\ chain'[n + k].prev = IF n + k = 1 THEN Genesis ELSE chain'[n + k - 1].hash
             /\ chain'[n + k].hash = Link(chain'[n + k].prev, chain'[n + k].body)
  <2>1. chain'[n + k] = L[k]
    BY <1>6
  <2>2. L[k].prev = IF n + k = 1 THEN Genesis ELSE chain'[n + k - 1].hash
    <3>1. CASE k = 1
      <4>1. n + k - 1 = n /\ (n # 0 => n \in 1 .. n) /\ (n + k = 1 <=> n = 0)
        BY <1>4, <3>1
      <4>. QED
        BY <1>3, <1>5, <1>6, <3>1, <4>1
    <3>2. CASE k # 1
      <4>1. k - 1 \in 1 .. m /\ n + (k - 1) = n + k - 1 /\ n + k # 1
        BY <1>3, <1>4, <3>2
      <4>2. chain'[n + k - 1] = L[k - 1]
        BY <1>6, <4>1
      <4>. QED
        BY <1>3, <3>2, <4>1, <4>2
    <3>. QED
      BY <3>1, <3>2
  <2>3. /\ L[k].seq = n + k /\ L[k].body = bodies[w][k]
        /\ L[k].hash = Link(L[k].prev, L[k].body)
    BY <1>3, <1>5
  <2>. QED
    BY <2>1, <2>2, <2>3
<1>. QED
  BY <1>3, <1>4, <1>6, <1>7 DEF n, m

\* The records there are stay as they are.
LEMMA ChainGrows ==
  ASSUME TypeOK, Chained, Held, [Next]_vars
  PROVE  /\ Len(chain) \in Nat /\ Len(chain') \in Nat /\ Len(chain) <= Len(chain')
         /\ \A k \in 1 .. Len(chain) : chain'[k] = chain[k]
<1>1. Len(chain) \in Nat
  BY LenProperties DEF TypeOK
<1>2. CASE chain' = chain
  BY <1>1, <1>2
<1>3. ASSUME NEW w \in Writers, pc[w] = "commit",
             chain' = chain \o Linked(base[w], bodies[w])
      PROVE  /\ Len(chain') \in Nat /\ Len(chain) <= Len(chain')
             /\ \A k \in 1 .. Len(chain) : chain'[k] = chain[k]
  BY <1>3, CommitAppends
<1>. QED
  BY <1>1, <1>2, <1>3, ChainSteps

\* Every record is linked to the one before it, and stays so.
LEMMA ChainedStep ==
  ASSUME TypeOK, Chained, Held, [Next]_vars
  PROVE  Chained'
<1>1. CASE chain' = chain
  BY <1>1 DEF Chained, Before
<1>2. ASSUME NEW w \in Writers, pc[w] = "commit",
             chain' = chain \o Linked(base[w], bodies[w])
      PROVE  Chained'
  <2>. DEFINE n == Len(chain)
              m == Len(bodies[w])
              c == chain'
  <2>1. /\ n \in Nat /\ m \in Nat /\ Len(c) = n + m
        /\ \A k \in 1 .. n : c[k] = chain[k]
        /\ \A k \in 1 .. m :
             /\ c[n + k].seq = n + k
             /\ c[n + k].prev = IF n + k = 1 THEN Genesis ELSE c[n + k - 1].hash
             /\ c[n + k].hash = Link(c[n + k].prev, c[n + k].body)
    BY <1>2, CommitAppends
  <2>2. \A k \in 1 .. n : /\ chain[k].seq = k
                          /\ chain[k].prev = IF k = 1 THEN Genesis ELSE chain[k - 1].hash
                          /\ chain[k].hash = Link(chain[k].prev, chain[k].body)
    BY DEF Chained, Before
  <2>. HIDE DEF n, m, c
  <2>3. ASSUME NEW k \in 1 .. (n + m)
        PROVE  /\ c[k].seq = k
               /\ c[k].prev = IF k = 1 THEN Genesis ELSE c[k - 1].hash
               /\ c[k].hash = Link(c[k].prev, c[k].body)
    <3>1. CASE k <= n
      <4>1. k \in 1 .. n /\ (k # 1 => k - 1 \in 1 .. n)
        BY <2>1, <3>1
      <4>2. c[k] = chain[k] /\ (k # 1 => c[k - 1] = chain[k - 1])
        BY <2>1, <4>1
      <4>. QED
        BY <2>2, <4>1, <4>2
    <3>2. CASE k > n
      <4>1. PICK j \in 1 .. m : k = n + j
        <5>1. k - n \in 1 .. m /\ k = n + (k - n)
          BY <2>1, <3>2
        <5>. QED
          BY <5>1
      <4>. QED
        BY <2>1, <4>1
    <3>. QED
      BY <2>1, <3>1, <3>2
  <2>. QED
    BY <2>1, <2>3 DEF Chained, Before, c
<1>. QED
  BY <1>1, <1>2, ChainSteps

\* A writer inside its transaction has just read the head, or it and the chain have not moved.
LEMMA CommitSteps ==
  ASSUME TypeOK, Held, [Next]_vars, NEW w \in Writers, pc'[w] = "commit"
  PROVE  /\ chain' = chain
         /\ \/ /\ base'[w] = ChainHead /\ \A v \in Writers : v # w => pc'[v] # "commit"
            \/ /\ pc[w] = "commit" /\ base'[w] = base[w]
               /\ \A v \in Writers : pc'[v] = "commit" => pc[v] = "commit"
<1>. DEFINE Stays == /\ chain' = chain
                     /\ pc[w] = "commit" /\ base'[w] = base[w]
                     /\ \A v \in Writers : pc'[v] = "commit" => pc[v] = "commit"
<1>a. pc \in [Writers -> Pcs] /\ base \in [Writers -> [seq : Nat, hash : Hash]]
  BY DEF TypeOK, Pcs
<1>1. CASE UNCHANGED <<pc, base, chain>>
  BY <1>1
<1>2. CASE CallStep
  BY <1>1, <1>2 DEF CallStep, Allocate, Begin, Finish, Lose, writerVars
<1>3. CASE \E i \in Ids : Report(i)
  BY <1>1, <1>3 DEF Report, writerVars
<1>4. CASE Flush \/ AskAnchor \/ ReadHead \/ Close \/ Anchor
  BY <1>1, <1>4 DEF Flush, AskAnchor, ReadHead, Close, Anchor, writerVars
<1>5. CASE Crash
  BY <1>5, <1>a DEF Crash
<1>6. ASSUME NEW v \in Writers, ReadRows(v)
      PROVE  Stays
  BY <1>6, <1>a DEF ReadRows
<1>7. CASE Open \/ \E o \in Operators : SealRun(o)
  BY <1>6, <1>7 DEF Open, SealRun, Writers
<1>8. CASE Opened
  BY <1>8, <1>a DEF Opened
<1>9. ASSUME NEW v \in Writers, Seal(v)
      PROVE  Stays
  <2>1. PICK q : q # "commit" /\ pc' = [pc EXCEPT ![v] = q]
    BY <1>9, Zenon DEF Seal, AfterSeal
  <2>. QED
    BY <1>9, <1>a, <2>1 DEF Seal
<1>10. ASSUME NEW v \in Writers, TxnBegin(v)
       PROVE  /\ chain' = chain /\ base'[w] = ChainHead
              /\ \A u \in Writers : u # w => pc'[u] # "commit"
  BY <1>10, <1>a DEF TxnBegin
<1>11. ASSUME NEW t \in Tasks, AfterCall(t)
       PROVE  Stays
  <2>1. \E q : q # "commit" /\ pc' = [pc EXCEPT !["appender"] = q]
    BY <1>11, Zenon DEF AfterCall, Return
  <2>. QED
    BY <1>11, <1>a, <2>1 DEF AfterCall
<1>12. ASSUME NEW v \in Writers, TxnCommit(v)
       PROVE  FALSE
  <2>1. \E q : q # "commit" /\ pc' = [pc EXCEPT ![v] = q]
    BY <1>12, Zenon DEF TxnCommit, Resume, Return, AfterSeal
  <2>2. pc[v] = "commit" /\ pc[w] = "commit" => v = w
    BY DEF Held
  <2>. QED
    BY <1>12, <1>a, <2>1, <2>2 DEF TxnCommit
<1>13. ASSUME NEW v \in Writers, TxnFail(v)
       PROVE  Stays
  <2>1. \E q : q # "commit" /\ pc' = [pc EXCEPT ![v] = q]
    BY <1>13, Zenon DEF TxnFail, Raise
  <2>. QED
    BY <1>13, <1>a, <2>1 DEF TxnFail
<1>14. CASE UNCHANGED vars
  BY <1>1, <1>14 DEF vars, writerVars
<1>. QED
  BY Steps, <1>2, <1>3, <1>4, <1>5, <1>7, <1>8, <1>9, <1>10, <1>11, <1>12, <1>13, <1>14

\* Nobody else appends between a writer's read of the head and its commit.
LEMMA HeldStep ==
  ASSUME TypeOK, Held, [Next]_vars
  PROVE  Held'
<1>. SUFFICES ASSUME NEW w \in Writers, pc'[w] = "commit"
              PROVE  /\ base'[w] = ChainHead'
                     /\ \A v \in Writers : pc'[v] = "commit" => v = w
  BY DEF Held
<1>1. ChainHead' = ChainHead
  BY CommitSteps DEF ChainHead
<1>. QED
  BY <1>1, CommitSteps DEF Held

\* A published head stays the record it named.
LEMMA PublishedStep ==
  ASSUME TypeOK, Chained, Held, Published, [Next]_vars
  PROVE  Published'
<1>1. /\ Len(chain) \in Nat /\ Len(chain') \in Nat /\ Len(chain) <= Len(chain')
      /\ \A k \in 1 .. Len(chain) : chain'[k] = chain[k]
  BY ChainGrows
<1>2. anchors' \subseteq anchors \cup {ChainHead}
  <2>1. CASE CallStep
    BY <2>1 DEF CallStep, Allocate, Begin, Finish, Lose, anchorVars
  <2>2. CASE \E i \in Ids : Report(i)
    BY <2>2 DEF Report, anchorVars
  <2>3. CASE Flush \/ AskAnchor \/ ReadHead \/ Close \/ Crash \/ Open \/ Opened \/ Anchor
    BY <2>3 DEF Flush, AskAnchor, ReadHead, Close, Crash, Open, ReadRows, Opened, Anchor,
       anchorVars
  <2>4. CASE \E w \in Writers : Seal(w) \/ TxnBegin(w) \/ TxnFail(w) \/ TxnCommit(w)
    BY <2>4 DEF Seal, TxnBegin, TxnFail, TxnCommit, anchorVars
  <2>5. CASE \E t \in Tasks : AfterCall(t)
    BY <2>5 DEF AfterCall
  <2>6. CASE \E o \in Operators : SealRun(o)
    BY <2>6 DEF SealRun, ReadRows, anchorVars
  <2>7. CASE UNCHANGED vars
    BY <2>7 DEF vars, anchorVars
  <2>. QED
    BY Steps, <2>1, <2>2, <2>3, <2>4, <2>5, <2>6, <2>7
<1>3. ChainHead # Head0 => /\ ChainHead.seq \in 1 .. Len(chain)
                           /\ chain[ChainHead.seq].hash = ChainHead.hash
  <2>. SUFFICES ASSUME ChainHead # Head0
                PROVE  /\ ChainHead.seq \in 1 .. Len(chain)
                       /\ chain[ChainHead.seq].hash = ChainHead.hash
    OBVIOUS
  <2>1. chain # <<>>
    BY DEF ChainHead
  <2>2. Len(chain) \in 1 .. Len(chain)
    BY <1>1, <2>1, LenProperties, EmptySeq DEF TypeOK
  <2>3. chain[Len(chain)].seq = Len(chain)
    BY <2>2 DEF Chained
  <2>4. /\ ChainHead.seq = chain[Len(chain)].seq
        /\ ChainHead.hash = chain[Len(chain)].hash
    BY <2>1 DEF ChainHead
  <2>. QED
    BY <2>2, <2>3, <2>4
<1>4. ASSUME NEW a \in anchors', a # Head0
      PROVE  a.seq \in 1 .. Len(chain') /\ chain'[a.seq].hash = a.hash
  <2>1. a.seq \in 1 .. Len(chain) /\ chain[a.seq].hash = a.hash
    BY <1>2, <1>3, <1>4 DEF Published
  <2>. QED
    BY <1>1, <2>1
<1>. QED
  BY <1>4 DEF Published, Head0, Genesis

\* What a writer is about to append is what it had, nothing, or the bodies of rows that
\* somebody read: its own view, or the ledger's completed rows.
LEMMA BodySteps ==
  ASSUME TypeOK, [Next]_vars, NEW w \in Writers
  PROVE  \/ bodies'[w] = bodies[w]
         \/ bodies'[w] = <<>>
         \/ \E ids \in SUBSET Ids : /\ \A i \in ids : view[w][i] # "none"
                                    /\ bodies'[w] = BodiesOf(ids, view[w])
         \/ \E ids \in SUBSET Complete : bodies'[w] = BodiesOf(ids, Rows)
<1>a. bodies \in [Writers -> Seq(Body)]
  BY DEF TypeOK
<1>1. CASE bodies' = bodies
  BY <1>1
<1>2. CASE CallStep
  BY <1>1, <1>2 DEF CallStep, Allocate, Begin, Finish, Lose, writerVars
<1>3. CASE \E i \in Ids : Report(i)
  BY <1>1, <1>3 DEF Report, writerVars
<1>4. CASE Flush \/ AskAnchor \/ ReadHead \/ Close \/ Open \/ Opened \/ Anchor
  BY <1>1, <1>4 DEF Flush, AskAnchor, ReadHead, Close, Open, ReadRows, Opened, Anchor, writerVars
<1>5. CASE \E v \in Writers : TxnBegin(v)
  BY <1>1, <1>5 DEF TxnBegin
<1>6. CASE Crash \/ \E v \in Writers : TxnFail(v) \/ TxnCommit(v)
  BY <1>a, <1>6 DEF Crash, TxnFail, TxnCommit
<1>7. ASSUME NEW v \in Writers, Seal(v)
      PROVE  \/ bodies'[w] = bodies[w]
             \/ \E ids \in SUBSET Ids : /\ \A i \in ids : view[w][i] # "none"
                                        /\ bodies'[w] = BodiesOf(ids, view[w])
  <2>1. PICK ids \in SUBSET Ids : /\ \A i \in ids : view[v][i] # "none"
                                  /\ bodies' = [bodies EXCEPT ![v] = BodiesOf(ids, view[v])]
    <3>1. PICK old \in SUBSET Settled(v) :
            bodies' = [bodies EXCEPT ![v] =
              BodiesOf({i \in Ids : /\ view[v][i] # "none"
                                    /\ NeedsSeal(i, view[v][i])
                                    /\ view[v][i] = "complete" \/ i \in old}, view[v])]
      BY <1>7 DEF Seal
    <3>. DEFINE due == {i \in Ids : /\ view[v][i] # "none"
                                    /\ NeedsSeal(i, view[v][i])
                                    /\ view[v][i] = "complete" \/ i \in old}
    <3>2. due \in SUBSET Ids /\ \A i \in due : view[v][i] # "none"
      OBVIOUS
    <3>3. bodies' = [bodies EXCEPT ![v] = BodiesOf(due, view[v])]
      BY <3>1
    <3>. HIDE DEF due
    <3>. QED
      BY <3>2, <3>3
  <2>. QED
    BY <1>a, <2>1
<1>8. ASSUME NEW t \in Tasks, AfterCall(t)
      PROVE  \/ bodies'[w] = bodies[w]
             \/ \E ids \in SUBSET Complete : bodies'[w] = BodiesOf(ids, Rows)
  <2>. DEFINE due == Fresh \cap Complete
  <2>1. bodies' = [bodies EXCEPT !["appender"] = BodiesOf(due, Rows)]
    BY <1>8 DEF AfterCall
  <2>2. due \in SUBSET Complete
    OBVIOUS
  <2>. HIDE DEF due
  <2>. QED
    BY <1>a, <2>1, <2>2
<1>9. CASE \E o \in Operators : SealRun(o)
  BY <1>1, <1>9 DEF SealRun, ReadRows
<1>10. CASE UNCHANGED vars
  BY <1>1, <1>10 DEF vars, writerVars
<1>. QED
  BY Steps, <1>2, <1>3, <1>4, <1>5, <1>6, <1>7, <1>8, <1>9, <1>10

\* A writer's view is what it was, nothing, or the rows as they are.
LEMMA ViewSteps ==
  ASSUME TypeOK, [Next]_vars, NEW w \in Writers
  PROVE  view'[w] = view[w] \/ view'[w] = NoView \/ view'[w] = Rows
<1>a. view \in [Writers -> [Ids -> {"none", "in_flight", "complete"}]]
  BY DEF TypeOK
<1>2. CASE CallStep
  BY <1>2 DEF CallStep, Allocate, Begin, Finish, Lose, writerVars
<1>3. CASE \E i \in Ids : Report(i)
  BY <1>3 DEF Report, writerVars
<1>4. CASE Flush \/ AskAnchor \/ ReadHead \/ Close \/ Opened \/ Anchor
  BY <1>4 DEF Flush, AskAnchor, ReadHead, Close, Opened, Anchor, writerVars
<1>5. CASE \E v \in Writers : TxnBegin(v) \/ TxnFail(v) \/ TxnCommit(v)
  BY <1>5 DEF TxnBegin, TxnFail, TxnCommit
<1>6. CASE Crash \/ \E v \in Writers : Seal(v)
  BY <1>a, <1>6 DEF Crash, Seal
<1>7. CASE Open \/ \E o \in Operators : SealRun(o)
  BY <1>a, <1>7 DEF Open, SealRun, ReadRows
<1>8. CASE \E t \in Tasks : AfterCall(t)
  BY <1>8 DEF AfterCall
<1>9. CASE UNCHANGED vars
  BY <1>9 DEF vars, writerVars
<1>. QED
  BY Steps, <1>2, <1>3, <1>4, <1>5, <1>6, <1>7, <1>8, <1>9

\* Whatever is sealed, about to be sealed or seen has been reached by its row.
LEMMA TruthfulStep ==
  ASSUME LastId \in Nat, TypeOK, Chained, Held, Truthful, [Next]_vars
  PROVE  Truthful'
<1>a. /\ row \in [Ids -> RowStates] /\ chain \in Seq(Record)
      /\ bodies \in [Writers -> Seq(Body)]
      /\ view \in [Writers -> [Ids -> {"none", "in_flight", "complete"}]]
  BY DEF TypeOK, Record
<1>b. \A i \in Ids : /\ Rows[i] # "none" => Reached(row, i, Rows[i])
                     /\ i \in Complete => Rows[i] = "complete"
  BY <1>a, Shows
<1>c. Complete \subseteq Ids
  BY <1>a, Shows
<1>1. \A i \in Ids : \A s : Reached(row, i, s) => Reached(row', i, s)
  BY ReachedStays
<1>2. ASSUME NEW w \in Writers, NEW k \in 1 .. Len(bodies[w])
      PROVE  /\ bodies[w][k].id \in Ids
             /\ Reached(row', bodies[w][k].id, bodies[w][k].state)
  <2>1. bodies[w][k] \in Body
    BY <1>a, ElementOfSeq
  <2>2. bodies[w][k].id \in Ids
    BY <2>1 DEF Body
  <2>3. Reached(row, bodies[w][k].id, bodies[w][k].state)
    BY DEF Truthful
  <2>. QED
    BY <1>1, <2>2, <2>3
<1>3. ASSUME NEW k \in 1 .. Len(chain)
      PROVE  Reached(row', chain[k].body.id, chain[k].body.state)
  <2>1. chain[k] \in Record
    BY <1>a, ElementOfSeq
  <2>2. chain[k].body.id \in Ids
    BY <2>1 DEF Record, Body
  <2>3. Reached(row, chain[k].body.id, chain[k].body.state)
    BY DEF Truthful
  <2>. QED
    BY <1>1, <2>2, <2>3
<1>4. ASSUME NEW k \in 1 .. Len(chain')
      PROVE  Reached(row', chain'[k].body.id, chain'[k].body.state)
  <2>1. CASE chain' = chain
    BY <1>3, <2>1
  <2>2. ASSUME NEW w \in Writers, pc[w] = "commit",
               chain' = chain \o Linked(base[w], bodies[w])
        PROVE  Reached(row', chain'[k].body.id, chain'[k].body.state)
    <3>. DEFINE n == Len(chain)
                m == Len(bodies[w])
    <3>1. /\ n \in Nat /\ m \in Nat /\ Len(chain') = n + m
          /\ \A j \in 1 .. n : chain'[j] = chain[j]
          /\ \A j \in 1 .. m : chain'[n + j].body = bodies[w][j]
      BY <2>2, CommitAppends
    <3>2. CASE k <= n
      <4>1. k \in 1 .. n /\ chain'[k] = chain[k]
        BY <3>1, <3>2
      <4>. QED
        BY <1>3, <4>1
    <3>3. CASE k > n
      <4>1. k - n \in 1 .. m /\ k = n + (k - n)
        BY <3>1, <3>3
      <4>2. chain'[k].body = bodies[w][k - n]
        BY <3>1, <4>1
      <4>. QED
        BY <1>2, <4>1, <4>2
    <3>. QED
      BY <3>1, <3>2, <3>3
  <2>. QED
    BY <2>1, <2>2, ChainSteps
<1>5. ASSUME NEW w \in Writers, NEW ids \in SUBSET Ids, NEW states,
             \A i \in ids : Reached(row, i, states[i]),
             NEW k \in 1 .. Len(BodiesOf(ids, states))
      PROVE  LET b == BodiesOf(ids, states)[k] IN Reached(row', b.id, b.state)
  <2>. DEFINE b == BodiesOf(ids, states)
  <2>1. DOMAIN b = 1 .. Cardinality(ids) /\ Cardinality(ids) \in Nat
    BY BodiesAre
  <2>2. Len(b) = Cardinality(ids)
    <3>1. \A i \in ids : states[i] \in {"in_flight", "complete"}
      BY <1>5 DEF Reached
    <3>2. b \in Seq(Body)
      BY <3>1, BodiesType
    <3>. QED
      BY <2>1, <3>2, LenProperties
  <2>3. PICK i \in ids : b[k] = [id |-> i, state |-> states[i]]
    BY <2>1, <2>2, BodiesAre
  <2>. HIDE DEF b
  <2>4. b[k].id = i /\ b[k].state = states[i] /\ i \in Ids /\ Reached(row', i, states[i])
    BY <1>1, <1>5, <2>3
  <2>. QED
    BY <2>4 DEF b
<1>6. ASSUME NEW w \in Writers, NEW k \in 1 .. Len(bodies'[w])
      PROVE  Reached(row', bodies'[w][k].id, bodies'[w][k].state)
  <2>1. CASE bodies'[w] = bodies[w]
    BY <1>2, <2>1
  <2>2. CASE bodies'[w] = <<>>
    BY <2>2
  <2>3. ASSUME NEW ids \in SUBSET Ids, \A i \in ids : view[w][i] # "none",
               bodies'[w] = BodiesOf(ids, view[w])
        PROVE  Reached(row', bodies'[w][k].id, bodies'[w][k].state)
    <3>. DEFINE states == view[w]
    <3>1. \A i \in ids : Reached(row, i, states[i])
      BY <2>3 DEF Truthful
    <3>2. bodies'[w] = BodiesOf(ids, states)
      BY <2>3
    <3>. HIDE DEF states
    <3>. QED
      BY <1>5, <3>1, <3>2
  <2>4. ASSUME NEW ids \in SUBSET Complete, bodies'[w] = BodiesOf(ids, Rows)
        PROVE  Reached(row', bodies'[w][k].id, bodies'[w][k].state)
    <3>1. ids \in SUBSET Ids /\ \A i \in ids : Reached(row, i, Rows[i])
      BY <1>b, <1>c
    <3>. QED
      BY <1>5, <2>4, <3>1
  <2>. QED
    BY <2>1, <2>2, <2>3, <2>4, BodySteps
<1>7. ASSUME NEW w \in Writers, NEW i \in Ids, view'[w][i] # "none"
      PROVE  Reached(row', i, view'[w][i])
  <2>1. CASE view'[w] = view[w]
    BY <1>1, <1>7, <2>1 DEF Truthful
  <2>2. CASE view'[w] = NoView
    BY <1>7, <2>2 DEF NoView
  <2>3. CASE view'[w] = Rows
    BY <1>1, <1>7, <1>b, <2>3
  <2>. QED
    BY <2>1, <2>2, <2>3, ViewSteps
<1>. QED
  BY <1>4, <1>6, <1>7 DEF Truthful

\* The newest record of a row that has one.
LEMMA Newest ==
  ASSUME TypeOK, NEW i \in Ids, LatestSealed(i) # "none"
  PROVE  \E k \in 1 .. Len(chain) : /\ chain[k].body.id = i
                                    /\ chain[k].body.state = LatestSealed(i)
                                    /\ \A j \in 1 .. Len(chain) :
                                         chain[j].body.id = i => j <= k
<1>. DEFINE S == RecordsOf(i)
            n == Len(chain)
<1>1. n \in Nat
  BY LenProperties DEF TypeOK
<1>2. S # {} /\ LatestSealed(i) = chain[Max(S)].body.state
  BY DEF LatestSealed
<1>3. S \in SUBSET (0 .. n) /\ \A j : j \in S <=> j \in 1 .. n /\ chain[j].body.id = i
  BY <1>1 DEF RecordsOf
<1>. HIDE DEF S
<1>4. Max(S) \in S /\ \A j \in S : j <= Max(S)
  BY <1>1, <1>2, <1>3, GreatestOf
<1>. QED
  BY <1>2, <1>3, <1>4

\* What verify compares is what LogInv says.
LEMMA NothingBroken ==
  ASSUME LogInv
  PROVE  VerifyClean
<1>. USE DEF LogInv
<1>a. row \in [Ids -> RowStates] /\ chain \in Seq(Record)
  BY DEF TypeOK, Record
<1>1. \A k \in 1 .. Len(chain) :
         /\ chain[k].seq = k /\ chain[k].prev = IF k = 1 THEN Genesis ELSE chain[k - 1].hash
         /\ Link(chain[k].prev, chain[k].body) = chain[k].hash
  BY DEF Chained, Before
<1>2. ASSUME NEW a \in anchors, a # Head0
      PROVE  ~(a.seq > Len(chain)) /\ chain[a.seq].hash = a.hash
  <2>1. Len(chain) \in Nat /\ a.seq \in 1 .. Len(chain) /\ chain[a.seq].hash = a.hash
    BY <1>a, <1>2, LenProperties DEF Published
  <2>. QED
    BY <2>1
<1>3. ASSUME NEW i \in Ids, LatestSealed(i) # "none"
      PROVE  Reached(row, i, LatestSealed(i))
  <2>1. PICK k \in 1 .. Len(chain) : /\ chain[k].body.id = i
                                     /\ chain[k].body.state = LatestSealed(i)
    BY <1>3, Newest
  <2>2. Reached(row, chain[k].body.id, chain[k].body.state)
    BY DEF Truthful
  <2>. QED
    BY <2>1, <2>2
<1>4. ASSUME NEW i \in Visible, LatestSealed(i) \notin {"none", Rows[i]}
      PROVE  LatestSealed(i) = "in_flight" /\ Rows[i] = "complete"
  <2>1. i \in Ids /\ Reached(row, i, LatestSealed(i)) /\ Rows[i] \in {"in_flight", "complete"}
    BY <1>a, <1>3, <1>4, Shows DEF Visible
  <2>2. Rows[i] = "complete" <=> row[i] = "complete"
    BY <1>a, <2>1, Shows
  <2>. QED
    BY <1>4, <2>1, <2>2 DEF Reached
<1>5. ASSUME NEW i \in Ids, LatestSealed(i) # "none"
      PROVE  i \in Visible
  <2>1. row[i] \in {"in_flight", "orphan", "complete"}
    BY <1>3, <1>5 DEF Reached
  <2>. QED
    BY <1>a, <2>1, Shows
<1>6. /\ {k \in 1 .. Len(chain) : chain[k].seq # k} = {}
      /\ {k \in 1 .. Len(chain) :
            chain[k].prev # IF k = 1 THEN Genesis ELSE chain[k - 1].hash} = {}
      /\ {k \in 1 .. Len(chain) : Link(chain[k].prev, chain[k].body) # chain[k].hash} = {}
  BY <1>1
<1>7. /\ {a \in anchors : a # Head0 /\ a.seq > Len(chain)} = {}
      /\ {a \in anchors : /\ a # Head0 /\ a.seq <= Len(chain)
                          /\ chain[a.seq].hash # a.hash} = {}
  BY <1>2
<1>8. /\ {i \in Visible : /\ LatestSealed(i) \notin {"none", Rows[i]}
                          /\ ~(LatestSealed(i) = "in_flight" /\ Rows[i] = "complete")} = {}
      /\ {i \in Ids : LatestSealed(i) # "none" /\ i \notin Visible} = {}
  BY <1>4, <1>5
<1>. QED
  BY <1>6, <1>7, <1>8 DEF VerifyClean, Breaks

\* The empty log.
LEMMA LogInit ==
  ASSUME ConstantsAssumption, Init
  PROVE  LogInv
<1>. USE DEF ConstantsAssumption
<1>1. /\ <<>> \in Seq(Body) /\ <<>> \in Seq(Record) /\ Len(<<>>) = 0
      /\ Head0 \in [seq : Nat, hash : Hash]
  BY EmptySeq DEF Head0, Genesis, Hash
<1>2. TypeOK
  <2>1. /\ row \in [Ids -> RowStates]
        /\ view \in [Writers -> [Ids -> {"none", "in_flight", "complete"}]]
    BY DEF Init, RowStates, NoView
  <2>2. /\ bodies \in [Writers -> Seq(Body)]
        /\ base \in [Writers -> [seq : Nat, hash : Hash]]
        /\ chain \in Seq(Record)
    BY <1>1 DEF Init
  <2>3. pc \in [Writers -> Pcs]
    BY DEF Init, Pcs
  <2>4. /\ flushes = 0 /\ watermark = 0 /\ faults = 0
        /\ reported = {} /\ pending = {} /\ anchors = {} /\ owed = {}
        /\ scheduled = FALSE /\ opened = FALSE /\ task = "final"
        /\ closing = "no" /\ anchoring = "no"
    BY Zenon DEF Init
  <2>5. flushes \in 0 .. LastId /\ watermark \in 0 .. LastId /\ faults \in 0 .. MaxFaults
    BY <2>4
  <2>6. scheduled \in BOOLEAN /\ opened \in BOOLEAN /\ task \in Tasks
    BY <2>4, Zenon DEF Tasks
  <2>. QED
    BY <2>1, <2>2, <2>3, <2>4, <2>5, <2>6 DEF TypeOK, Record, Pcs
<1>3. Counted
  <2>1. Cardinality({}) = 0
    BY FS_EmptySet
  <2>. QED
    BY <2>1 DEF Init, Counted
<1>4. Chained /\ Published
  BY <1>1 DEF Init, Chained, Published
<1>5. Held
  BY DEF Init, Held
<1>6. Truthful
  BY <1>1 DEF Init, Truthful, NoView
<1>. QED
  BY <1>2, <1>3, <1>4, <1>5, <1>6 DEF LogInv

\* Every step, and a step of others, keeps it.
LEMMA LogStep ==
  ASSUME ConstantsAssumption, LogInv, [Next]_vars
  PROVE  LogInv'
<1>1. TypeOK' /\ Counted'
  BY TypesStep, CountedStep DEF LogInv
<1>2. Chained' /\ Held' /\ Published'
  BY ChainedStep, HeldStep, PublishedStep DEF LogInv
<1>3. Truthful'
  BY TruthfulStep DEF LogInv, ConstantsAssumption
<1>. QED
  BY <1>1, <1>2, <1>3 DEF LogInv

\* LogInv holds in every reachable state, whatever the constants.
THEOREM LogInvariance ==
  ASSUME ConstantsAssumption
  PROVE  Spec => []LogInv
<1>1. Init => LogInv
  BY LogInit
<1>2. LogInv /\ [Next]_vars => LogInv'
  BY LogStep
<1>. QED
  BY <1>1, <1>2, PTL DEF Spec

(* An honest ledger never verifies as tampered with: whoever appends, in    *)
(* whatever order, with crashes and failed appends between any two steps,   *)
(* verify (audit/chain.py) finds no break, whatever the number of rows,     *)
(* operators, faults and anchors.                                           *)
THEOREM HonestLedgerVerifies ==
  ASSUME ConstantsAssumption
  PROVE  Spec => []VerifyClean
<1>1. LogInv => VerifyClean
  BY NothingBroken
<1>. QED
  BY <1>1, LogInvariance, PTL

-----------------------------------------------------------------------------
(* The proxy's memory: TrackInv.                                           *)

\* The steps of a proxy that nobody is beside.
LEMMA AloneSteps ==
  ASSUME Alone, RowsInOrder, Next
  PROVE  \/ \E i \in Ids : Begin(i) \/ Finish(i) \/ Report(i)
         \/ Flush \/ AskAnchor \/ ReadHead \/ Close \/ Crash \/ Open \/ Opened \/ Anchor
         \/ Seal("appender") \/ TxnBegin("appender") \/ TxnCommit("appender")
         \/ \E t \in Tasks : AfterCall(t)
<1>1. Writers = {"appender"}
  BY DEF Writers, Alone
<1>2. CASE CallStep
  BY <1>2 DEF CallStep, Alone, Allocate, Lose
<1>3. CASE \E w \in Writers : TxnFail(w)
  BY <1>3 DEF Alone, TxnFail
<1>4. CASE \E o \in Operators : SealRun(o)
  BY <1>4 DEF Alone
<1>. QED
  BY Steps, <1>1, <1>2, <1>3, <1>4

\* How the next state's rows are shown.
LEMMA ShowsNext ==
  ASSUME row' \in [Ids -> RowStates]
  PROVE  /\ Visible' \subseteq Ids /\ Complete' \subseteq Ids /\ Complete' \subseteq Visible'
         /\ \A i \in Ids : /\ i \in Visible' <=> row'[i] \in {"in_flight", "orphan", "complete"}
                           /\ i \in Complete' <=> row'[i] = "complete"
BY DEF Rows, Visible, Complete, Shown, RowStates

\* What the appender has to append, and what is sealed, while neither changes.
LEMMA CoverStays ==
  ASSUME chain' = chain, bodies'["appender"] = bodies["appender"]
  PROVE  \A i : /\ SealedComplete(i)' <=> SealedComplete(i)
                /\ OnItsWay(i)' <=> OnItsWay(i)
                /\ Covered(i)' <=> Covered(i)
BY DEF SealedComplete, OnItsWay, Covered

\* A step that changes neither the rows nor the appender nor the log.
LEMMA TrackQuiet ==
  ASSUME TrackInv,
         UNCHANGED <<row, opened, closing, task, pc, view, bodies, pending, watermark, chain,
                     anchoring, owed>>
  PROVE  TrackInv'
<1>1. Complete' = Complete /\ Visible' = Visible /\ Rows' = Rows /\ Appending' = Appending
  BY DEF Complete, Visible, Rows, Appending
<1>2. \A i : (SealedComplete(i)' <=> SealedComplete(i)) /\ (Covered(i)' <=> Covered(i))
  BY CoverStays
<1>3. RowsInOrder' /\ Places' /\ News' /\ OneRecordPerChange' /\ NotSealedYet'
  BY <1>1 DEF TrackInv, RowsInOrder, Places, News, OneRecordPerChange, NotSealedYet
<1>4. Opening'
  BY <1>1, <1>2 DEF TrackInv, Opening
<1>5. Remembered'
  BY <1>1, <1>2 DEF TrackInv, Remembered
<1>6. AskedFor'
  BY <1>1, <1>2 DEF TrackInv, AskedFor
<1>. QED
  BY <1>3, <1>4, <1>5, <1>6 DEF TrackInv

\* A call begins: its id is above the watermark, and nothing is sealed of it.
LEMMA TrackBegin ==
  ASSUME Alone, TypeOK, TypeOK', TrackInv, NEW b \in Ids, Begin(b)
  PROVE  TrackInv'
<1>. USE DEF TrackInv
<1>1. /\ opened /\ closing = "no" /\ row[b] = "none"
      /\ \A j \in Ids : j < b => row[j] # "none"
      /\ row' = [row EXCEPT ![b] = "in_flight"]
      /\ UNCHANGED <<opened, closing, task, pc, view, bodies, pending, watermark, chain,
                     anchoring, owed>>
  BY DEF Begin, Alone, Serving, RowsInOrder, serverVars, appenderVars, writerVars, anchorVars
<1>2. row \in [Ids -> RowStates] /\ row' \in [Ids -> RowStates]
  BY DEF TypeOK
<1>3. \A i \in Ids : /\ i # b => row'[i] = row[i]
                     /\ row'[b] = "in_flight"
  BY <1>1, <1>2
<1>4. /\ Complete' = Complete
      /\ \A i \in Visible' : i \in Visible \/ i = b
      /\ b \notin Visible
  BY <1>1, <1>2, <1>3, Shows, ShowsNext
<1>5. /\ Appending' = Appending
      /\ \A i : (SealedComplete(i)' <=> SealedComplete(i)) /\ (Covered(i)' <=> Covered(i))
  BY <1>1, CoverStays DEF Appending
<1>6. RowsInOrder'
  BY <1>1, <1>3 DEF RowsInOrder
<1>7. Places' /\ News' /\ OneRecordPerChange' /\ NotSealedYet' /\ Opening'
  BY <1>1, <1>5 DEF Places, News, OneRecordPerChange, NotSealedYet, Opening
<1>8. Remembered'
  <2>1. b > watermark
    <3>1. ~(b <= watermark) /\ b \in Nat /\ watermark \in Nat
      BY <1>1 DEF Remembered, TypeOK, Ids
    <3>. QED
      BY <3>1
  <2>2. \A i \in Ids : i <= watermark => row'[i] # "none"
    BY <1>1, <1>3 DEF Remembered
  <2>3. \A i \in Visible' : i > watermark' \/ i \in pending' \/ Covered(i)'
    BY <1>1, <1>4, <1>5, <2>1 DEF Remembered
  <2>. QED
    BY <1>1, <2>2, <2>3 DEF Remembered
<1>9. AskedFor'
  BY <1>1, <1>4, <1>5 DEF AskedFor
<1>. QED
  BY <1>6, <1>7, <1>8, <1>9

\* A call ends: its row is pending, above the watermark or covered, as before.
LEMMA TrackFinish ==
  ASSUME Alone, TypeOK, TypeOK', TrackInv, NEW b \in Ids, Finish(b)
  PROVE  TrackInv'
<1>. USE DEF TrackInv
<1>1. /\ opened /\ closing = "no" /\ row[b] = "in_flight"
      /\ row' = [row EXCEPT ![b] = "complete"]
      /\ UNCHANGED <<opened, closing, task, pc, view, bodies, pending, watermark, chain,
                     anchoring, owed>>
  BY DEF Finish, Alone, Serving, serverVars, appenderVars, writerVars, anchorVars
<1>2. row \in [Ids -> RowStates] /\ row' \in [Ids -> RowStates]
  BY DEF TypeOK
<1>3. \A i \in Ids : /\ i # b => row'[i] = row[i]
                     /\ row'[b] = "complete"
  BY <1>1, <1>2
<1>4. Complete \subseteq Complete' /\ Visible' \subseteq Visible
  BY <1>1, <1>2, <1>3, Shows, ShowsNext
<1>5. /\ Appending' = Appending
      /\ \A i : (SealedComplete(i)' <=> SealedComplete(i)) /\ (Covered(i)' <=> Covered(i))
  BY <1>1, CoverStays DEF Appending
<1>6. RowsInOrder'
  BY <1>1, <1>3 DEF RowsInOrder
<1>7. Places' /\ News' /\ OneRecordPerChange' /\ NotSealedYet' /\ Opening'
  BY <1>1, <1>5 DEF Places, News, OneRecordPerChange, NotSealedYet, Opening
<1>8. Remembered'
  BY <1>1, <1>3, <1>4, <1>5 DEF Remembered
<1>9. AskedFor'
  BY <1>1, <1>4, <1>5 DEF AskedFor
<1>. QED
  BY <1>6, <1>7, <1>8, <1>9

\* /audit/head and the stop are asked for while no append that they wait for is under way.
LEMMA TrackAsk ==
  ASSUME Alone, TypeOK, TrackInv, AskAnchor \/ Close \/ Anchor
  PROVE  TrackInv'
<1>. USE DEF TrackInv
<1>1. /\ opened
      /\ UNCHANGED <<row, opened, task, pc, view, bodies, pending, watermark, chain>>
  BY DEF AskAnchor, Close, Anchor, ledgerVars, serverVars, appenderVars, writerVars
<1>2. Complete' = Complete /\ Visible' = Visible /\ Rows' = Rows /\ Appending' = Appending
  BY <1>1 DEF Complete, Visible, Rows, Appending
<1>3. \A i : (SealedComplete(i)' <=> SealedComplete(i)) /\ (Covered(i)' <=> Covered(i))
  BY <1>1, CoverStays
<1>4. RowsInOrder' /\ Places' /\ News' /\ OneRecordPerChange' /\ NotSealedYet' /\ Opening'
  BY <1>1, <1>2 DEF RowsInOrder, Places, News, OneRecordPerChange, NotSealedYet, Opening
<1>5. Remembered'
  BY <1>1, <1>2, <1>3 DEF Remembered
<1>6. AskedFor'
  <2>1. CASE AskAnchor
    <3>1. anchoring = "no" /\ anchoring' = "asked" /\ owed' = Complete /\ closing' = closing
      BY <2>1 DEF AskAnchor, serverVars
    <3>. QED
      BY <1>1, <1>2, <1>3, <3>1 DEF AskedFor
  <2>2. CASE Close
    <3>1. pc["appender"] = "idle" /\ anchoring' = anchoring /\ owed' = owed
      BY <2>2 DEF Close, anchorVars
    <3>2. ~Appending
      BY <3>1 DEF Appending
    <3>. QED
      BY <1>1, <1>2, <1>3, <3>1, <3>2 DEF AskedFor
  <2>3. CASE Anchor
    <3>1. pc["appender"] = "idle" /\ anchoring' = "no" /\ owed' = {}
      BY <2>3 DEF Anchor
    <3>2. ~Appending
      BY <3>1 DEF Appending
    <3>. QED
      BY <1>2, <3>1, <3>2 DEF AskedFor
  <2>. QED
    BY <2>1, <2>2, <2>3
<1>. QED
  BY <1>4, <1>5, <1>6

\* A crash forgets everything but the rows and the log.
LEMMA TrackCrash ==
  ASSUME Alone, TypeOK, TypeOK', TrackInv, Crash
  PROVE  TrackInv'
<1>. USE DEF TrackInv
<1>1. /\ row' = [i \in Ids |-> IF row[i] = "in_flight" THEN "orphan" ELSE row[i]]
      /\ ~opened' /\ pc' = [pc EXCEPT !["appender"] = "down"]
      /\ bodies' = [bodies EXCEPT !["appender"] = <<>>]
      /\ anchoring' = "no" /\ owed' = {} /\ chain' = chain
  BY DEF Crash, Alone
<1>2. row \in [Ids -> RowStates] /\ "appender" \in Writers
  BY DEF TypeOK, Writers
<1>3. pc'["appender"] = "down" /\ bodies'["appender"] = <<>> /\ Len(<<>>) = 0
  BY <1>1, <1>2, EmptySeq DEF TypeOK
<1>4. ~Appending'
  BY <1>3 DEF Appending
<1>5. \A i \in Ids : /\ row'[i] # "allocated"
                     /\ row'[i] = "none" <=> row[i] = "none"
  BY <1>1, <1>2 DEF RowsInOrder
<1>6. RowsInOrder'
  BY <1>5 DEF RowsInOrder
<1>7. Places' /\ Opening' /\ Remembered' /\ NotSealedYet' /\ AskedFor'
  BY <1>1, <1>3, <1>4 DEF Places, Opening, Remembered, NotSealedYet, AskedFor
<1>8. News' /\ OneRecordPerChange'
  BY <1>1, <1>3 DEF News, OneRecordPerChange
<1>. QED
  BY <1>6, <1>7, <1>8

\* The appender reads the ledger before it opens.
LEMMA TrackOpen ==
  ASSUME Alone, TypeOK, TrackInv, Open
  PROVE  TrackInv'
<1>. USE DEF TrackInv
<1>1. /\ pc["appender"] \in {"down", "stopped"}
      /\ view' = [view EXCEPT !["appender"] = Rows]
      /\ pc' = [pc EXCEPT !["appender"] = "read"]
      /\ UNCHANGED <<row, opened, closing, task, bodies, pending, watermark, chain,
                     anchoring, owed>>
  BY DEF Open, ReadRows, ledgerVars, serverVars, appenderVars, anchorVars
<1>2. /\ pc'["appender"] = "read" /\ view'["appender"] = Rows /\ "appender" \in Writers
      /\ ~opened
  BY <1>1 DEF TypeOK, Writers, Places
<1>3. /\ Complete' = Complete /\ Visible' = Visible /\ Rows' = Rows
      /\ ~Appending /\ ~Appending'
  BY <1>1, <1>2 DEF Complete, Visible, Rows, Appending
<1>4. \A i : (SealedComplete(i)' <=> SealedComplete(i)) /\ (Covered(i)' <=> Covered(i))
  BY <1>1, CoverStays
<1>5. RowsInOrder' /\ News' /\ OneRecordPerChange'
  BY <1>1 DEF RowsInOrder, News, OneRecordPerChange
<1>6. Places' /\ Opening' /\ Remembered' /\ NotSealedYet'
  BY <1>1, <1>2, <1>3 DEF Places, Opening, Remembered, NotSealedYet
<1>7. AskedFor'
  BY <1>1, <1>2, <1>3, <1>4 DEF AskedFor
<1>. QED
  BY <1>5, <1>6, <1>7

\* A transaction begins.
LEMMA TrackTxnBegin ==
  ASSUME Alone, TypeOK, TrackInv, TxnBegin("appender")
  PROVE  TrackInv'
<1>. USE DEF TrackInv
<1>1. /\ pc["appender"] = "append" /\ pc' = [pc EXCEPT !["appender"] = "commit"]
      /\ UNCHANGED <<row, opened, closing, task, view, bodies, pending, watermark, chain,
                     anchoring, owed>>
  BY DEF TxnBegin, ledgerVars, serverVars, appenderVars, anchorVars
<1>2. pc'["appender"] = "commit" /\ "appender" \in Writers
  BY <1>1 DEF TypeOK, Writers
<1>3. /\ Complete' = Complete /\ Visible' = Visible /\ Rows' = Rows
      /\ Appending /\ Appending'
  BY <1>1, <1>2 DEF Complete, Visible, Rows, Appending
<1>4. \A i : (SealedComplete(i)' <=> SealedComplete(i)) /\ (Covered(i)' <=> Covered(i))
  BY <1>1, CoverStays
<1>5. RowsInOrder' /\ News' /\ OneRecordPerChange' /\ NotSealedYet'
  BY <1>1 DEF RowsInOrder, News, OneRecordPerChange, NotSealedYet
<1>6. Places'
  BY <1>1, <1>2, <1>3 DEF Places
<1>7. Opening'
  BY <1>1, <1>2, <1>3, <1>4 DEF Opening
<1>8. Remembered'
  BY <1>1, <1>3, <1>4 DEF Remembered
<1>9. AskedFor'
  BY <1>1, <1>3, <1>4 DEF AskedFor
<1>. QED
  BY <1>5, <1>6, <1>7, <1>8, <1>9

\* Opened: the completed rows are sealed, and those in flight are pending.
LEMMA TrackOpened ==
  ASSUME LastId \in Nat, Alone, TypeOK, Truthful, TrackInv, Opened
  PROVE  TrackInv'
<1>. USE DEF TrackInv
<1>1. /\ pc["appender"] = "sealed" /\ opened'
      /\ pending' = {i \in Visible : Rows[i] = "in_flight"}
      /\ watermark' = Max(Visible \cup {0})
      /\ pc' = [pc EXCEPT !["appender"] = "idle"]
      /\ UNCHANGED <<row, closing, task, bodies, chain, anchoring, owed>>
  BY DEF Opened, ledgerVars, anchorVars
<1>2. pc'["appender"] = "idle" /\ "appender" \in Writers /\ ~opened
  BY <1>1 DEF TypeOK, Writers, Places
<1>3. /\ Complete' = Complete /\ Visible' = Visible /\ ~Appending /\ ~Appending'
  BY <1>1, <1>2 DEF Complete, Visible, Rows, Appending
<1>4. \A i : (SealedComplete(i)' <=> SealedComplete(i)) /\ (Covered(i)' <=> Covered(i))
  BY <1>1, CoverStays
<1>5. \A i \in Complete : SealedComplete(i) /\ Covered(i)
  BY <1>1, <1>2 DEF Opening, Covered
<1>6. /\ Visible \subseteq Ids
      /\ \A i \in Ids : /\ i \in Visible <=> row[i] \in {"in_flight", "orphan", "complete"}
                        /\ i \in Complete <=> row[i] = "complete"
                        /\ Rows[i] = "complete" <=> row[i] = "complete"
                        /\ Rows[i] \in {"none", "in_flight", "complete"}
                        /\ i \in Visible => Rows[i] # "none"
  BY Shows DEF TypeOK, Visible
<1>7. /\ watermark' \in Visible \cup {0} /\ watermark' \in 0 .. LastId
      /\ \A i \in Visible : i <= watermark'
  <2>1. Visible \in SUBSET Ids /\ 0 \in 0 .. LastId
    BY <1>6
  <2>2. /\ Max(Visible \cup {0}) \in Visible \cup {0}
        /\ Max(Visible \cup {0}) \in 0 .. LastId
        /\ \A i \in Visible : i <= Max(Visible \cup {0})
    BY <2>1, LargestSeen
  <2>. QED
    BY <1>1, <2>2
<1>8. RowsInOrder' /\ News' /\ OneRecordPerChange'
  BY <1>1 DEF RowsInOrder, News, OneRecordPerChange
<1>9. Places' /\ Opening'
  BY <1>1, <1>2, <1>3 DEF Places, Opening
<1>10. Remembered'
  <2>1. ASSUME NEW i \in Ids, i <= watermark'
        PROVE  row'[i] # "none"
    <3>1. watermark' \in Visible /\ watermark' \in Ids /\ row[watermark'] # "none"
      BY <1>6, <1>7, <2>1 DEF Ids
    <3>2. i = watermark' \/ i < watermark'
      BY <2>1, <1>7 DEF Ids
    <3>. QED
      BY <1>1, <3>1, <3>2 DEF RowsInOrder
  <2>2. \A i \in pending' : i <= watermark'
    BY <1>1, <1>7
  <2>3. \A i \in Visible' : i \in pending' \/ Covered(i)'
    BY <1>1, <1>3, <1>4, <1>5, <1>6
  <2>. QED
    BY <2>1, <2>2, <2>3 DEF Remembered
<1>11. NotSealedYet'
  <2>1. ASSUME NEW k \in 1 .. Len(chain)
        PROVE  /\ chain[k].body.id <= watermark'
               /\ chain[k].body.state = "complete" => chain[k].body.id \notin pending'
    <3>1. chain[k].body.id \in Ids
      <4>1. chain[k] \in Record
        BY ElementOfSeq DEF TypeOK, Record
      <4>. QED
        BY <4>1 DEF Record, Body
    <3>2. Reached(row, chain[k].body.id, chain[k].body.state)
      BY DEF Truthful
    <3>. DEFINE i == chain[k].body.id
                s == chain[k].body.state
    <3>3. i \in Ids /\ Reached(row, i, s)
      BY <3>1, <3>2
    <3>. HIDE DEF i, s
    <3>4. i \in Visible /\ (s = "complete" => Rows[i] = "complete")
      BY <1>6, <3>3 DEF Reached
    <3>5. i <= watermark' /\ (s = "complete" => i \notin pending')
      BY <1>1, <1>7, <3>4
    <3>. QED
      BY <3>5 DEF i, s
  <2>2. Len(bodies'["appender"]) = 0
    BY <1>1, <1>3, EmptySeq DEF Places
  <2>3. ~ \E k \in 1 .. Len(bodies'["appender"]) : TRUE
    BY <2>2
  <2>. QED
    BY <1>1, <2>1, <2>3 DEF NotSealedYet
<1>12. AskedFor'
  BY <1>1, <1>3, <1>4 DEF AskedFor
<1>. QED
  BY <1>8, <1>9, <1>10, <1>11, <1>12

\* The newest record of a row says complete just when some record does.
LEMMA NewestOutcome ==
  ASSUME TypeOK, OneRecordPerChange, NEW i \in Ids
  PROVE  /\ LatestSealed(i) = "complete" <=> SealedComplete(i)
         /\ LatestSealed(i) = "none" <=> RecordsOf(i) = {}
<1>1. \A k \in 1 .. Len(chain) : /\ chain[k].body \in Body
                                 /\ chain[k].body.state \in {"in_flight", "complete"}
                                 /\ chain[k].body.id = i /\ chain[k].body.state = "complete"
                                      => chain[k].body = [id |-> i, state |-> "complete"]
  <2>. SUFFICES ASSUME NEW k \in 1 .. Len(chain)
                PROVE  /\ chain[k].body \in Body
                       /\ chain[k].body.state \in {"in_flight", "complete"}
                       /\ chain[k].body.id = i /\ chain[k].body.state = "complete"
                                      => chain[k].body = [id |-> i, state |-> "complete"]
    OBVIOUS
  <2>1. chain[k] \in Record
    BY ElementOfSeq DEF TypeOK, Record
  <2>2. chain[k].body \in Body
    BY <2>1 DEF Record
  <2>. QED
    BY <2>2 DEF Body
<1>2. LatestSealed(i) = "none" <=> RecordsOf(i) = {}
  <2>. DEFINE S == RecordsOf(i)
              n == Len(chain)
  <2>1. ASSUME S # {}
        PROVE  LatestSealed(i) # "none"
    <3>1. n \in Nat
      BY LenProperties DEF TypeOK
    <3>2. S \in SUBSET (0 .. n) /\ S \subseteq 1 .. n
      BY <3>1 DEF RecordsOf
    <3>3. LatestSealed(i) = chain[Max(S)].body.state
      BY <2>1 DEF LatestSealed
    <3>. HIDE DEF S
    <3>4. Max(S) \in 1 .. n
      BY <2>1, <3>1, <3>2, GreatestOf
    <3>. QED
      BY <1>1, <3>3, <3>4
  <2>2. S = {} => LatestSealed(i) = "none"
    BY DEF LatestSealed
  <2>. QED
    BY <2>1, <2>2
<1>3. ASSUME LatestSealed(i) = "complete"
      PROVE  SealedComplete(i)
  <2>1. PICK k \in 1 .. Len(chain) : chain[k].body.id = i /\ chain[k].body.state = "complete"
    BY <1>3, Newest
  <2>. QED
    BY <1>1, <2>1 DEF SealedComplete
<1>4. ASSUME SealedComplete(i)
      PROVE  LatestSealed(i) = "complete"
  <2>1. PICK k \in 1 .. Len(chain) : chain[k].body = [id |-> i, state |-> "complete"]
    BY <1>4 DEF SealedComplete
  <2>2. chain[k].body.id = i /\ chain[k].body.state = "complete"
    BY <2>1
  <2>3. LatestSealed(i) # "none"
    <3>1. k \in RecordsOf(i)
      BY <2>2 DEF RecordsOf
    <3>. QED
      BY <1>2, <3>1
  <2>4. PICK m \in 1 .. Len(chain) : /\ chain[m].body.id = i
                                    /\ chain[m].body.state = LatestSealed(i)
                                    /\ k <= m
    BY <2>2, <2>3, Newest
  <2>5. k = m
    <3>1. ~(k < m)
      BY <2>2, <2>4 DEF OneRecordPerChange
    <3>. QED
      BY <2>4, <3>1, LenProperties DEF TypeOK
  <2>. QED
    BY <2>2, <2>4, <2>5
<1>. QED
  BY <1>2, <1>3, <1>4

\* b holds one body for each of ids, as states shows it, and nothing else.
HoldsBodies(b, ids, states) ==
  /\ b \in Seq(Body)
  /\ \A k \in 1 .. Len(b) : b[k].id \in ids /\ b[k].state = states[b[k].id]
  /\ \A i \in ids : \E k \in 1 .. Len(b) : b[k].id = i
  /\ \A j, k \in 1 .. Len(b) : j < k => b[j].id # b[k].id
  /\ ids = {} => b = <<>>

\* The bodies of a set of ids are that.
LEMMA BodiesSeq ==
  ASSUME LastId \in Nat, NEW ids \in SUBSET Ids, NEW states,
         \A i \in ids : states[i] \in {"in_flight", "complete"},
         NEW b, b = BodiesOf(ids, states)
  PROVE  HoldsBodies(b, ids, states)
<1>1. b \in Seq(Body)
  BY BodiesType
<1>2. /\ DOMAIN b = 1 .. Cardinality(ids) /\ Cardinality(ids) \in Nat
      /\ \A k \in DOMAIN b : \E i \in ids : b[k] = [id |-> i, state |-> states[i]]
      /\ \A i \in ids : \E k \in DOMAIN b : b[k] = [id |-> i, state |-> states[i]]
      /\ \A j, k \in DOMAIN b : b[j].id = b[k].id => j = k
  BY BodiesAre
<1>3. DOMAIN b = 1 .. Len(b) /\ Len(b) = Cardinality(ids)
  BY <1>1, <1>2, LenProperties
<1>4. ASSUME NEW k \in 1 .. Len(b)
      PROVE  b[k].id \in ids /\ b[k].state = states[b[k].id]
  <2>1. PICK i \in ids : b[k] = [id |-> i, state |-> states[i]]
    BY <1>2, <1>3
  <2>. QED
    BY <2>1
<1>5. \A j, k \in 1 .. Len(b) : j < k => b[j].id # b[k].id
  BY <1>2, <1>3
<1>6. ids = {} => b = <<>>
  <2>. SUFFICES ASSUME ids = {} PROVE b = <<>>
    OBVIOUS
  <2>1. Len(b) = 0
    BY <1>3, FS_EmptySet
  <2>. QED
    BY <1>1, <2>1, EmptySeq
<1>7. ASSUME NEW i \in ids
      PROVE  \E k \in 1 .. Len(b) : b[k].id = i
  <2>1. PICK k \in 1 .. Len(b) : b[k] = [id |-> i, state |-> states[i]]
    BY <1>2, <1>3
  <2>2. b[k].id = i
    BY <2>1
  <2>. QED
    BY <2>2
<1>. QED
  BY <1>1, <1>4, <1>5, <1>6, <1>7 DEF HoldsBodies

\* The opening seal appends what the newest records do not say yet.
LEMMA TrackSeal ==
  ASSUME LastId \in Nat, Alone, TypeOK, Truthful, TrackInv, Seal("appender")
  PROVE  TrackInv'
<1>. USE DEF TrackInv
<1>1. /\ pc["appender"] = "read" /\ view["appender"] = Rows /\ ~opened /\ "appender" \in Writers
      /\ bodies["appender"] = <<>>
      /\ UNCHANGED <<row, opened, closing, task, pending, watermark, chain, anchoring, owed>>
  <2>1. pc["appender"] = "read"
    BY DEF Seal
  <2>2. ~opened /\ ~Appending
    BY <2>1 DEF Places, Appending
  <2>. QED
    BY <2>1, <2>2 DEF Seal, Places, Opening, Writers, ledgerVars, serverVars, appenderVars,
       anchorVars
<1>2. /\ Rows \in [Ids -> {"none", "in_flight", "complete"}]
      /\ Complete \subseteq Ids
      /\ \A i \in Ids : /\ i \in Complete <=> row[i] = "complete"
                        /\ Rows[i] = "complete" <=> row[i] = "complete"
  BY Shows DEF TypeOK
<1>3. PICK due \in SUBSET Ids :
         /\ \A i \in due : /\ Rows[i] \in {"in_flight", "complete"}
                           /\ LatestSealed(i) # Rows[i]
         /\ \A i \in Ids : Rows[i] = "complete" /\ LatestSealed(i) # "complete" => i \in due
         /\ bodies' = [bodies EXCEPT !["appender"] = BodiesOf(due, Rows)]
         /\ pc' = [pc EXCEPT !["appender"] = IF due = {} THEN "sealed" ELSE "append"]
  <2>1. PICK old \in SUBSET Settled("appender") :
          LET due == {i \in Ids : /\ view["appender"][i] # "none"
                                  /\ NeedsSeal(i, view["appender"][i])
                                  /\ view["appender"][i] = "complete" \/ i \in old}
          IN  /\ bodies' = [bodies EXCEPT !["appender"] = BodiesOf(due, view["appender"])]
              /\ pc' = [pc EXCEPT !["appender"] = IF due = {} THEN AfterSeal("appender")
                                                  ELSE "append"]
    BY DEF Seal
  <2>. DEFINE due == {i \in Ids : /\ Rows[i] # "none"
                                  /\ NeedsSeal(i, Rows[i])
                                  /\ Rows[i] = "complete" \/ i \in old}
  <2>2. due = {i \in Ids : /\ view["appender"][i] # "none"
                           /\ NeedsSeal(i, view["appender"][i])
                           /\ view["appender"][i] = "complete" \/ i \in old}
    BY <1>1
  <2>3. /\ bodies' = [bodies EXCEPT !["appender"] = BodiesOf(due, Rows)]
        /\ pc' = [pc EXCEPT !["appender"] = IF due = {} THEN "sealed" ELSE "append"]
    BY <1>1, <2>1, <2>2 DEF AfterSeal
  <2>4. /\ due \in SUBSET Ids
        /\ \A i \in due : /\ Rows[i] \in {"in_flight", "complete"}
                          /\ LatestSealed(i) # Rows[i]
        /\ \A i \in Ids : Rows[i] = "complete" /\ LatestSealed(i) # "complete" => i \in due
    BY <1>2 DEF NeedsSeal
  <2>. HIDE DEF due
  <2>. QED
    BY <2>3, <2>4
<1>. DEFINE b == BodiesOf(due, Rows)
<1>4. /\ b \in Seq(Body)
      /\ \A k \in 1 .. Len(b) : b[k].id \in due /\ b[k].state = Rows[b[k].id]
      /\ \A i \in due : \E k \in 1 .. Len(b) : b[k].id = i
      /\ \A j, k \in 1 .. Len(b) : j < k => b[j].id # b[k].id
      /\ due = {} => b = <<>>
  <2>1. b = BodiesOf(due, Rows) /\ \A i \in due : Rows[i] \in {"in_flight", "complete"}
    BY <1>3
  <2>. HIDE DEF b
  <2>2. HoldsBodies(b, due, Rows)
    BY <2>1, BodiesSeq
  <2>. QED
    BY <2>2 DEF HoldsBodies
<1>5. bodies'["appender"] = b
  BY <1>1, <1>3 DEF TypeOK
<1>. HIDE DEF b
<1>6. pc'["appender"] = IF due = {} THEN "sealed" ELSE "append"
  BY <1>1, <1>3 DEF TypeOK
<1>7. /\ Complete' = Complete /\ ~Appending
      /\ Appending' <=> due # {}
  BY <1>1, <1>6 DEF Complete, Appending
<1>8. \A i : SealedComplete(i)' <=> SealedComplete(i)
  BY <1>1 DEF SealedComplete
<1>9. ASSUME NEW i \in Complete
      PROVE  (i \in due => OnItsWay(i)') /\ (i \notin due => SealedComplete(i))
  <2>1. i \in Ids /\ Rows[i] = "complete"
    BY <1>2
  <2>2. ASSUME i \in due
        PROVE  OnItsWay(i)'
    <3>1. PICK k \in 1 .. Len(b) : b[k].id = i /\ b[k].state = "complete"
      BY <1>4, <2>1, <2>2
    <3>2. b[k] \in Body
      BY <1>4, ElementOfSeq
    <3>3. b[k] = [id |-> i, state |-> "complete"]
      BY <3>1, <3>2 DEF Body
    <3>. QED
      BY <1>5, <3>3 DEF OnItsWay
  <2>3. i \notin due => LatestSealed(i) = "complete"
    BY <1>3, <2>1
  <2>. QED
    BY <2>1, <2>2, <2>3, NewestOutcome
<1>10. RowsInOrder' /\ OneRecordPerChange'
  BY <1>1 DEF RowsInOrder, OneRecordPerChange
<1>11. Places'
  BY <1>1, <1>4, <1>5, <1>6, <1>7 DEF Places
<1>12. Opening'
  <2>1. Appending' => \A i \in Complete' : Covered(i)'
    BY <1>7, <1>8, <1>9 DEF Covered
  <2>2. pc'["appender"] = "sealed" => \A i \in Complete' : SealedComplete(i)'
    BY <1>6, <1>7, <1>8, <1>9
  <2>3. pc'["appender"] # "read"
    BY <1>6
  <2>. QED
    BY <2>1, <2>2, <2>3 DEF Opening
<1>13. Remembered' /\ NotSealedYet'
  BY <1>1 DEF Remembered, NotSealedYet
<1>14. News'
  <2>1. ASSUME NEW j \in 1 .. Len(chain), NEW k \in 1 .. Len(b),
               chain[j].body.id = b[k].id
        PROVE  chain[j].body.state = "in_flight" /\ b[k].state = "complete"
    <3>. DEFINE i == b[k].id
    <3>1. i \in due /\ i \in Ids /\ b[k].state = Rows[i]
      BY <1>3, <1>4
    <3>2. chain[j].body.state \in {"in_flight", "complete"}
      <4>1. chain[j] \in Record
        BY ElementOfSeq DEF TypeOK, Record
      <4>. QED
        BY <4>1 DEF Record, Body
    <3>3. chain[j].body.id = i
      BY <2>1
    <3>4. Reached(row, chain[j].body.id, chain[j].body.state)
      BY DEF Truthful
    <3>5. LatestSealed(i) # "none"
      <4>1. j \in RecordsOf(i)
        BY <3>3 DEF RecordsOf
      <4>. QED
        BY <3>1, <4>1, NewestOutcome
    <3>. HIDE DEF i
    <3>6. CASE Rows[i] = "complete"
      <4>1. ~SealedComplete(i)
        BY <1>3, <3>1, <3>6, NewestOutcome
      <4>2. chain[j].body.state # "complete"
        <5>1. chain[j] \in Record
          BY ElementOfSeq DEF TypeOK, Record
        <5>2. chain[j].body \in Body
          BY <5>1 DEF Record
        <5>3. chain[j].body.state = "complete" =>
                chain[j].body = [id |-> i, state |-> "complete"]
          BY <3>3, <5>2 DEF Body
        <5>. QED
          BY <4>1, <5>3 DEF SealedComplete
      <4>. QED
        BY <3>1, <3>2, <3>6, <4>2
    <3>7. CASE Rows[i] # "complete"
      <4>1. Rows[i] = "in_flight" /\ LatestSealed(i) # "in_flight" /\ row[i] # "complete"
        BY <1>2, <1>3, <3>1, <3>7
      <4>2. PICK m \in 1 .. Len(chain) : /\ chain[m].body.id = i
                                        /\ chain[m].body.state = LatestSealed(i)
        BY <3>1, <3>5, Newest
      <4>3. Reached(row, chain[m].body.id, chain[m].body.state)
        BY DEF Truthful
      <4>. QED
        BY <4>1, <4>2, <4>3 DEF Reached
    <3>. QED
      BY <3>6, <3>7
  <2>. QED
    BY <1>1, <1>4, <1>5, <2>1 DEF News
<1>15. AskedFor'
  BY <1>1, <1>7, <1>8 DEF AskedFor
<1>. QED
  BY <1>10, <1>11, <1>12, <1>13, <1>14, <1>15

\* A commit: what was on its way is in the chain, after what was there.
LEMMA CommitCovers ==
  ASSUME TypeOK, Chained, Held, pc["appender"] = "commit", "appender" \in Writers,
         TxnCommit("appender")
  PROVE  /\ \A i : SealedComplete(i) => SealedComplete(i)'
         /\ \A i : Covered(i) => SealedComplete(i)'
         /\ Len(chain) \in Nat /\ Len(bodies["appender"]) \in Nat
         /\ Len(chain') = Len(chain) + Len(bodies["appender"])
         /\ \A k \in 1 .. Len(chain) : chain'[k] = chain[k]
         /\ \A k \in 1 .. Len(bodies["appender"]) :
              chain'[Len(chain) + k].body = bodies["appender"][k]
<1>. DEFINE n == Len(chain)
            bs == bodies["appender"]
            m == Len(bs)
            c == chain'
<1>1. chain' = chain \o Linked(base["appender"], bodies["appender"])
  BY DEF TxnCommit
<1>2. /\ n \in Nat /\ m \in Nat /\ Len(c) = n + m
      /\ \A k \in 1 .. n : c[k] = chain[k]
      /\ \A k \in 1 .. m : c[n + k].body = bs[k]
  BY <1>1, CommitAppends
<1>. HIDE DEF n, m, c, bs
<1>3. \A k \in 1 .. n : k \in 1 .. Len(c)
  BY <1>2
<1>4. \A k \in 1 .. m : n + k \in 1 .. Len(c)
  BY <1>2
<1>5. ASSUME NEW i, SealedComplete(i)
      PROVE  SealedComplete(i)'
  <2>1. PICK k \in 1 .. n : chain[k].body = [id |-> i, state |-> "complete"]
    BY <1>5 DEF SealedComplete, n
  <2>2. k \in 1 .. Len(c) /\ c[k].body = [id |-> i, state |-> "complete"]
    BY <1>2, <1>3, <2>1
  <2>. QED
    BY <2>2 DEF SealedComplete, c
<1>6. ASSUME NEW i, OnItsWay(i)
      PROVE  SealedComplete(i)'
  <2>1. PICK k \in 1 .. m : bs[k] = [id |-> i, state |-> "complete"]
    BY <1>6 DEF OnItsWay, m, bs
  <2>2. n + k \in 1 .. Len(c) /\ c[n + k].body = [id |-> i, state |-> "complete"]
    BY <1>2, <1>4, <2>1
  <2>. QED
    BY <2>2 DEF SealedComplete, c
<1>7. \A i : Covered(i) => SealedComplete(i)'
  BY <1>5, <1>6 DEF Covered
<1>. QED
  BY <1>2, <1>5, <1>7 DEF n, m, c, bs

\* A commit: what was on its way is sealed, and the task it was for ends.
LEMMA TrackTxnCommit ==
  ASSUME Alone, TypeOK, Chained, Held, TrackInv, TxnCommit("appender")
  PROVE  TrackInv'
<1>. USE DEF TrackInv
<1>. DEFINE n == Len(chain)
            bs == bodies["appender"]
            m == Len(bs)
            c == chain'
<1>1. /\ pc["appender"] = "commit" /\ "appender" \in Writers
      /\ bodies' = [bodies EXCEPT !["appender"] = <<>>]
      /\ UNCHANGED <<row, task, pending, watermark, owed>>
      /\ Resume("appender")
  BY DEF TxnCommit, Writers, ledgerVars
<1>2. /\ \A i : SealedComplete(i) => SealedComplete(i)'
      /\ \A i : Covered(i) => SealedComplete(i)'
  BY <1>1, CommitCovers
<1>3. /\ n \in Nat /\ m \in Nat /\ Len(c) = n + m
      /\ \A k \in 1 .. n : c[k] = chain[k]
      /\ \A k \in 1 .. m : c[n + k].body = bs[k]
  BY <1>1, CommitCovers
<1>4. bodies'["appender"] = <<>> /\ Len(<<>>) = 0
  BY <1>1, EmptySeq DEF TypeOK
<1>5. Complete' = Complete /\ Visible' = Visible /\ Appending
  BY <1>1 DEF Complete, Visible, Rows, Appending
<1>6. \/ /\ opened /\ task # "final" /\ opened' /\ pc'["appender"] = "idle"
         /\ closing' = closing
         /\ anchoring' = IF task = "anchor" THEN "sealed" ELSE anchoring
      \/ /\ opened /\ task = "final" /\ ~opened' /\ pc'["appender"] \in {"stopped", "down"}
         /\ anchoring' = anchoring
      \/ /\ ~opened /\ ~opened' /\ pc'["appender"] = "sealed"
         /\ anchoring' = anchoring
  <2>1. pc \in [Writers -> Pcs]
    BY DEF TypeOK, Pcs
  <2>2. CASE opened
    <3>1. Return(task)
      BY <1>1, <2>2 DEF Resume
    <3>. QED
      BY <1>1, <2>1, <2>2, <3>1 DEF Return
  <2>3. CASE ~opened
    BY <1>1, <2>1, <2>3 DEF Resume, AfterSeal
  <2>. QED
    BY <2>2, <2>3
<1>7. ~Appending' /\ (opened' => opened)
  BY <1>6 DEF Appending
<1>8. RowsInOrder'
  BY <1>1 DEF RowsInOrder
<1>9. Places'
  BY <1>4, <1>6, <1>7 DEF Places
<1>10. Opening'
  <2>1. ~opened' /\ pc'["appender"] = "sealed" => ~opened
    BY <1>6
  <2>2. ~opened => \A i \in Complete : Covered(i)
    BY <1>5 DEF Opening
  <2>3. pc'["appender"] # "read"
    BY <1>6
  <2>. QED
    BY <1>2, <1>5, <1>7, <2>1, <2>2, <2>3 DEF Opening
<1>11. Remembered'
  <2>1. \A i : Covered(i) => Covered(i)'
    BY <1>2 DEF Covered
  <2>. QED
    BY <1>1, <1>5, <1>7, <2>1 DEF Remembered
<1>. HIDE DEF n, m, c, bs
<1>12. ASSUME NEW k \in 1 .. Len(c)
       PROVE  \/ k \in 1 .. n /\ c[k] = chain[k]
              \/ \E j \in 1 .. m : k = n + j /\ c[k].body = bs[j]
  <2>1. CASE k <= n
    <3>1. k \in 1 .. n
      BY <1>3, <2>1
    <3>. QED
      BY <1>3, <3>1
  <2>2. CASE k > n
    <3>1. k - n \in 1 .. m /\ k = n + (k - n)
      BY <1>3, <2>2
    <3>. QED
      BY <1>3, <3>1
  <2>. QED
    BY <1>3, <2>1, <2>2
<1>13. NotSealedYet'
  <2>1. ASSUME opened, NEW k \in 1 .. Len(c)
        PROVE  /\ c[k].body.id <= watermark
               /\ c[k].body.state = "complete" => c[k].body.id \notin pending
    <3>1. CASE k \in 1 .. n /\ c[k] = chain[k]
      BY <2>1, <3>1 DEF NotSealedYet, n
    <3>2. ASSUME NEW j \in 1 .. m, c[k].body = bs[j]
          PROVE  /\ c[k].body.id <= watermark
                 /\ c[k].body.id \notin pending
      BY <2>1, <3>2 DEF NotSealedYet, m, bs
    <3>. QED
      BY <1>12, <3>1, <3>2
  <2>2. ~ \E k \in 1 .. Len(bodies'["appender"]) : TRUE
    BY <1>4
  <2>. QED
    BY <1>1, <1>7, <2>1, <2>2 DEF NotSealedYet, c
<1>14. News'
  <2>1. ~ \E k \in 1 .. Len(bodies'["appender"]) : TRUE
    BY <1>4
  <2>. QED
    BY <2>1 DEF News
<1>15. OneRecordPerChange'
  <2>1. ASSUME NEW j \in 1 .. Len(c), NEW k \in 1 .. Len(c), j < k,
               c[j].body.id = c[k].body.id
        PROVE  c[j].body.state = "in_flight" /\ c[k].body.state = "complete"
    <3>1. CASE k \in 1 .. n /\ c[k] = chain[k]
      <4>1. j \in 1 .. n
        BY <1>3, <2>1, <3>1
      <4>2. c[j] = chain[j]
        BY <1>3, <4>1
      <4>. QED
        BY <2>1, <3>1, <4>1, <4>2 DEF OneRecordPerChange, n
    <3>2. ASSUME NEW q \in 1 .. m, k = n + q, c[k].body = bs[q]
          PROVE  c[j].body.state = "in_flight" /\ c[k].body.state = "complete"
      <4>1. CASE j \in 1 .. n /\ c[j] = chain[j]
        BY <2>1, <3>2, <4>1 DEF News, n, m, bs
      <4>2. ASSUME NEW p \in 1 .. m, j = n + p, c[j].body = bs[p]
            PROVE  FALSE
        <5>1. p < q
          BY <1>3, <2>1, <3>2, <4>2
        <5>2. bs[p].id # bs[q].id
          BY <5>1 DEF News, m, bs
        <5>. QED
          BY <2>1, <3>2, <4>2, <5>2
      <4>. QED
        BY <1>12, <4>1, <4>2
    <3>. QED
      BY <1>12, <3>1, <3>2
  <2>. QED
    BY <2>1 DEF OneRecordPerChange, c
<1>16. AskedFor'
  <2>1. owed' \subseteq Complete'
    BY <1>1, <1>5 DEF AskedFor
  <2>2. anchoring' = "sealed" => \A i \in owed' : SealedComplete(i)'
    <3>1. CASE anchoring = "sealed"
      BY <1>1, <1>2, <3>1 DEF AskedFor
    <3>2. CASE opened /\ task = "anchor"
      BY <1>1, <1>2, <1>5, <3>2 DEF AskedFor
    <3>. QED
      BY <1>6, <3>1, <3>2
  <2>. QED
    BY <1>7, <2>1, <2>2 DEF AskedFor
<1>. QED
  BY <1>8, <1>9, <1>10, <1>11, <1>13, <1>14, <1>15, <1>16

\* The rows after_call looks at: all those above the watermark and all the pending ones.
LEMMA FreshAre ==
  ASSUME LastId \in Nat, TypeOK, Remembered, opened
  PROVE  /\ Fresh \subseteq Visible /\ Fresh \subseteq Ids
         /\ \A i \in Fresh : i > watermark \/ i \in pending
         /\ \A i \in Visible : i > watermark \/ i \in pending => i \in Fresh
<1>1. /\ Visible \subseteq Ids /\ pending \subseteq Ids /\ watermark \in 0 .. LastId
      /\ \A i \in pending : i <= watermark
  BY DEF TypeOK, Remembered, Visible
<1>2. Ids \subseteq Nat /\ watermark \in Nat
  BY <1>1 DEF Ids
<1>. DEFINE low == IF pending = {} THEN watermark ELSE Min(pending) - 1
<1>3. Fresh = {i \in Visible : i > low /\ ~(i <= watermark /\ i \notin pending)}
  BY DEF Fresh
<1>4. low \in Int /\ low <= watermark /\ \A i \in pending : i > low
  <2>1. CASE pending = {}
    BY <1>2, <2>1
  <2>2. CASE pending # {}
    <3>1. Min(pending) \in pending /\ \A x \in pending : Min(pending) <= x
      BY <1>1, <1>2, <2>2, LeastOf
    <3>2. Min(pending) \in Nat /\ Min(pending) <= watermark
      BY <1>1, <1>2, <3>1
    <3>3. low = Min(pending) - 1
      BY <2>2
    <3>. HIDE DEF low
    <3>4. low \in Int /\ low <= watermark
      BY <1>2, <3>2, <3>3
    <3>5. ASSUME NEW i \in pending
          PROVE  i > low
      <4>1. i \in Nat /\ Min(pending) <= i
        BY <1>1, <1>2, <3>1
      <4>. QED
        BY <3>2, <3>3, <4>1
    <3>. QED
      BY <3>4, <3>5
  <2>. QED
    BY <2>1, <2>2
<1>. HIDE DEF low
<1>5. ASSUME NEW i \in Fresh
      PROVE  i \in Visible /\ i \in Ids /\ (i > watermark \/ i \in pending)
  <2>1. i \in Visible /\ ~(i <= watermark /\ i \notin pending)
    BY <1>3
  <2>2. i \in Ids /\ i \in Nat
    BY <1>1, <1>2, <2>1
  <2>. QED
    BY <1>2, <2>1, <2>2
<1>6. ASSUME NEW i \in Visible, i > watermark \/ i \in pending
      PROVE  i \in Fresh
  <2>1. i \in Nat
    BY <1>1, <1>2
  <2>2. i > low
    BY <1>2, <1>4, <1>6, <2>1
  <2>3. ~(i <= watermark /\ i \notin pending)
    BY <1>2, <1>6, <2>1
  <2>. QED
    BY <1>3, <2>2, <2>3
<1>. QED
  BY <1>5, <1>6

\* after_call: the completed rows it looks at are on their way, the others pending.
LEMMA AfterCallCovers ==
  ASSUME LastId \in Nat, TypeOK, TrackInv, NEW t \in Tasks, AfterCall(t)
  PROVE  \E b \in Seq(Body) :
           /\ bodies' = [bodies EXCEPT !["appender"] = b]
           /\ \A k \in 1 .. Len(b) : /\ b[k].state = "complete" /\ b[k].id \in Complete
                                     /\ b[k].id > watermark \/ b[k].id \in pending
                                     /\ b[k].id <= watermark' /\ b[k].id \notin pending'
           /\ \A j, k \in 1 .. Len(b) : j < k => b[j].id # b[k].id
           /\ \/ b = <<>> /\ Return(t)
              \/ /\ pc' = [pc EXCEPT !["appender"] = "append"]
                 /\ UNCHANGED <<opened, closing, anchoring>>
           /\ watermark' >= watermark
           /\ watermark' = watermark \/ watermark' \in Visible
           /\ \A i \in pending' : i <= watermark' /\ i \notin Complete
           /\ \A i \in pending' : i \in pending \/ i > watermark
           /\ \A i \in Visible : i > watermark' \/ i \in pending' \/ Covered(i)'
           /\ \A i \in Complete : Covered(i)'
<1>. USE DEF TrackInv
<1>a. /\ opened /\ pc["appender"] = "idle" /\ bodies["appender"] = <<>>
      /\ watermark' = Max(Fresh \cup {watermark})
      /\ pending' = (pending \cup Fresh) \ Complete
      /\ bodies' = [bodies EXCEPT !["appender"] = BodiesOf(Fresh \cap Complete, Rows)]
      /\ IF Fresh \cap Complete = {} THEN Return(t)
         ELSE /\ pc' = [pc EXCEPT !["appender"] = "append"]
              /\ UNCHANGED <<opened, closing, anchoring>>
      /\ chain' = chain
  <2>1. pc["appender"] = "idle"
    BY DEF AfterCall
  <2>2. ~Appending
    BY <2>1 DEF Appending
  <2>. QED
    BY <2>1, <2>2 DEF AfterCall, Places
<1>b. /\ Fresh \subseteq Visible /\ Fresh \subseteq Ids
      /\ \A i \in Fresh : i > watermark \/ i \in pending
      /\ \A i \in Visible : i > watermark \/ i \in pending => i \in Fresh
  BY <1>a, FreshAre
<1>c. /\ Complete \subseteq Visible /\ Visible \subseteq Ids /\ pending \subseteq Ids
      /\ \A i \in Complete : Rows[i] = "complete"
      /\ watermark \in 0 .. LastId /\ "appender" \in Writers
      /\ \A i \in pending : i <= watermark
      /\ \A i \in Visible : i > watermark \/ i \in pending \/ Covered(i)
  <2>1. row \in [Ids -> RowStates]
    BY DEF TypeOK
  <2>. QED
    BY <1>a, <2>1, Shows DEF TypeOK, Writers, Remembered
<1>d. /\ watermark' \in Fresh \cup {watermark} /\ watermark' \in 0 .. LastId
      /\ watermark' >= watermark /\ \A i \in Fresh : i <= watermark'
  BY <1>a, <1>b, <1>c, LargestSeen
<1>. DEFINE due == Fresh \cap Complete
            b == BodiesOf(due, Rows)
<1>1. due \in SUBSET Ids /\ \A i \in due : Rows[i] \in {"in_flight", "complete"}
  BY <1>b, <1>c
<1>2. bodies' = [bodies EXCEPT !["appender"] = b]
  BY <1>a
<1>3. /\ due = {} => Return(t)
      /\ due # {} => /\ pc' = [pc EXCEPT !["appender"] = "append"]
                     /\ UNCHANGED <<opened, closing, anchoring>>
  BY <1>a
<1>4. due \subseteq Fresh /\ due \subseteq Complete /\ \A i \in Fresh : i \in Complete => i \in due
  OBVIOUS
<1>. HIDE DEF due
<1>5. b = BodiesOf(due, Rows)
  OBVIOUS
<1>. HIDE DEF b
<1>6. /\ b \in Seq(Body)
      /\ \A k \in 1 .. Len(b) : b[k].id \in due /\ b[k].state = Rows[b[k].id]
      /\ \A i \in due : \E k \in 1 .. Len(b) : b[k].id = i
      /\ \A j, k \in 1 .. Len(b) : j < k => b[j].id # b[k].id
      /\ due = {} => b = <<>>
  <2>1. HoldsBodies(b, due, Rows)
    BY <1>1, <1>5, BodiesSeq
  <2>. QED
    BY <2>1 DEF HoldsBodies
<1>7. bodies'["appender"] = b
  BY <1>2, <1>c DEF TypeOK
<1>8. ASSUME NEW i \in due
      PROVE  OnItsWay(i)'
  <2>1. PICK k \in 1 .. Len(b) : b[k].id = i /\ b[k].state = Rows[i]
    BY <1>6
  <2>2. Rows[i] = "complete"
    BY <1>4, <1>c
  <2>3. b[k] \in Body
    BY <1>6, ElementOfSeq
  <2>4. b[k] = [id |-> i, state |-> "complete"]
    BY <2>1, <2>2, <2>3 DEF Body
  <2>. QED
    BY <1>7, <2>4 DEF OnItsWay
<1>9. ASSUME NEW i \in Visible, Covered(i)
      PROVE  Covered(i)'
  <2>1. ~OnItsWay(i)
    BY <1>a, EmptySeq DEF OnItsWay
  <2>2. SealedComplete(i)
    BY <1>9, <2>1 DEF Covered
  <2>. QED
    BY <1>a, <2>2 DEF Covered, SealedComplete
<1>10. ASSUME NEW i \in Visible
       PROVE  \/ i > watermark' \/ i \in pending' \/ Covered(i)'
  <2>1. CASE i \in Fresh /\ i \in Complete
    BY <1>4, <1>8, <2>1 DEF Covered
  <2>2. CASE i \in Fresh /\ i \notin Complete
    BY <1>a, <2>2
  <2>3. CASE i \notin Fresh
    BY <1>9, <1>b, <1>c, <2>3
  <2>. QED
    BY <2>1, <2>2, <2>3
<1>11. ASSUME NEW i \in Complete
       PROVE  Covered(i)'
  <2>1. CASE i \in Fresh
    BY <1>4, <1>8, <2>1 DEF Covered
  <2>2. CASE i \notin Fresh
    BY <1>9, <1>b, <1>c, <2>2
  <2>. QED
    BY <2>1, <2>2
<1>12. \A i \in pending' : /\ i <= watermark' /\ i \notin Complete
                           /\ i \in pending \/ i > watermark
  <2>. SUFFICES ASSUME NEW i \in pending'
                PROVE  /\ i <= watermark' /\ i \notin Complete
                       /\ i \in pending \/ i > watermark
    OBVIOUS
  <2>1. i \notin Complete /\ (i \in pending \/ i \in Fresh) /\ i \in Ids
    BY <1>a, <1>b, <1>c
  <2>2. i \in pending => i <= watermark'
    <3>1. i \in Nat /\ watermark \in Nat /\ watermark' \in Nat
      BY <2>1, <1>c, <1>d DEF Ids
    <3>. QED
      BY <1>c, <1>d, <3>1
  <2>. QED
    BY <1>b, <1>d, <2>1, <2>2
<1>13. \A k \in 1 .. Len(b) : /\ b[k].state = "complete" /\ b[k].id \in Complete
                              /\ b[k].id > watermark \/ b[k].id \in pending
                              /\ b[k].id <= watermark' /\ b[k].id \notin pending'
  BY <1>6, <1>4, <1>b, <1>c, <1>d, <1>12
<1>14. watermark' = watermark \/ watermark' \in Visible
  BY <1>b, <1>d
<1>15. \/ b = <<>> /\ Return(t)
       \/ /\ pc' = [pc EXCEPT !["appender"] = "append"]
          /\ UNCHANGED <<opened, closing, anchoring>>
  BY <1>3, <1>6
<1>. QED
  BY <1>2, <1>6, <1>10, <1>11, <1>12, <1>13, <1>14, <1>15, <1>d

\* after_call takes what is above the watermark or pending, and nothing else.
LEMMA TrackAfterCall ==
  ASSUME LastId \in Nat, Alone, TypeOK, Truthful, TrackInv, NEW t \in Tasks, AfterCall(t)
  PROVE  TrackInv'
<1>. USE DEF TrackInv
<1>1. /\ opened /\ pc["appender"] = "idle" /\ Asked(t) /\ "appender" \in Writers
      /\ task' = t
      /\ UNCHANGED <<row, view, chain, owed>>
  BY DEF AfterCall, Writers, ledgerVars
<1>2. PICK b \in Seq(Body) :
        /\ bodies' = [bodies EXCEPT !["appender"] = b]
        /\ \A k \in 1 .. Len(b) : /\ b[k].state = "complete" /\ b[k].id \in Complete
                                  /\ b[k].id > watermark \/ b[k].id \in pending
                                  /\ b[k].id <= watermark' /\ b[k].id \notin pending'
        /\ \A j, k \in 1 .. Len(b) : j < k => b[j].id # b[k].id
        /\ \/ b = <<>> /\ Return(t)
           \/ /\ pc' = [pc EXCEPT !["appender"] = "append"]
              /\ UNCHANGED <<opened, closing, anchoring>>
        /\ watermark' >= watermark
        /\ watermark' = watermark \/ watermark' \in Visible
        /\ \A i \in pending' : i <= watermark' /\ i \notin Complete
        /\ \A i \in pending' : i \in pending \/ i > watermark
        /\ \A i \in Visible : i > watermark' \/ i \in pending' \/ Covered(i)'
        /\ \A i \in Complete : Covered(i)'
  BY AfterCallCovers
<1>3. bodies'["appender"] = b
  BY <1>1, <1>2 DEF TypeOK
<1>4. Complete' = Complete /\ Visible' = Visible
  BY <1>1 DEF Complete, Visible, Rows
<1>5. \A i : SealedComplete(i) <=> SealedComplete(i)'
  BY <1>1 DEF SealedComplete
<1>6. /\ Visible \subseteq Ids /\ watermark \in 0 .. LastId
      /\ \A i \in Ids : i \in Visible <=> row[i] \in {"in_flight", "orphan", "complete"}
  BY Shows DEF TypeOK
<1>7. \/ /\ b = <<>> /\ opened' /\ t # "final" /\ pc'["appender"] = "idle"
         /\ closing' = closing
         /\ anchoring' = IF t = "anchor" THEN "sealed" ELSE anchoring
      \/ /\ b = <<>> /\ ~opened' /\ pc'["appender"] \in {"stopped", "down"}
         /\ anchoring' = anchoring
      \/ /\ opened' /\ pc'["appender"] = "append"
         /\ closing' = closing /\ anchoring' = anchoring
  <2>1. pc \in [Writers -> Pcs]
    BY DEF TypeOK, Pcs
  <2>2. CASE b = <<>> /\ Return(t)
    BY <1>1, <2>1, <2>2 DEF Return
  <2>3. CASE /\ pc' = [pc EXCEPT !["appender"] = "append"]
             /\ UNCHANGED <<opened, closing, anchoring>>
    BY <1>1, <2>1, <2>3
  <2>. QED
    BY <1>2, <2>2, <2>3
<1>8. Appending' => opened' /\ closing' = closing /\ anchoring' = anchoring
  BY <1>7 DEF Appending
<1>9. RowsInOrder'
  BY <1>1 DEF RowsInOrder
<1>10. Places'
  BY <1>3, <1>7 DEF Places, Appending
<1>11. Opening'
  BY <1>7, <1>8 DEF Opening
<1>12. Remembered'
  <2>1. ASSUME NEW i \in Ids, i <= watermark'
        PROVE  row'[i] # "none"
    <3>1. CASE watermark' = watermark
      BY <1>1, <2>1, <3>1 DEF Remembered
    <3>2. CASE watermark' \in Visible
      <4>1. watermark' \in Ids /\ row[watermark'] # "none"
        BY <1>6, <3>2
      <4>2. i = watermark' \/ i < watermark'
        BY <2>1, <4>1 DEF Ids
      <4>. QED
        BY <1>1, <4>1, <4>2 DEF RowsInOrder
    <3>. QED
      BY <1>2, <3>1, <3>2
  <2>. QED
    BY <1>2, <1>4, <2>1 DEF Remembered
<1>13. ASSUME NEW j \in 1 .. Len(chain)
       PROVE  /\ chain[j].body.id \in Ids /\ chain[j].body.id <= watermark
              /\ chain[j].body.state \in {"in_flight", "complete"}
              /\ chain[j].body.state = "complete" =>
                   chain[j].body.id \notin pending /\ chain[j].body.id \notin pending'
  <2>1. chain[j].body.id \in Ids /\ chain[j].body.state \in {"in_flight", "complete"}
    <3>1. chain[j] \in Record
      BY ElementOfSeq DEF TypeOK, Record
    <3>2. chain[j].body \in Body
      BY <3>1 DEF Record
    <3>. QED
      BY <3>2 DEF Body
  <2>2. /\ chain[j].body.id <= watermark
        /\ chain[j].body.state = "complete" => chain[j].body.id \notin pending
    BY <1>1 DEF NotSealedYet
  <2>. DEFINE i == chain[j].body.id
              s == chain[j].body.state
  <2>3. i \in Ids /\ i <= watermark /\ (s = "complete" => i \notin pending)
    BY <2>1, <2>2
  <2>. HIDE DEF i, s
  <2>4. s = "complete" => i \notin pending'
    <3>1. i \in Nat /\ watermark \in Nat /\ ~(i > watermark)
      BY <1>6, <2>3 DEF Ids
    <3>. QED
      BY <1>2, <2>3, <3>1
  <2>. QED
    BY <2>1, <2>2, <2>4 DEF i, s
<1>14. NotSealedYet'
  <2>1. ASSUME NEW j \in 1 .. Len(chain)
        PROVE  chain[j].body.id <= watermark'
    <3>. DEFINE i == chain[j].body.id
    <3>1. i \in Nat /\ watermark \in Nat /\ i <= watermark
      BY <1>6, <1>13 DEF Ids
    <3>2. watermark' \in Nat /\ watermark' >= watermark
      <4>1. watermark \in Nat /\ \A v \in Visible : v \in Nat
        BY <1>6 DEF Ids
      <4>2. watermark' >= watermark /\ (watermark' = watermark \/ watermark' \in Visible)
        BY <1>2
      <4>. QED
        BY <4>1, <4>2
    <3>. HIDE DEF i
    <3>3. i <= watermark'
      BY <3>1, <3>2
    <3>. QED
      BY <3>3 DEF i
  <2>. QED
    BY <1>1, <1>2, <1>3, <1>13, <2>1 DEF NotSealedYet
<1>15. News'
  <2>1. ASSUME NEW j \in 1 .. Len(chain), NEW k \in 1 .. Len(b),
               chain[j].body.id = b[k].id
        PROVE  chain[j].body.state = "in_flight" /\ b[k].state = "complete"
    <3>. DEFINE i == b[k].id
    <3>1. /\ i \in Ids /\ i <= watermark
          /\ chain[j].body.state = "complete" => i \notin pending
          /\ i > watermark \/ i \in pending
      BY <1>2, <1>13, <2>1
    <3>2. i \in Nat /\ watermark \in Nat
      BY <1>6, <3>1 DEF Ids
    <3>. HIDE DEF i
    <3>3. chain[j].body.state # "complete"
      BY <3>1, <3>2
    <3>. QED
      BY <1>2, <1>13, <3>3
  <2>. QED
    BY <1>1, <1>2, <1>3, <2>1 DEF News
<1>16. OneRecordPerChange'
  BY <1>1 DEF OneRecordPerChange
<1>17. AskedFor'
  <2>1. owed' \subseteq Complete'
    BY <1>1, <1>4 DEF AskedFor
  <2>2. \A i \in Complete' : Covered(i)'
    BY <1>2, <1>4
  <2>3. b = <<>> => \A i \in Complete' : SealedComplete(i)'
    <3>. SUFFICES ASSUME b = <<>> PROVE \A i \in Complete' : SealedComplete(i)'
      OBVIOUS
    <3>1. \A i : ~OnItsWay(i)'
      BY <1>3, EmptySeq DEF OnItsWay
    <3>. QED
      BY <2>2, <3>1 DEF Covered
  <2>4. anchoring' = "sealed" => \A i \in owed' : SealedComplete(i)'
    <3>1. CASE anchoring = "sealed"
      BY <1>1, <1>5, <3>1 DEF AskedFor
    <3>2. CASE b = <<>>
      BY <2>1, <2>3, <3>2
    <3>. QED
      BY <1>7, <3>1, <3>2
  <2>5. Appending' /\ task' = "anchor" => anchoring' = "asked"
    BY <1>1, <1>8 DEF Asked
  <2>. QED
    BY <2>1, <2>2, <2>4, <2>5 DEF AskedFor
<1>. QED
  BY <1>9, <1>10, <1>11, <1>12, <1>14, <1>15, <1>16, <1>17

-----------------------------------------------------------------------------
(* What TrackInv is for.                                                   *)

\* Nothing is remembered at first.
LEMMA TrackInit ==
  ASSUME Init
  PROVE  TrackInv
<1>1. "appender" \in Writers /\ Len(<<>>) = 0
  BY EmptySeq DEF Writers
<1>2. /\ pc["appender"] = "down" /\ bodies["appender"] = <<>> /\ chain = <<>> /\ ~opened
      /\ owed = {} /\ anchoring = "no" /\ ~Appending
      /\ \A i \in Ids : row[i] = "none"
  BY <1>1 DEF Init, Appending
<1>3. RowsInOrder /\ Places /\ Opening /\ Remembered /\ NotSealedYet
  BY <1>2 DEF RowsInOrder, Places, Opening, Remembered, NotSealedYet
<1>4. News /\ OneRecordPerChange
  BY <1>1, <1>2 DEF News, OneRecordPerChange
<1>5. AskedFor
  BY <1>2 DEF AskedFor
<1>. QED
  BY <1>3, <1>4, <1>5 DEF TrackInv

\* Every step of a proxy keeps TrackInv.
LEMMA TrackStep ==
  ASSUME ConstantsAssumption, Alone, LogInv, LogInv', TrackInv, [Next]_vars
  PROVE  TrackInv'
<1>1. /\ LastId \in Nat /\ TypeOK /\ TypeOK' /\ Chained /\ Held /\ Truthful /\ RowsInOrder
  BY DEF LogInv, TrackInv, ConstantsAssumption
<1>2. CASE \E i \in Ids : Report(i)
  <2>1. UNCHANGED <<row, opened, closing, task, pc, view, bodies, pending, watermark, chain,
                    anchoring, owed>>
    BY <1>2 DEF Report, appenderVars, writerVars, anchorVars
  <2>. QED
    BY <2>1, TrackQuiet
<1>3. CASE Flush \/ ReadHead
  <2>1. UNCHANGED <<row, opened, closing, task, pc, view, bodies, pending, watermark, chain,
                    anchoring, owed>>
    BY <1>3 DEF Flush, ReadHead, ledgerVars, serverVars, appenderVars, writerVars, anchorVars
  <2>. QED
    BY <2>1, TrackQuiet
<1>4. CASE UNCHANGED vars
  <2>1. UNCHANGED <<row, opened, closing, task, pc, view, bodies, pending, watermark, chain,
                    anchoring, owed>>
    BY <1>4 DEF vars, ledgerVars, serverVars, appenderVars, writerVars, anchorVars
  <2>. QED
    BY <2>1, TrackQuiet
<1>5. CASE \E i \in Ids : Begin(i) \/ Finish(i)
  BY <1>1, <1>5, TrackBegin, TrackFinish
<1>6. CASE AskAnchor \/ Close \/ Anchor
  BY <1>1, <1>6, TrackAsk
<1>7. CASE Crash \/ Open \/ Opened
  BY <1>1, <1>7, TrackCrash, TrackOpen, TrackOpened
<1>8. CASE Seal("appender") \/ TxnBegin("appender") \/ TxnCommit("appender")
  BY <1>1, <1>8, TrackSeal, TrackTxnBegin, TrackTxnCommit
<1>9. CASE \E t \in Tasks : AfterCall(t)
  BY <1>1, <1>9, TrackAfterCall
<1>. QED
  BY <1>1, <1>2, <1>3, <1>4, <1>5, <1>6, <1>7, <1>8, <1>9, AloneSteps

\* TrackInv holds in every reachable state of a proxy that seals its own chain.
THEOREM TrackInvariance ==
  ASSUME ConstantsAssumption, Alone
  PROVE  Spec => []TrackInv
<1>1. Init => TrackInv
  BY TrackInit
<1>2. LogInv /\ LogInv' /\ TrackInv /\ [Next]_vars => TrackInv'
  BY TrackStep
<1>. QED
  BY <1>1, <1>2, LogInvariance, PTL DEF Spec

(* The proxy's appender forgets no row (_watermark and _pending cover what  *)
(* the bodies under way and the chain do not) and seals no row twice but    *)
(* for an outcome that came later, across every crash, restart and stop.    *)
THEOREM NothingIsForgotten ==
  ASSUME ConstantsAssumption, Alone
  PROVE  Spec => []AppenderKeepsTrack
<1>1. LogInv /\ TrackInv => AppenderKeepsTrack
  <2>. SUFFICES ASSUME LogInv, TrackInv PROVE AppenderKeepsTrack
    OBVIOUS
  <2>1. TypeOK /\ OneRecordPerChange
    BY DEF LogInv, TrackInv
  <2>2. \A i : OnItsWay(i) => About(i)
    BY DEF OnItsWay, About
  <2>3. NothingForgotten
    BY <2>2 DEF TrackInv, Remembered, NothingForgotten, Covered
  <2>. QED
    BY <2>1, <2>3 DEF AppenderKeepsTrack
<1>. QED
  BY <1>1, LogInvariance, TrackInvariance, PTL

\* The end of a task: where closing and anchoring change.
LEMMA EndsAre ==
  ASSUME ConstantsAssumption, Alone, LogInv, TrackInv, Next, faults' = faults
  PROVE  /\ anchoring = "sealed" /\ anchoring' = "no" => Anchor
         /\ closing = "stop" /\ closing' = "no" =>
              \/ \E t \in Tasks : t = "final" /\ AfterCall(t) /\ Return(t) /\ ~Appending'
              \/ opened /\ task = "final" /\ TxnCommit("appender")
<1>. DEFINE Goal == /\ anchoring = "sealed" /\ anchoring' = "no" => Anchor
                    /\ closing = "stop" /\ closing' = "no" =>
                       \/ \E t \in Tasks : t = "final" /\ AfterCall(t) /\ Return(t) /\ ~Appending'
                       \/ opened /\ task = "final" /\ TxnCommit("appender")
<1>1. ASSUME UNCHANGED <<closing, anchoring>> PROVE Goal
  BY <1>1
<1>2. CASE \E i \in Ids : Begin(i) \/ Finish(i) \/ Report(i)
  BY <1>1, <1>2 DEF Begin, Finish, Report, serverVars, anchorVars
<1>3. CASE Flush \/ ReadHead \/ Open \/ Opened \/ Seal("appender") \/ TxnBegin("appender")
  BY <1>1, <1>3 DEF Flush, ReadHead, Open, ReadRows, Opened, Seal, TxnBegin, serverVars, anchorVars
<1>4. CASE AskAnchor \/ Close \/ Anchor
  BY <1>4 DEF AskAnchor, Close, Anchor, serverVars, anchorVars
<1>5. CASE Crash
  <2>1. faults \in Nat /\ faults' = faults + 1
    BY <1>5 DEF Crash, LogInv, TypeOK, ConstantsAssumption
  <2>. QED
    BY <2>1
<1>6. ASSUME NEW t \in Tasks, AfterCall(t) PROVE Goal
  <2>1. CASE Return(t)
    <3>1. CASE t = "final"
      <4>1. pc \in [Writers -> Pcs] /\ "appender" \in Writers
        BY DEF LogInv, TypeOK, Pcs, Writers
      <4>2. ~Appending'
        BY <2>1, <3>1, <4>1 DEF Return, Appending
      <4>3. anchoring' = anchoring
        BY <2>1, <3>1 DEF Return
      <4>. QED
        BY <1>6, <2>1, <3>1, <4>2, <4>3
    <3>2. CASE t # "final"
      BY <2>1, <3>2 DEF Return
    <3>. QED
      BY <3>1, <3>2
  <2>2. CASE UNCHANGED <<closing, anchoring>>
    BY <1>1, <2>2
  <2>. QED
    BY <1>6, <2>1, <2>2 DEF AfterCall
<1>7. CASE TxnCommit("appender")
  <2>1. CASE opened
    <3>1. Return(task)
      BY <1>7, <2>1 DEF TxnCommit, Resume
    <3>. QED
      BY <1>7, <2>1, <3>1 DEF Return
  <2>2. CASE ~opened
    BY <1>1, <1>7, <2>2 DEF TxnCommit, Resume
  <2>. QED
    BY <2>1, <2>2
<1>. QED
  BY <1>2, <1>3, <1>4, <1>5, <1>6, <1>7, AloneSteps DEF TrackInv

(* A head asked for through AuditAppender.anchor covers every call that had *)
(* completed when it was asked for, and a proxy that is stopped leaves no   *)
(* completed row unsealed, with calls, flushes and crashes anywhere between.*)
THEOREM HeadsAndStopsCover ==
  ASSUME ConstantsAssumption, Alone
  PROVE  Spec => AskedIsSealed
<1>1. LogInv /\ TrackInv /\ TrackInv' /\ [Next]_vars => [HeadCovers /\ StopSeals]_vars
  <2>. SUFFICES ASSUME LogInv, TrackInv, TrackInv', Next
                PROVE  HeadCovers /\ StopSeals
    OBVIOUS
  <2>1. HeadCovers
    BY EndsAre DEF HeadCovers, TrackInv, AskedFor
  <2>2. StopSeals
    <3>. SUFFICES ASSUME closing = "stop", closing' = "no", faults' = faults
                  PROVE  (\A i \in Complete : SealedComplete(i))'
      BY DEF StopSeals
    <3>1. TypeOK /\ Chained /\ Held /\ LastId \in Nat /\ "appender" \in Writers
      BY DEF LogInv, ConstantsAssumption, Writers
    <3>2. CASE opened /\ task = "final" /\ TxnCommit("appender")
      <4>1. pc["appender"] = "commit" /\ row' = row
        BY <3>2 DEF TxnCommit, ledgerVars
      <4>2. Complete' = Complete /\ Appending
        BY <4>1 DEF Complete, Appending
      <4>3. \A i \in Complete : Covered(i)
        BY <3>2, <4>2 DEF TrackInv, AskedFor
      <4>4. \A i : Covered(i) => SealedComplete(i)'
        BY <3>1, <3>2, <4>1, CommitCovers
      <4>. QED
        BY <4>2, <4>3, <4>4
    <3>3. ASSUME NEW t \in Tasks, AfterCall(t), ~Appending'
          PROVE  (\A i \in Complete : SealedComplete(i))'
      <4>1. \A i \in Complete : Covered(i)'
        BY <3>1, <3>3, AfterCallCovers
      <4>2. row' = row
        BY <3>3 DEF AfterCall, ledgerVars
      <4>3. Complete' = Complete
        BY <4>2 DEF Complete
      <4>4. \A i : ~OnItsWay(i)'
        BY <3>3, EmptySeq DEF TrackInv, Places, OnItsWay
      <4>. QED
        BY <4>1, <4>3, <4>4 DEF Covered
    <3>. QED
      BY <3>2, <3>3, EndsAre
  <2>. QED
    BY <2>1, <2>2
<1>. QED
  BY <1>1, LogInvariance, TrackInvariance, PTL DEF Spec, AskedIsSealed

-----------------------------------------------------------------------------
(* The corruptions of a chain (TamperEvidence).                            *)

Calls_   == Cardinality(Sealed)
TBody    == Tamper!Body
TRecord  == [seq : Nat \ {0}, prev : Seq(TBody), hash : Seq(TBody), body : TBody]
TAnchor  == [seq : Nat \ {0}, head : Seq(TBody)]

\* The variables have the types of what they hold, and what was never given out is nowhere.
TamperTypes ==
  /\ ledger \in [Sealed -> Tamper!Row \cup {None}] /\ truth \in [Sealed -> Tamper!Row \cup {None}]
  /\ used \in 0 .. Calls_ /\ schema \in 1 .. Schemas
  /\ records \in Seq(TRecord) /\ heads \in Seq(TAnchor)
  /\ tampers \in Nat /\ trusted \in Nat
  /\ \A k \in DOMAIN records : records[k].body.uid <= used
  /\ \A u \in Sealed : u > used => ledger[u] = None /\ truth[u] = None

\* A chain whose positions and hashes are those of its bodies.
Whole(c) ==
  \A k \in DOMAIN c : /\ c[k].seq = k
                      /\ c[k].prev = Tamper!Bodies(SubSeq(c, 1, k - 1))
                      /\ c[k].hash = Tamper!Bodies(SubSeq(c, 1, k))

\* The ids of the calls are numbers.
LEMMA SealedAreNumbers ==
  ASSUME SoloAssumption
  PROVE  /\ Calls_ \in Nat /\ Sealed = 1 .. Calls_
         /\ Schemas \in Nat /\ None \notin Tamper!Row /\ None \notin TBody
<1>1. IsFiniteSet(Sealed) /\ Sealed = 1 .. Calls_
  <2>1. Tamper!IsFiniteSet(Sealed) = IsFiniteSet(Sealed)
    BY Zenon DEF Tamper!IsFiniteSet, IsFiniteSet
  <2>2. Tamper!Cardinality(Sealed) = Cardinality(Sealed)
    BY Zenon DEF Tamper!Cardinality, Tamper!IsFiniteSet, Cardinality, IsFiniteSet
  <2>. QED
    BY <2>1, <2>2 DEF SoloAssumption, Tamper!TamperAssumption, Calls_
<1>2. Calls_ \in Nat
  BY <1>1, FS_CardinalityType DEF Calls_
<1>. QED
  BY <1>1, <1>2 DEF SoloAssumption, Tamper!TamperAssumption, TBody

\* The bodies of the first records of a chain.
LEMMA BodiesOfPrefix ==
  ASSUME NEW c \in Seq(TRecord), NEW k \in 0 .. Len(c)
  PROVE  /\ Tamper!Bodies(SubSeq(c, 1, k)) \in Seq(TBody)
         /\ Len(Tamper!Bodies(SubSeq(c, 1, k))) = k
         /\ \A i \in 1 .. k : Tamper!Bodies(SubSeq(c, 1, k))[i] = c[i].body
         /\ k > 0 => Tamper!Bodies(SubSeq(c, 1, k))
                       = Append(Tamper!Bodies(SubSeq(c, 1, k - 1)), c[k].body)
<1>1. ASSUME NEW n \in 0 .. Len(c)
      PROVE  /\ Tamper!Bodies(SubSeq(c, 1, n)) = [i \in 1 .. n |-> c[i].body]
             /\ [i \in 1 .. n |-> c[i].body] \in Seq(TBody)
             /\ Len([i \in 1 .. n |-> c[i].body]) = n
  <2>1. SubSeq(c, 1, n) \in Seq(TRecord) /\ Len(SubSeq(c, 1, n)) = n
        /\ \A i \in 1 .. n : SubSeq(c, 1, n)[i] = c[i]
    OBVIOUS
  <2>2. DOMAIN SubSeq(c, 1, n) = 1 .. n
    BY <2>1
  <2>3. \A i \in 1 .. n : c[i].body \in TBody
    <3>1. \A i \in 1 .. n : c[i] \in TRecord
      OBVIOUS
    <3>. QED
      BY <3>1 DEF TRecord
  <2>. QED
    BY <2>1, <2>2, <2>3 DEF Tamper!Bodies
<1>2. k > 0 => Tamper!Bodies(SubSeq(c, 1, k))
                       = Append(Tamper!Bodies(SubSeq(c, 1, k - 1)), c[k].body)
  <2>. SUFFICES ASSUME k > 0
                PROVE  [i \in 1 .. k |-> c[i].body] = Append([i \in 1 .. k - 1 |-> c[i].body], c[k].body)
    <3>1. k > 0 => k - 1 \in 0 .. Len(c)
      OBVIOUS
    <3>. QED
      BY <1>1, <3>1
  <2>1. k \in Nat /\ k - 1 \in 0 .. Len(c)
    OBVIOUS
  <2>. DEFINE f == [i \in 1 .. k - 1 |-> c[i].body]
  <2>2. f \in Seq(TBody) /\ Len(f) = k - 1
    BY <1>1, <2>1
  <2>3. \A i \in 1 .. k - 1 : f[i] = c[i].body
    OBVIOUS
  <2>. HIDE DEF f
  <2>4. Append(f, c[k].body) = [i \in 1 .. k |-> IF i = k THEN c[k].body ELSE f[i]]
    BY <2>1, <2>2
  <2>5. \A i \in 1 .. k : (IF i = k THEN c[k].body ELSE f[i]) = c[i].body
    BY <2>1, <2>3
  <2>6. Append(f, c[k].body) = [i \in 1 .. k |-> c[i].body]
    BY <2>4, <2>5
  <2>. QED
    BY <2>6 DEF f
<1>. QED
  BY <1>1, <1>2

\* A chain without a break among its records is one whole, and the other way round.
LEMMA NoBreakIsWhole ==
  ASSUME NEW c \in Seq(TRecord)
  PROVE  (Tamper!RecordBreaks(c) = {}) <=> Whole(c)
<1>1. ASSUME Tamper!RecordBreaks(c) = {}
      PROVE  Whole(c)
  <2>. DEFINE Good(k) == /\ c[k].seq = k
                         /\ c[k].prev = Tamper!Bodies(SubSeq(c, 1, k - 1))
                         /\ c[k].hash = Tamper!Bodies(SubSeq(c, 1, k))
              G == {n \in Nat : n \in 1 .. Len(c) => Good(n)}
  <2>1. ASSUME NEW k \in 1 .. Len(c)
        PROVE  /\ c[k].seq = (IF k = 1 THEN 1 ELSE c[k - 1].seq + 1)
               /\ c[k].prev = (IF k = 1 THEN <<>> ELSE c[k - 1].hash)
               /\ c[k].hash = Append(c[k].prev, c[k].body)
    <3>1. k \in DOMAIN c
      OBVIOUS
    <3>. QED
      BY <1>1, <3>1 DEF Tamper!RecordBreaks, Tamper!Link, Tamper!Genesis
  <2>2. 0 \in G
    OBVIOUS
  <2>3. ASSUME NEW n \in Nat, n \in G
        PROVE  n + 1 \in G
    <3>. SUFFICES ASSUME n + 1 \in 1 .. Len(c) PROVE Good(n + 1)
      OBVIOUS
    <3>1. /\ Tamper!Bodies(SubSeq(c, 1, n + 1)) = Append(Tamper!Bodies(SubSeq(c, 1, n)), c[n + 1].body)
          /\ (n + 1) - 1 = n
      BY BodiesOfPrefix
    <3>2. CASE n = 0
      <4>1. Tamper!Bodies(SubSeq(c, 1, 0)) = <<>>
        <5>1. 0 \in 0 .. Len(c)
          OBVIOUS
        <5>2. Tamper!Bodies(SubSeq(c, 1, 0)) \in Seq(TBody) /\ Len(Tamper!Bodies(SubSeq(c, 1, 0))) = 0
          BY <5>1, BodiesOfPrefix
        <5>. QED
          BY <5>2
      <4>. QED
        BY <2>1, <3>1, <3>2, <4>1
    <3>3. CASE n # 0
      <4>1. n \in 1 .. Len(c) /\ Good(n)
        BY <2>3, <3>3
      <4>2. n + 1 # 1 /\ (n + 1) - 1 = n
        BY <3>3
      <4>3. /\ c[n + 1].seq = c[n].seq + 1 /\ c[n + 1].prev = c[n].hash
            /\ c[n + 1].hash = Append(c[n + 1].prev, c[n + 1].body)
        BY <2>1, <4>2
      <4>. HIDE DEF G
      <4>. QED
        BY <3>1, <4>1, <4>2, <4>3
    <3>. QED
      BY <3>2, <3>3
  <2>4. Nat \subseteq G
    <3>. HIDE DEF G
    <3>. QED
      BY <2>2, <2>3, NatSetInduction
  <2>5. \A k \in 1 .. Len(c) : Good(k)
    BY <2>4
  <2>. QED
    BY <2>5 DEF Whole
<1>2. ASSUME Whole(c)
      PROVE  Tamper!RecordBreaks(c) = {}
  <2>1. ASSUME NEW k \in DOMAIN c
        PROVE  /\ c[k].seq = (IF k = 1 THEN 1 ELSE c[k - 1].seq + 1)
               /\ c[k].prev = (IF k = 1 THEN <<>> ELSE c[k - 1].hash)
               /\ c[k].hash = Append(c[k].prev, c[k].body)
    <3>1. k \in 1 .. Len(c) /\ k \in 0 .. Len(c)
      OBVIOUS
    <3>2. c[k].hash = Append(c[k].prev, c[k].body)
      <4>1. /\ c[k].prev = Tamper!Bodies(SubSeq(c, 1, k - 1))
            /\ c[k].hash = Tamper!Bodies(SubSeq(c, 1, k))
        BY <1>2 DEF Whole
      <4>2. k > 0
        BY <3>1
      <4>3. Tamper!Bodies(SubSeq(c, 1, k)) = Append(Tamper!Bodies(SubSeq(c, 1, k - 1)), c[k].body)
        BY <3>1, <4>2, BodiesOfPrefix
      <4>. QED
        BY <4>1, <4>3
    <3>3. CASE k = 1
      <4>1. 0 \in 0 .. Len(c)
        OBVIOUS
      <4>2. Tamper!Bodies(SubSeq(c, 1, 0)) \in Seq(TBody) /\ Len(Tamper!Bodies(SubSeq(c, 1, 0))) = 0
        BY <4>1, BodiesOfPrefix
      <4>3. Tamper!Bodies(SubSeq(c, 1, k - 1)) = <<>>
        BY <3>3, <4>2
      <4>. QED
        BY <1>2, <3>2, <3>3, <4>3 DEF Whole
    <3>4. CASE k # 1
      <4>1. k - 1 \in DOMAIN c
        BY <3>1, <3>4
      <4>. QED
        BY <1>2, <3>1, <3>2, <3>4, <4>1 DEF Whole
    <3>. QED
      BY <3>3, <3>4
  <2>. QED
    BY <2>1 DEF Tamper!RecordBreaks, Tamper!Link, Tamper!Genesis
<1>. QED
  BY <1>1, <1>2

\* The last position of a chain that is whole is its length, and the hash found at one of its
\* positions is that of the bodies up to there.
LEMMA WholeChain ==
  ASSUME NEW c \in Seq(TRecord), Whole(c)
  PROVE  /\ Tamper!LastSeq(c) = Len(c)
         /\ \A k \in 1 .. Len(c) : Tamper!HashAt(c, k) = Tamper!Bodies(SubSeq(c, 1, k))
<1>1. Tamper!LastSeq(c) = Len(c)
  <2>1. CASE c = <<>>
    BY <2>1 DEF Tamper!LastSeq
  <2>2. CASE c # <<>>
    <3>1. Len(c) \in DOMAIN c
      BY <2>2
    <3>. QED
      BY <2>2, <3>1 DEF Tamper!LastSeq, Tamper!Last, Whole
  <2>. QED
    BY <2>1, <2>2
<1>2. ASSUME NEW k \in 1 .. Len(c)
      PROVE  Tamper!HashAt(c, k) = Tamper!Bodies(SubSeq(c, 1, k))
  <2>1. {j \in DOMAIN c : c[j].seq = k} = {k}
    BY DEF Whole
  <2>2. Tamper!Max({k}) = k
    BY DEF Tamper!Max
  <2>3. k \in DOMAIN c
    OBVIOUS
  <2>. QED
    BY <2>1, <2>2, <2>3 DEF Tamper!HashAt, Whole
<1>. QED
  BY <1>1, <1>2

\* Whatever was done to a chain since, if its records and its anchors show no break, the
\* bodies up to an anchor are those that were anchored.
LEMMA AnchoredBodies ==
  ASSUME NEW c \in Seq(TRecord), NEW h \in Seq(TAnchor), Tamper!RecordBreaks(c) = {},
         \A j \in DOMAIN h : h[j].seq <= Tamper!LastSeq(c) /\ Tamper!HashAt(c, h[j].seq) = h[j].head
  PROVE  \A j \in DOMAIN h : /\ h[j].seq \in 1 .. Len(c)
                             /\ Tamper!Bodies(SubSeq(c, 1, h[j].seq)) = h[j].head
<1>1. Whole(c)
  BY NoBreakIsWhole
<1>2. ASSUME NEW j \in DOMAIN h
      PROVE  /\ h[j].seq \in 1 .. Len(c)
             /\ Tamper!Bodies(SubSeq(c, 1, h[j].seq)) = h[j].head
  <2>1. h[j] \in TAnchor
    OBVIOUS
  <2>2. h[j].seq \in Nat \ {0}
    BY <2>1 DEF TAnchor
  <2>3. h[j].seq \in 1 .. Len(c)
    BY <1>1, <2>2, WholeChain
  <2>. QED
    BY <1>1, <2>3, WholeChain
<1>. QED
  BY <1>2

\* What an intact chain says of its anchors.
LEMMA IntactMeans ==
  /\ Tamper!ChainIntact => /\ Tamper!RecordBreaks(records) = {}
                           /\ \A j \in DOMAIN heads :
                                /\ ~(heads[j].seq > Tamper!LastSeq(records))
                                /\ Tamper!HashAt(records, heads[j].seq) = heads[j].head
  /\ Tamper!ChainIntact' => /\ Tamper!RecordBreaks(records') = {}
                            /\ \A j \in DOMAIN heads' :
                                 /\ ~(heads'[j].seq > Tamper!LastSeq(records'))
                                 /\ Tamper!HashAt(records', heads'[j].seq) = heads'[j].head
BY DEF Tamper!ChainIntact, Tamper!AnchorBreaks, Tamper!ToSet

\* The newest record of a call.
LEMMA LatestOf ==
  ASSUME SoloAssumption, NEW c \in Seq(TRecord), NEW u
  PROVE  /\ (\A k \in DOMAIN c : c[k].body.uid # u) => Tamper!Latest(c, u) = None
         /\ \A k \in DOMAIN c : c[k].body.uid = u =>
              \E m \in DOMAIN c : /\ m >= k /\ c[m].body.uid = u
                                 /\ Tamper!Latest(c, u) = c[m].body
                                 /\ \A j \in DOMAIN c : c[j].body.uid = u => j <= m
         /\ Tamper!Latest(c, u) # None =>
              Tamper!Latest(c, u) \in TBody /\ Tamper!Latest(c, u).uid = u
<1>. DEFINE of == {k \in DOMAIN c : c[k].body.uid = u}
<1>1. CASE of = {}
  BY <1>1 DEF Tamper!Latest
<1>2. CASE of # {}
  <2>1. of \in SUBSET (0 .. Len(c)) /\ Len(c) \in Nat
    OBVIOUS
  <2>. HIDE DEF of
  <2>2. Max(of) \in of /\ \A x \in of : x <= Max(of)
    BY <1>2, <2>1, GreatestOf
  <2>3. Tamper!Max(of) = Max(of)
    BY DEF Tamper!Max, Max
  <2>4. Tamper!Latest(c, u) = c[Max(of)].body
    BY <1>2, <2>3 DEF Tamper!Latest, of
  <2>5. \A k \in DOMAIN c : c[k] \in TRecord
    OBVIOUS
  <2>6. c[Max(of)].body \in TBody
    BY <2>2, <2>5 DEF TRecord, of
  <2>. QED
    BY <2>1, <2>2, <2>4, <2>6 DEF of
<1>. QED
  BY <1>1, <1>2

\* Each record follows the one before.
Follows(c) ==
  \A k \in DOMAIN c : /\ c[k].seq = (IF k = 1 THEN 1 ELSE c[k - 1].seq + 1)
                      /\ c[k].prev = (IF k = 1 THEN <<>> ELSE c[k - 1].hash)
                      /\ c[k].hash = Append(c[k].prev, c[k].body)

\* A chain is whole if each of its records follows the one before.
LEMMA FollowingIsWhole ==
  ASSUME NEW c \in Seq(TRecord)
  PROVE  Whole(c) <=> Follows(c)
<1>1. ASSUME Whole(c) PROVE Follows(c)
  <2>1. Tamper!RecordBreaks(c) = {}
    BY <1>1, NoBreakIsWhole
  <2>2. ASSUME NEW k \in DOMAIN c
        PROVE  /\ c[k].seq = (IF k = 1 THEN 1 ELSE c[k - 1].seq + 1)
               /\ c[k].prev = (IF k = 1 THEN <<>> ELSE c[k - 1].hash)
               /\ c[k].hash = Append(c[k].prev, c[k].body)
    BY <2>1 DEF Tamper!RecordBreaks, Tamper!Link, Tamper!Genesis
  <2>. QED
    BY <2>2 DEF Follows
<1>2. ASSUME Follows(c) PROVE Whole(c)
  <2>1. ASSUME NEW k \in DOMAIN c
        PROVE  /\ c[k].seq = (IF k = 1 THEN 1 ELSE c[k - 1].seq + 1)
               /\ c[k].prev = (IF k = 1 THEN <<>> ELSE c[k - 1].hash)
               /\ c[k].hash = Append(c[k].prev, c[k].body)
    BY <1>2 DEF Follows
  <2>2. Tamper!RecordBreaks(c) = {}
    BY <2>1 DEF Tamper!RecordBreaks, Tamper!Link, Tamper!Genesis
  <2>. QED
    BY <2>2, NoBreakIsWhole
<1>. QED
  BY <1>1, <1>2

\* The records that are built of bodies.
LEMMA Built ==
  ASSUME NEW bs \in Seq(TBody), NEW p \in Seq(TBody), NEW f \in Nat \ {0}
  PROVE  /\ Tamper!Build(bs, p, f) \in Seq(TRecord)
         /\ Len(Tamper!Build(bs, p, f)) = Len(bs)
         /\ \A k \in 1 .. Len(bs) :
              /\ Tamper!Build(bs, p, f)[k].seq = f + k - 1
              /\ Tamper!Build(bs, p, f)[k].prev = p \o SubSeq(bs, 1, k - 1)
              /\ Tamper!Build(bs, p, f)[k].hash = Append(p \o SubSeq(bs, 1, k - 1), bs[k])
              /\ Tamper!Build(bs, p, f)[k].body = bs[k]
<1>. DEFINE Rec(k) == [seq |-> f + k - 1, prev |-> p \o SubSeq(bs, 1, k - 1),
                       hash |-> Append(p \o SubSeq(bs, 1, k - 1), bs[k]), body |-> bs[k]]
<1>1. Tamper!Build(bs, p, f) = [k \in 1 .. Len(bs) |-> Rec(k)]
  BY DEF Tamper!Build, Tamper!Link
<1>2. \A k \in 1 .. Len(bs) : Rec(k) \in TRecord
  <2>. TAKE k \in 1 .. Len(bs)
  <2>1. bs[k] \in TBody /\ SubSeq(bs, 1, k - 1) \in Seq(TBody)
    OBVIOUS
  <2>2. p \o SubSeq(bs, 1, k - 1) \in Seq(TBody)
    BY <2>1
  <2>3. Append(p \o SubSeq(bs, 1, k - 1), bs[k]) \in Seq(TBody)
    BY <2>1, <2>2
  <2>4. f + k - 1 \in Nat \ {0}
    OBVIOUS
  <2>. QED
    BY <2>1, <2>2, <2>3, <2>4 DEF TRecord
<1>3. \A k : /\ Rec(k).seq = f + k - 1 /\ Rec(k).prev = p \o SubSeq(bs, 1, k - 1)
             /\ Rec(k).hash = Append(p \o SubSeq(bs, 1, k - 1), bs[k]) /\ Rec(k).body = bs[k]
  OBVIOUS
<1>. HIDE DEF Rec
<1>4. [k \in 1 .. Len(bs) |-> Rec(k)] \in Seq(TRecord) /\ Len([k \in 1 .. Len(bs) |-> Rec(k)]) = Len(bs)
  <2>1. Len(bs) \in Nat
    OBVIOUS
  <2>. QED
    BY <1>2, <2>1
<1>. QED
  BY <1>1, <1>3, <1>4

\* A sequence one element longer ends in that element.
LEMMA OneLonger ==
  ASSUME NEW S, NEW p \in Seq(S), NEW b \in Seq(S), NEW k \in 1 .. Len(b)
  PROVE  p \o SubSeq(b, 1, k) = Append(p \o SubSeq(b, 1, k - 1), b[k])
<1>. DEFINE x == SubSeq(b, 1, k)  y == SubSeq(b, 1, k - 1)
<1>1. /\ x \in Seq(S) /\ Len(x) = k /\ \A i \in 1 .. k : x[i] = b[i]
      /\ y \in Seq(S) /\ Len(y) = k - 1 /\ \A i \in 1 .. k - 1 : y[i] = b[i]
      /\ b[k] \in S /\ k \in Nat
  OBVIOUS
<1>. HIDE DEF x, y
<1>2. x = Append(y, b[k])
  BY <1>1
<1>3. p \o Append(y, b[k]) = Append(p \o y, b[k])
  BY <1>1
<1>. QED
  BY <1>2, <1>3 DEF x, y

\* Records built of bodies after the head of a chain that is whole make a whole chain.
LEMMA BuildingOn ==
  ASSUME NEW c \in Seq(TRecord), Whole(c), NEW bs \in Seq(TBody),
         NEW p, p = IF c = <<>> THEN <<>> ELSE c[Len(c)].hash
  PROVE  LET d == c \o Tamper!Build(bs, p, Len(c) + 1)
         IN  /\ d \in Seq(TRecord) /\ Whole(d) /\ Len(d) = Len(c) + Len(bs)
             /\ \A k \in 1 .. Len(c) : d[k] = c[k]
             /\ \A k \in 1 .. Len(bs) : d[Len(c) + k].body = bs[k]
<1>. DEFINE b == Tamper!Build(bs, p, Len(c) + 1)
            d == c \o b
<1>1. p \in Seq(TBody)
  <2>1. c # <<>> => c[Len(c)] \in TRecord
    OBVIOUS
  <2>. QED
    BY <2>1 DEF TRecord
<1>2. Len(c) + 1 \in Nat \ {0} /\ Len(c) \in Nat /\ Len(bs) \in Nat
  OBVIOUS
<1>3. /\ b \in Seq(TRecord) /\ Len(b) = Len(bs)
      /\ \A k \in 1 .. Len(bs) :
              /\ b[k].seq = Len(c) + k /\ b[k].prev = p \o SubSeq(bs, 1, k - 1)
              /\ b[k].hash = Append(p \o SubSeq(bs, 1, k - 1), bs[k]) /\ b[k].body = bs[k]
  <2>. DEFINE f == Len(c) + 1
  <2>1. \A k \in 1 .. Len(bs) : f + k - 1 = Len(c) + k
    BY <1>2
  <2>2. f \in Nat \ {0}
    BY <1>2
  <2>. HIDE DEF f
  <2>3. /\ Tamper!Build(bs, p, f) \in Seq(TRecord)
        /\ Len(Tamper!Build(bs, p, f)) = Len(bs)
        /\ \A k \in 1 .. Len(bs) :
              /\ Tamper!Build(bs, p, f)[k].seq = f + k - 1
              /\ Tamper!Build(bs, p, f)[k].prev = p \o SubSeq(bs, 1, k - 1)
              /\ Tamper!Build(bs, p, f)[k].hash = Append(p \o SubSeq(bs, 1, k - 1), bs[k])
              /\ Tamper!Build(bs, p, f)[k].body = bs[k]
    BY <1>1, <2>2, Built
  <2>4. Tamper!Build(bs, p, f) = b
    BY DEF f
  <2>. HIDE DEF b
  <2>. QED
    BY <2>1, <2>3, <2>4
<1>. HIDE DEF b
<1>4. /\ d \in Seq(TRecord) /\ Len(d) = Len(c) + Len(bs)
      /\ \A k \in 1 .. Len(c) : d[k] = c[k]
      /\ \A k \in 1 .. Len(bs) : d[Len(c) + k] = b[k]
  <2>1. /\ c \o b \in Seq(TRecord) /\ Len(c \o b) = Len(c) + Len(b)
        /\ \A k \in 1 .. Len(c) + Len(b) :
             (c \o b)[k] = IF k <= Len(c) THEN c[k] ELSE b[k - Len(c)]
    BY <1>3
  <2>2. \A k \in 1 .. Len(bs) : Len(c) + k \in 1 .. Len(c) + Len(b) /\ ~(Len(c) + k <= Len(c))
                              /\ (Len(c) + k) - Len(c) = k
    BY <1>2, <1>3
  <2>3. \A k \in 1 .. Len(c) : k \in 1 .. Len(c) + Len(b) /\ k <= Len(c)
    BY <1>2, <1>3
  <2>. QED
    BY <1>3, <2>1, <2>2, <2>3
<1>. HIDE DEF d
<1>5. Follows(d)
  <2>. SUFFICES ASSUME NEW k \in 1 .. Len(d)
                PROVE  /\ d[k].seq = (IF k = 1 THEN 1 ELSE d[k - 1].seq + 1)
                       /\ d[k].prev = (IF k = 1 THEN <<>> ELSE d[k - 1].hash)
                       /\ d[k].hash = Append(d[k].prev, d[k].body)
    <3>1. DOMAIN d = 1 .. Len(d)
      BY <1>4
    <3>. QED
      BY <3>1 DEF Follows
  <2>0. Follows(c)
    BY FollowingIsWhole
  <2>1. CASE k <= Len(c)
    <3>1. k \in DOMAIN c /\ k \in 1 .. Len(c) /\ (k # 1 => k - 1 \in 1 .. Len(c))
      BY <2>1
    <3>2. d[k] = c[k] /\ (k # 1 => d[k - 1] = c[k - 1])
      BY <1>4, <3>1, Zenon
    <3>3. /\ c[k].seq = (IF k = 1 THEN 1 ELSE c[k - 1].seq + 1)
          /\ c[k].prev = (IF k = 1 THEN <<>> ELSE c[k - 1].hash)
          /\ c[k].hash = Append(c[k].prev, c[k].body)
      BY <2>0, <3>1 DEF Follows
    <3>. QED
      BY <3>2, <3>3, Zenon
  <2>2. CASE k > Len(c)
    <3>. DEFINE n == k - Len(c)
    <3>1. n \in 1 .. Len(bs) /\ k = Len(c) + n
      BY <1>2, <1>4, <2>2
    <3>. HIDE DEF n
    <3>2. /\ d[k] = b[n] /\ d[k].seq = k /\ d[k].prev = p \o SubSeq(bs, 1, n - 1)
          /\ d[k].hash = Append(d[k].prev, d[k].body)
                /\ d[k].body = bs[n]
      <4>1. d[k] = b[n]
        BY <1>4, <3>1
      <4>2. /\ b[n].seq = Len(c) + n /\ b[n].prev = p \o SubSeq(bs, 1, n - 1)
            /\ b[n].hash = Append(p \o SubSeq(bs, 1, n - 1), bs[n]) /\ b[n].body = bs[n]
        BY <1>3, <3>1
      <4>. QED
        BY <3>1, <4>1, <4>2
    <3>3. CASE n = 1
      <4>1. p \o SubSeq(bs, 1, n - 1) = p
        <5>1. SubSeq(bs, 1, 0) = <<>>
          OBVIOUS
        <5>. QED
          BY <1>1, <3>3, <5>1
      <4>2. k = 1 => c = <<>>
        BY <1>2, <3>1, <3>3
      <4>3. k # 1 => k - 1 = Len(c) /\ Len(c) \in 1 .. Len(c) /\ c # <<>>
        BY <1>2, <3>1, <3>3
      <4>4. k # 1 => c[Len(c)].seq = Len(c)
        BY <4>3 DEF Whole
      <4>. QED
        BY <1>2, <1>4, <3>1, <3>2, <3>3, <4>1, <4>2, <4>3, <4>4
    <3>4. CASE n # 1
      <4>1. n - 1 \in 1 .. Len(bs) /\ k - 1 = Len(c) + (n - 1) /\ k # 1
        BY <1>2, <3>1, <3>4
      <4>2. d[k - 1] = b[n - 1] /\ d[k - 1].seq = k - 1
        BY <1>3, <1>4, <4>1
      <4>3. b[n - 1].hash = Append(p \o SubSeq(bs, 1, (n - 1) - 1), bs[n - 1])
        BY <1>3, <4>1
      <4>4. p \o SubSeq(bs, 1, n - 1) = Append(p \o SubSeq(bs, 1, (n - 1) - 1), bs[n - 1])
        BY <1>1, <4>1, OneLonger
      <4>5. k - 1 + 1 = k
        BY <3>1
      <4>. QED
        BY <3>2, <4>1, <4>2, <4>3, <4>4, <4>5
    <3>. QED
      BY <3>3, <3>4
  <2>. QED
    BY <1>2, <1>4, <2>1, <2>2
<1>6. Whole(d)
  BY <1>4, <1>5, FollowingIsWhole
<1>7. \A k \in 1 .. Len(bs) : d[Len(c) + k].body = bs[k]
  BY <1>3, <1>4
<1>. QED
  BY <1>4, <1>6, <1>7 DEF d, b

\* No record repeats the one below it of the same call.
NoEcho(c) ==
  \A j \in DOMAIN c : \A i \in 1 .. j - 1 :
    c[i].body.uid = c[j].body.uid /\ (\A k \in i + 1 .. j - 1 : c[k].body.uid # c[i].body.uid) =>
      \/ c[i].body.state # c[j].body.state \/ c[i].body.cost # c[j].body.cost
      \/ c[j].body.extra \ c[i].body.extra # {}

\* Each record is of a row that the ledger has, and one of a completed call is of its outcome.
OfRows(c, l) ==
  \A k \in DOMAIN c : LET claim == c[k].body IN
    /\ l[claim.uid] # None
    /\ claim.state = "complete" =>
         l[claim.uid].state = "complete" /\ l[claim.uid].cost = claim.cost

\* The newest record of a call says what its row does, or the call has completed since.
UpToDate(c, l) ==
  \A u \in Sealed : LET before == Tamper!Latest(c, u) IN
    before # None => \/ before = Tamper!SealedFields(u, l[u], before.schema)
                     \/ Tamper!MayDiffer(before, l[u])

\* The anchors are of the chain as it is.
OfChain(h, c) ==
  \A j \in DOMAIN h : /\ h[j].seq \in 1 .. Len(c)
                      /\ h[j].head = Tamper!Bodies(SubSeq(c, 1, h[j].seq))

Honest(c, l, h) == Whole(c) /\ NoEcho(c) /\ OfRows(c, l) /\ UpToDate(c, l) /\ OfChain(h, c)

Ledgers == [Sealed -> Tamper!Row \cup {None}]

\* The newest record of a call is the last that is of it.
LEMMA LatestIs ==
  ASSUME SoloAssumption, NEW c \in Seq(TRecord), NEW u, NEW m \in DOMAIN c, c[m].body.uid = u,
         \A j \in DOMAIN c : j > m => c[j].body.uid # u
  PROVE  Tamper!Latest(c, u) = c[m].body
<1>1. PICK n \in DOMAIN c : /\ n >= m /\ c[n].body.uid = u /\ Tamper!Latest(c, u) = c[n].body
  BY LatestOf
<1>2. n = m
  <2>1. n \in Nat /\ m \in Nat
    OBVIOUS
  <2>2. ~(n > m)
    BY <1>1
  <2>. QED
    BY <1>1, <2>1, <2>2
<1>. QED
  BY <1>1, <1>2

\* Two chains with the same records up to a position have the same bodies there.
LEMMA SamePrefix ==
  ASSUME NEW c \in Seq(TRecord), NEW d \in Seq(TRecord), NEW n \in Nat, n <= Len(c), n <= Len(d),
         \A k \in 1 .. n : c[k].body = d[k].body
  PROVE  Tamper!Bodies(SubSeq(c, 1, n)) = Tamper!Bodies(SubSeq(d, 1, n))
<1>. DEFINE x == Tamper!Bodies(SubSeq(c, 1, n))
            y == Tamper!Bodies(SubSeq(d, 1, n))
<1>0. n \in 0 .. Len(c) /\ n \in 0 .. Len(d)
  OBVIOUS
<1>1. /\ x \in Seq(TBody) /\ Len(x) = n /\ \A k \in 1 .. n : x[k] = c[k].body
      /\ y \in Seq(TBody) /\ Len(y) = n /\ \A k \in 1 .. n : y[k] = d[k].body
  BY <1>0, BodiesOfPrefix
<1>. HIDE DEF x, y
<1>2. \A k \in 1 .. n : x[k] = y[k]
  BY <1>1
<1>3. x = y
  BY <1>1, <1>2
<1>. QED
  BY <1>3 DEF x, y

\* A new call changes nothing of what was sealed.
LEMMA HonestBegin ==
  ASSUME SoloAssumption, NEW c \in Seq(TRecord), NEW l \in Ledgers, NEW h,
         Honest(c, l, h), NEW n \in Sealed, l[n] = None, NEW r
  PROVE  Honest(c, [l EXCEPT ![n] = r], h)
<1>. DEFINE m == [l EXCEPT ![n] = r]
<1>0. \A k \in DOMAIN c : c[k].body.uid \in Sealed /\ c[k].body.uid # n
  <2>1. \A k \in DOMAIN c : c[k] \in TRecord
    OBVIOUS
  <2>. QED
    BY <2>1 DEF Honest, OfRows, TRecord, TBody, Tamper!Body
<1>1. \A u \in Sealed : u # n => m[u] = l[u]
  BY DEF Ledgers
<1>2. Tamper!Latest(c, n) = None
  BY <1>0, LatestOf
<1>. HIDE DEF m
<1>3. OfRows(c, m)
  BY <1>0, <1>1 DEF Honest, OfRows
<1>4. UpToDate(c, m)
  BY <1>1, <1>2 DEF Honest, UpToDate
<1>. QED
  BY <1>3, <1>4 DEF Honest, m

\* A call that completes is, from then on, ahead of its newest record.
LEMMA HonestComplete ==
  ASSUME SoloAssumption, NEW c \in Seq(TRecord), NEW l \in Ledgers, NEW h,
         Honest(c, l, h), NEW n \in Sealed, l[n] # None, l[n].state = "in_flight",
         NEW m \in Ledgers, m[n] # None, m[n].state = "complete",
         \A u \in Sealed : u # n => m[u] = l[u]
  PROVE  Honest(c, m, h)
<1>0. \A k \in DOMAIN c : c[k].body.uid \in Sealed
  <2>1. \A k \in DOMAIN c : c[k] \in TRecord
    OBVIOUS
  <2>. QED
    BY <2>1 DEF TRecord, TBody, Tamper!Body
<1>3. OfRows(c, m)
  BY <1>0 DEF Honest, OfRows
<1>4. UpToDate(c, m)
  <2>1. ASSUME NEW before, before = Tamper!SealedFields(n, l[n], before.schema)
        PROVE  Tamper!MayDiffer(before, m[n])
    BY <2>1 DEF Tamper!SealedFields, Tamper!MayDiffer
  <2>2. ASSUME NEW before PROVE ~Tamper!MayDiffer(before, l[n])
    BY DEF Tamper!MayDiffer
  <2>. QED
    BY <2>1, <2>2 DEF Honest, UpToDate
<1>. QED
  BY <1>3, <1>4 DEF Honest

\* A head that is published is the head of the chain.
LEMMA HonestAnchor ==
  ASSUME SoloAssumption, NEW c \in Seq(TRecord), NEW l, NEW h \in Seq(TAnchor),
         Honest(c, l, h), c # <<>>
  PROVE  LET a == [seq |-> Tamper!LastSeq(c), head |-> Tamper!Last(c).hash]
         IN  a \in TAnchor /\ Honest(c, l, Append(h, a))
<1>. DEFINE a == [seq |-> Tamper!LastSeq(c), head |-> Tamper!Last(c).hash]
            g == Append(h, a)
<1>1. Len(c) \in DOMAIN c /\ Len(c) \in Nat \ {0} /\ c[Len(c)] \in TRecord
  OBVIOUS
<1>2. Tamper!LastSeq(c) = Len(c) /\ Tamper!Last(c) = c[Len(c)]
  BY WholeChain DEF Honest, Tamper!Last
<1>3. Tamper!Last(c).hash = Tamper!Bodies(SubSeq(c, 1, Len(c))) /\ Tamper!Last(c).hash \in Seq(TBody)
  BY <1>1, <1>2 DEF Honest, Whole, TRecord
<1>4. a \in TAnchor /\ a.seq = Len(c) /\ a.head = Tamper!Bodies(SubSeq(c, 1, Len(c)))
  BY <1>1, <1>2, <1>3 DEF TAnchor
<1>. HIDE DEF a
<1>5. g \in Seq(TAnchor) /\ Len(g) = Len(h) + 1 /\ g[Len(h) + 1] = a
      /\ \A j \in 1 .. Len(h) : g[j] = h[j]
  BY <1>4
<1>. HIDE DEF g
<1>6. OfChain(g, c)
  <2>. SUFFICES ASSUME NEW j \in DOMAIN g
                PROVE  /\ g[j].seq \in 1 .. Len(c)
                       /\ g[j].head = Tamper!Bodies(SubSeq(c, 1, g[j].seq))
    BY DEF OfChain
  <2>1. j \in 1 .. Len(h) \/ j = Len(h) + 1
    BY <1>5
  <2>2. CASE j \in 1 .. Len(h)
    <3>1. j \in DOMAIN h
      BY <2>2
    <3>. QED
      BY <1>5, <2>2, <3>1 DEF Honest, OfChain
  <2>3. CASE j = Len(h) + 1
    BY <1>1, <1>4, <1>5, <2>3
  <2>. QED
    BY <2>1, <2>2, <2>3
<1>. QED
  BY <1>4, <1>6 DEF Honest, g, a

\* Sealing the rows that need it, each once and as it is, leaves the chain honest.
LEMMA HonestSeal ==
  ASSUME SoloAssumption, NEW c \in Seq(TRecord), NEW l \in Ledgers, NEW h \in Seq(TAnchor),
         Honest(c, l, h), NEW s \in 1 .. Schemas, NEW uids \in Seq(Sealed),
         \A j, k \in DOMAIN uids : j # k => uids[j] # uids[k],
         \A k \in DOMAIN uids :
           /\ l[uids[k]] # None
           /\ LET before == Tamper!Latest(c, uids[k])
              IN  \/ before = None
                  \/ before # Tamper!SealedFields(uids[k], l[uids[k]], before.schema)
                  \/ l[uids[k]].extra \cap (before.schema + 1 .. s) # {},
         NEW d \in Seq(TRecord), Whole(d), Len(d) = Len(c) + Len(uids),
         \A k \in 1 .. Len(c) : d[k] = c[k],
         \A k \in 1 .. Len(uids) : d[Len(c) + k].body = Tamper!SealedFields(uids[k], l[uids[k]], s)
  PROVE  Honest(d, l, h)
<1>. DEFINE n == Len(c)
<1>0. /\ n \in Nat /\ Len(uids) \in Nat /\ DOMAIN uids = 1 .. Len(uids) /\ DOMAIN c = 1 .. n
      /\ DOMAIN d = 1 .. n + Len(uids)
  OBVIOUS
<1>1. \A j \in DOMAIN d : j \in 1 .. n \/ \E k \in 1 .. Len(uids) : j = n + k
  <2>1. \A j \in DOMAIN d : j > n => j - n \in 1 .. Len(uids) /\ j = n + (j - n)
    BY <1>0
  <2>. QED
    BY <1>0, <2>1
<1>2. \A k \in 1 .. Len(uids) : n + k \in DOMAIN d /\ n + k > n
  BY <1>0
<1>3. \A u, entry, t : /\ Tamper!SealedFields(u, entry, t).uid = u
                     /\ Tamper!SealedFields(u, entry, t).schema = t
                     /\ Tamper!SealedFields(u, entry, t).state = entry.state
                     /\ Tamper!SealedFields(u, entry, t).cost = entry.cost
                     /\ Tamper!SealedFields(u, entry, t).extra = entry.extra \cap 2 .. t
  BY DEF Tamper!SealedFields
<1>4. OfRows(d, l)
  <2>. SUFFICES ASSUME NEW j \in DOMAIN d
                PROVE  /\ l[d[j].body.uid] # None
                       /\ d[j].body.state = "complete" =>
                            /\ l[d[j].body.uid].state = "complete"
                            /\ l[d[j].body.uid].cost = d[j].body.cost
    BY DEF OfRows
  <2>1. CASE j \in 1 .. n
    BY <1>0, <2>1 DEF Honest, OfRows
  <2>2. ASSUME NEW k \in 1 .. Len(uids), j = n + k
        PROVE  /\ l[d[j].body.uid] # None
               /\ d[j].body.state = "complete" =>
                    /\ l[d[j].body.uid].state = "complete"
                    /\ l[d[j].body.uid].cost = d[j].body.cost
    <3>1. d[j].body = Tamper!SealedFields(uids[k], l[uids[k]], s) /\ k \in DOMAIN uids
      BY <1>0, <2>2
    <3>2. /\ d[j].body.uid = uids[k] /\ d[j].body.state = l[uids[k]].state
          /\ d[j].body.cost = l[uids[k]].cost
      BY <1>3, <3>1
    <3>3. l[uids[k]] # None
      BY <3>1
    <3>. QED
      BY <3>2, <3>3
  <2>. QED
    BY <1>1, <2>1, <2>2
<1>5. UpToDate(d, l)
  <2>. SUFFICES ASSUME NEW u \in Sealed, Tamper!Latest(d, u) # None
                PROVE  \/ Tamper!Latest(d, u) = Tamper!SealedFields(u, l[u], Tamper!Latest(d, u).schema)
                       \/ Tamper!MayDiffer(Tamper!Latest(d, u), l[u])
    BY DEF UpToDate
  <2>1. CASE \E k \in 1 .. Len(uids) : uids[k] = u
    <3>1. PICK k \in 1 .. Len(uids) : uids[k] = u
      BY <2>1
    <3>2. d[n + k].body = Tamper!SealedFields(u, l[u], s)
      BY <3>1
    <3>3. ASSUME NEW j \in DOMAIN d, j > n + k PROVE d[j].body.uid # u
      <4>1. PICK i \in 1 .. Len(uids) : j = n + i
        BY <1>0, <1>1, <3>3
      <4>2. i # k /\ i \in DOMAIN uids /\ k \in DOMAIN uids
        BY <1>0, <3>3, <4>1
      <4>3. uids[i] # u
        BY <3>1, <4>2
      <4>. QED
        BY <1>3, <4>1, <4>3
    <3>4. Tamper!Latest(d, u) = d[n + k].body
      <4>. DEFINE m == n + k
      <4>1. m \in DOMAIN d /\ d[m].body.uid = u
        BY <1>2, <1>3, <3>2
      <4>2. \A j \in DOMAIN d : j > m => d[j].body.uid # u
        BY <3>3
      <4>. HIDE DEF m
      <4>3. Tamper!Latest(d, u) = d[m].body
        BY <4>1, <4>2, LatestIs
      <4>. QED
        BY <4>3 DEF m
    <3>. QED
      BY <1>3, <3>2, <3>4
  <2>2. CASE \A k \in 1 .. Len(uids) : uids[k] # u
    <3>1. \A j \in DOMAIN d : d[j].body.uid = u => j \in 1 .. n
      BY <1>1, <1>3, <2>2
    <3>2. PICK j \in DOMAIN d : d[j].body.uid = u
      BY LatestOf
    <3>3. PICK m \in DOMAIN d : /\ d[m].body.uid = u /\ Tamper!Latest(d, u) = d[m].body
                               /\ \A i \in DOMAIN d : d[i].body.uid = u => i <= m
      BY <3>2, LatestOf
    <3>4. m \in 1 .. n
      BY <3>1, <3>3
    <3>5. Tamper!Latest(c, u) = c[m].body
      <4>1. m \in DOMAIN c /\ c[m].body.uid = u
        BY <1>0, <3>3, <3>4
      <4>2. \A i \in DOMAIN c : i > m => c[i].body.uid # u
        BY <1>0, <3>3, <3>4
      <4>. QED
        BY <4>1, <4>2, LatestIs
    <3>6. Tamper!Latest(d, u) = Tamper!Latest(c, u)
      BY <3>3, <3>4, <3>5
    <3>. QED
      BY <3>6 DEF Honest, UpToDate
  <2>. QED
    BY <2>1, <2>2
<1>6. OfChain(h, d)
  <2>. SUFFICES ASSUME NEW j \in DOMAIN h
                PROVE  /\ h[j].seq \in 1 .. Len(d)
                       /\ h[j].head = Tamper!Bodies(SubSeq(d, 1, h[j].seq))
    BY DEF OfChain
  <2>1. h[j].seq \in 1 .. n /\ h[j].head = Tamper!Bodies(SubSeq(c, 1, h[j].seq))
    BY DEF Honest, OfChain
  <2>2. Tamper!Bodies(SubSeq(c, 1, h[j].seq)) = Tamper!Bodies(SubSeq(d, 1, h[j].seq))
    <3>1. h[j].seq \in Nat /\ h[j].seq <= Len(c) /\ h[j].seq <= Len(d)
      BY <1>0, <2>1
    <3>2. \A k \in 1 .. h[j].seq : c[k].body = d[k].body
      BY <1>0, <2>1
    <3>. QED
      BY <3>1, <3>2, SamePrefix
  <2>. QED
    BY <1>0, <2>1, <2>2
<1>7. NoEcho(d)
  <2>. SUFFICES ASSUME NEW j \in DOMAIN d, NEW i \in 1 .. j - 1, d[i].body.uid = d[j].body.uid,
                       \A k \in i + 1 .. j - 1 : d[k].body.uid # d[i].body.uid
                PROVE  \/ d[i].body.state # d[j].body.state \/ d[i].body.cost # d[j].body.cost
                       \/ d[j].body.extra \ d[i].body.extra # {}
    BY DEF NoEcho
  <2>1. CASE j \in 1 .. n
    <3>1. i \in 1 .. n /\ j \in DOMAIN c /\ \A k \in i + 1 .. j - 1 : k \in 1 .. n
      BY <1>0, <2>1
    <3>2. d[i] = c[i] /\ d[j] = c[j] /\ \A k \in i + 1 .. j - 1 : d[k] = c[k]
      BY <2>1, <3>1
    <3>3. NoEcho(c) /\ i \in 1 .. j - 1
      BY DEF Honest
    <3>4. c[i].body.uid = c[j].body.uid /\ \A k \in i + 1 .. j - 1 : c[k].body.uid # c[i].body.uid
      BY <3>2
    <3>5. \/ c[i].body.state # c[j].body.state \/ c[i].body.cost # c[j].body.cost
          \/ c[j].body.extra \ c[i].body.extra # {}
      BY <3>1, <3>3, <3>4 DEF NoEcho
    <3>. QED
      BY <3>2, <3>5
  <2>2. ASSUME NEW b \in 1 .. Len(uids), j = n + b
        PROVE  \/ d[i].body.state # d[j].body.state \/ d[i].body.cost # d[j].body.cost
               \/ d[j].body.extra \ d[i].body.extra # {}
    <3>. DEFINE u == uids[b]  new == d[j].body  old == d[i].body
    <3>1. new = Tamper!SealedFields(u, l[u], s) /\ old.uid = u /\ b \in DOMAIN uids /\ u \in Sealed
      BY <1>0, <1>3, <2>2
    <3>2. i \in 1 .. n
      <4>1. i \in DOMAIN d
        BY <1>0
      <4>2. ASSUME NEW a \in 1 .. Len(uids), i = n + a PROVE FALSE
        <5>1. a # b /\ a \in DOMAIN uids
          BY <1>0, <2>2, <4>2
        <5>2. uids[a] # u
          BY <3>1, <5>1
        <5>3. old.uid = uids[a]
          BY <1>3, <4>2
        <5>. QED
          BY <3>1, <5>2, <5>3
      <4>. QED
        BY <1>1, <4>1, <4>2
    <3>3. old = c[i].body /\ Tamper!Latest(c, u) = old
      <4>1. d[i] = c[i] /\ i \in DOMAIN c
        BY <1>0, <3>2
      <4>2. ASSUME NEW k \in DOMAIN c, k > i PROVE c[k].body.uid # u
        <5>1. k \in i + 1 .. j - 1 /\ d[k] = c[k]
          BY <1>0, <2>2, <3>2, <4>2
        <5>. QED
          BY <3>1, <5>1
      <4>. QED
        <5>1. c[i].body = old /\ c[i].body.uid = u
          BY <3>1, <4>1
        <5>2. \A k \in DOMAIN c : k > i => c[k].body.uid # u
          BY <4>2
        <5>. HIDE DEF old, u
        <5>3. Tamper!Latest(c, u) = c[i].body
          BY <4>1, <5>1, <5>2, LatestIs, ZenonT(60)
        <5>. QED
          BY <5>1, <5>3
    <3>4. old \in TBody
      <4>1. i \in DOMAIN c /\ c[i] \in TRecord
        BY <1>0, <3>2
      <4>. QED
        BY <3>3, <4>1 DEF TRecord
    <3>5. old # None
      BY <3>4, SealedAreNumbers
    <3>6. \/ old = Tamper!SealedFields(u, l[u], old.schema)
          \/ Tamper!MayDiffer(old, l[u])
      BY <3>1, <3>3, <3>5 DEF Honest, UpToDate
    <3>7. \/ old # Tamper!SealedFields(u, l[u], old.schema)
          \/ l[u].extra \cap (old.schema + 1 .. s) # {}
      BY <3>1, <3>3, <3>5
    <3>8. CASE Tamper!MayDiffer(old, l[u])
      BY <1>3, <3>1, <3>8 DEF Tamper!MayDiffer
    <3>9. CASE old = Tamper!SealedFields(u, l[u], old.schema)
      <4>1. PICK e \in l[u].extra : e \in old.schema + 1 .. s
        <5>1. l[u].extra \cap (old.schema + 1 .. s) # {}
          BY <3>7, <3>9
        <5>. HIDE DEF old, u
        <5>. QED
          BY <5>1
      <4>2. old.schema \in 1 .. Schemas /\ Schemas \in Nat /\ s \in Nat
        <5>1. \A x \in TBody : x.schema \in 1 .. Schemas
          BY DEF TBody, Tamper!Body
        <5>2. Schemas \in Nat
          BY SealedAreNumbers
        <5>3. old.schema \in 1 .. Schemas
          BY <3>4, <5>1
        <5>. HIDE DEF old
        <5>. QED
          BY <5>2, <5>3
      <4>3. e \in 2 .. s /\ e \notin 2 .. old.schema
        BY <4>1, <4>2
      <4>4. e \in new.extra /\ e \notin old.extra
        BY <1>3, <3>1, <3>9, <4>1, <4>3
      <4>. QED
        BY <4>4
    <3>. QED
      BY <3>6, <3>8, <3>9
  <2>. QED
    BY <1>1, <2>1, <2>2
<1>. QED
  BY <1>4, <1>5, <1>6, <1>7 DEF Honest

\* A record of a chain, and what it holds.
LEMMA RecordOf ==
  ASSUME NEW c \in Seq(TRecord), NEW k \in 1 .. Len(c)
  PROVE  /\ c[k] \in TRecord /\ c[k].body \in TBody /\ c[k].hash \in Seq(TBody)
         /\ c[k].prev \in Seq(TBody) /\ c[k].seq \in Nat \ {0}
<1>1. c[k] \in TRecord
  OBVIOUS
<1>. QED
  BY <1>1 DEF TRecord

\* The fields of a body.
LEMMA BodyOf ==
  ASSUME NEW b \in TBody
  PROVE  /\ b.uid \in Sealed /\ b.schema \in 1 .. Schemas /\ b.state \in Tamper!States
         /\ b.cost \in {0, 1} /\ b.extra \in SUBSET (2 .. Schemas)
BY DEF TBody, Tamper!Body

\* The end of a chain.
LEMMA EndOf ==
  ASSUME NEW c \in Seq(TRecord)
  PROVE  /\ Tamper!LastSeq(c) \in Nat
         /\ c # <<>> => /\ Tamper!Last(c) = c[Len(c)] /\ Tamper!Last(c).hash \in Seq(TBody)
                        /\ Tamper!LastSeq(c) = c[Len(c)].seq /\ Tamper!LastSeq(c) # 0
<1>1. CASE c = <<>>
  BY <1>1 DEF Tamper!LastSeq
<1>2. CASE c # <<>>
  <2>1. Len(c) \in 1 .. Len(c)
    BY <1>2
  <2>. QED
    BY <1>2, <2>1, RecordOf DEF Tamper!LastSeq, Tamper!Last
<1>. QED
  BY <1>1, <1>2

\* What a record says with its cost understated.
LEMMA BodyEdited ==
  ASSUME NEW b \in TBody
  PROVE  /\ [b EXCEPT !.cost = 1 - @] \in TBody
         /\ [b EXCEPT !.cost = 1 - @].uid = b.uid /\ [b EXCEPT !.cost = 1 - @].cost # b.cost
<1>1. b.cost \in {0, 1} /\ 1 - b.cost \in {0, 1} /\ 1 - b.cost # b.cost
  BY BodyOf
<1>. QED
  BY <1>1 DEF TBody, Tamper!Body

\* Two sequences, one after the other.
LEMMA Joined ==
  ASSUME NEW S, NEW a \in Seq(S), NEW b \in Seq(S)
  PROVE  /\ a \o b \in Seq(S) /\ Len(a \o b) = Len(a) + Len(b)
         /\ \A k \in 1 .. Len(a) + Len(b) : (a \o b)[k] = IF k <= Len(a) THEN a[k] ELSE b[k - Len(a)]
OBVIOUS

\* A chain of which one record is edited.
LEMMA EditedIs ==
  ASSUME records \in Seq(TRecord), NEW i \in 1 .. Len(records)
  PROVE  /\ Tamper!Edited(i) \in Seq(TRecord) /\ Len(Tamper!Edited(i)) = Len(records)
         /\ \A k \in 1 .. Len(records) : k # i => Tamper!Edited(i)[k].body = records[k].body
         /\ Tamper!Edited(i)[i].body.uid = records[i].body.uid
         /\ Tamper!Edited(i)[i].body.cost # records[i].body.cost
<1>. DEFINE b == [records[i].body EXCEPT !.cost = 1 - @]
            r == [records[i] EXCEPT !.body = b]
<1>1. records[i] \in TRecord /\ records[i].body \in TBody
  BY RecordOf
<1>2. b \in TBody /\ b.uid = records[i].body.uid /\ b.cost # records[i].body.cost
  BY <1>1, BodyEdited
<1>3. Tamper!Edited(i) = [records EXCEPT ![i] = r]
  BY DEF Tamper!Edited
<1>. HIDE DEF b
<1>4. r \in TRecord /\ r.body = b
  BY <1>1, <1>2 DEF TRecord
<1>. HIDE DEF r
<1>5. /\ [records EXCEPT ![i] = r] \in Seq(TRecord) /\ Len([records EXCEPT ![i] = r]) = Len(records)
      /\ \A k \in 1 .. Len(records) : [records EXCEPT ![i] = r][k] = IF k = i THEN r ELSE records[k]
  BY <1>4
<1>. QED
  BY <1>2, <1>3, <1>4, <1>5

\* The records from a position on, numbered and hashed anew: each says what it said.
LEMMA RewrittenIs ==
  ASSUME NEW c \in Seq(TRecord), NEW i \in 1 .. Len(c) + 1
  PROVE  /\ Tamper!RewriteFrom(c, i) \in Seq(TRecord)
         /\ Len(Tamper!RewriteFrom(c, i)) = Len(c)
         /\ \A k \in 1 .. Len(c) : Tamper!RewriteFrom(c, i)[k].body = c[k].body
<1>. DEFINE q  == SubSeq(c, i, Len(c))
            bs == Tamper!Bodies(q)
            p  == IF i > 1 THEN c[i - 1].hash ELSE <<>>
            b  == Tamper!Build(bs, p, i)
            a  == SubSeq(c, 1, i - 1)
<1>0. i \in Nat \ {0} /\ Len(c) \in Nat
  OBVIOUS
<1>1. a \in Seq(TRecord) /\ Len(a) = i - 1 /\ \A k \in 1 .. i - 1 : a[k] = c[k]
  <2>1. i - 1 \in 0 .. Len(c)
    BY <1>0
  <2>. QED
    BY <2>1
<1>2. q \in Seq(TRecord) /\ Len(q) = Len(c) - i + 1 /\ \A k \in 1 .. Len(c) - i + 1 : q[k] = c[i + k - 1]
  <2>1. CASE i <= Len(c)
    BY <2>1
  <2>2. CASE i = Len(c) + 1
    BY <2>2
  <2>. QED
    BY <1>0, <2>1, <2>2
<1>. HIDE DEF a, q
<1>3. bs \in Seq(TBody) /\ Len(bs) = Len(q) /\ \A k \in 1 .. Len(q) : bs[k] = q[k].body
  <2>1. bs = [k \in 1 .. Len(q) |-> q[k].body] /\ Len(q) \in Nat
    BY <1>2 DEF Tamper!Bodies
  <2>2. \A k \in 1 .. Len(q) : q[k].body \in TBody
    BY <1>2, RecordOf
  <2>. QED
    BY <2>1, <2>2
<1>. HIDE DEF bs
<1>4. p \in Seq(TBody)
  <2>1. i > 1 => i - 1 \in 1 .. Len(c)
    BY <1>0
  <2>. QED
    BY <2>1, RecordOf
<1>. HIDE DEF p
<1>5. b \in Seq(TRecord) /\ Len(b) = Len(bs) /\ \A k \in 1 .. Len(bs) : b[k].body = bs[k]
  BY <1>0, <1>3, <1>4, Built
<1>6. Tamper!RewriteFrom(c, i) = a \o b
  BY DEF Tamper!RewriteFrom, Tamper!Genesis, a, b, q, p, bs
<1>. HIDE DEF b
<1>. DEFINE ab == a \o b
<1>. HIDE DEF ab
<1>7. /\ ab \in Seq(TRecord) /\ Len(ab) = Len(a) + Len(b)
      /\ \A k \in 1 .. Len(a) + Len(b) : ab[k] = IF k <= Len(a) THEN a[k] ELSE b[k - Len(a)]
  <2>1. a \in Seq(TRecord) /\ b \in Seq(TRecord)
    BY <1>1, <1>5
  <2>. QED
    BY <2>1, Joined, Zenon DEF ab
<1>8. Len(a) + Len(b) = Len(c)
  BY <1>0, <1>1, <1>2, <1>3, <1>5
<1>9. ASSUME NEW k \in 1 .. Len(c) PROVE ab[k].body = c[k].body
  <2>1. CASE k <= i - 1
    BY <1>0, <1>1, <1>7, <1>8, <2>1
  <2>2. CASE k > i - 1
    <3>1. k - (i - 1) \in 1 .. Len(c) - i + 1 /\ i + (k - (i - 1)) - 1 = k
      BY <1>0, <2>2
    <3>2. ab[k] = b[k - (i - 1)]
      <4>1. ~(k <= Len(a)) /\ Len(a) = i - 1
        BY <1>0, <1>1, <2>2
      <4>2. ab[k] = IF k <= Len(a) THEN a[k] ELSE b[k - Len(a)]
        BY <1>7, <1>8
      <4>. QED
        BY <4>1, <4>2
    <3>. QED
      BY <1>2, <1>3, <1>5, <3>1, <3>2
  <2>. QED
    BY <1>0, <2>1, <2>2
<1>. QED
  BY <1>6, <1>7, <1>8, <1>9 DEF ab

\* A chain of which one record is taken out.
LEMMA RemovedIs ==
  ASSUME NEW c \in Seq(TRecord), NEW i \in 1 .. Len(c)
  PROVE  /\ Tamper!RemoveAt(c, i) \in Seq(TRecord) /\ Len(Tamper!RemoveAt(c, i)) = Len(c) - 1
         /\ \A k \in 1 .. Len(c) - 1 :
              Tamper!RemoveAt(c, i)[k] = IF k < i THEN c[k] ELSE c[k + 1]
<1>. DEFINE a == SubSeq(c, 1, i - 1)  b == SubSeq(c, i + 1, Len(c))
<1>0. i \in Nat \ {0} /\ Len(c) \in Nat /\ i <= Len(c)
  OBVIOUS
<1>1. a \in Seq(TRecord) /\ Len(a) = i - 1 /\ \A k \in 1 .. i - 1 : a[k] = c[k]
  <2>1. i - 1 \in 0 .. Len(c)
    BY <1>0
  <2>. QED
    BY <2>1
<1>2. b \in Seq(TRecord) /\ Len(b) = Len(c) - i /\ \A k \in 1 .. Len(c) - i : b[k] = c[i + k]
  <2>1. CASE i < Len(c)
    BY <2>1
  <2>2. CASE i = Len(c)
    BY <2>2
  <2>. QED
    BY <1>0, <2>1, <2>2
<1>3. Tamper!RemoveAt(c, i) = a \o b
  BY DEF Tamper!RemoveAt
<1>. HIDE DEF a, b
<1>. DEFINE ab == a \o b
<1>. HIDE DEF ab
<1>4. /\ ab \in Seq(TRecord) /\ Len(ab) = Len(a) + Len(b)
      /\ \A k \in 1 .. Len(a) + Len(b) : ab[k] = IF k <= Len(a) THEN a[k] ELSE b[k - Len(a)]
  BY <1>1, <1>2, Joined DEF ab
<1>5. Len(a) + Len(b) = Len(c) - 1
  BY <1>0, <1>1, <1>2
<1>6. ASSUME NEW k \in 1 .. Len(c) - 1 PROVE ab[k] = IF k < i THEN c[k] ELSE c[k + 1]
  <2>1. CASE k < i
    BY <1>0, <1>1, <1>4, <1>5, <2>1
  <2>2. CASE k >= i
    <3>1. k - (i - 1) \in 1 .. Len(c) - i /\ i + (k - (i - 1)) = k + 1
      BY <1>0, <2>2
    <3>2. ab[k] = b[k - (i - 1)]
      BY <1>0, <1>1, <1>4, <1>5, <2>2
    <3>. QED
      BY <1>0, <1>2, <2>2, <3>1, <3>2
  <2>. QED
    BY <1>0, <2>1, <2>2
<1>. QED
  BY <1>3, <1>4, <1>5, <1>6 DEF ab

\* A chain into which a record is put.
LEMMA InsertedIs ==
  ASSUME NEW c \in Seq(TRecord), NEW i \in 1 .. Len(c), NEW r \in TRecord
  PROVE  /\ Tamper!InsertAt(c, i, r) \in Seq(TRecord) /\ Len(Tamper!InsertAt(c, i, r)) = Len(c) + 1
         /\ \A k \in 1 .. Len(c) + 1 :
              Tamper!InsertAt(c, i, r)[k] = IF k < i THEN c[k] ELSE IF k = i THEN r ELSE c[k - 1]
<1>. DEFINE a == SubSeq(c, 1, i - 1)  b == SubSeq(c, i, Len(c))
<1>0. i \in Nat \ {0} /\ Len(c) \in Nat /\ i <= Len(c)
  OBVIOUS
<1>1. a \in Seq(TRecord) /\ Len(a) = i - 1 /\ \A k \in 1 .. i - 1 : a[k] = c[k]
  <2>1. i - 1 \in 0 .. Len(c)
    BY <1>0
  <2>. QED
    BY <2>1
<1>2. b \in Seq(TRecord) /\ Len(b) = Len(c) - i + 1 /\ \A k \in 1 .. Len(c) - i + 1 : b[k] = c[i + k - 1]
  BY <1>0
<1>3. Tamper!InsertAt(c, i, r) = (a \o <<r>>) \o b
  BY DEF Tamper!InsertAt
<1>. HIDE DEF a, b
<1>4. /\ a \o <<r>> \in Seq(TRecord) /\ Len(a \o <<r>>) = i
      /\ \A k \in 1 .. i : (a \o <<r>>)[k] = IF k <= i - 1 THEN a[k] ELSE r
  BY <1>0, <1>1
<1>. DEFINE e == a \o <<r>>
<1>. HIDE DEF e
<1>5. /\ e \in Seq(TRecord) /\ Len(e) = i /\ \A k \in 1 .. i : e[k] = IF k <= i - 1 THEN a[k] ELSE r
  BY <1>4 DEF e
<1>. DEFINE eb == e \o b
<1>. HIDE DEF eb
<1>6. /\ eb \in Seq(TRecord) /\ Len(eb) = Len(e) + Len(b)
      /\ \A k \in 1 .. Len(e) + Len(b) : eb[k] = IF k <= Len(e) THEN e[k] ELSE b[k - Len(e)]
  BY <1>2, <1>5, Joined DEF eb
<1>7. Len(e) + Len(b) = Len(c) + 1
  BY <1>0, <1>2, <1>5
<1>8. ASSUME NEW k \in 1 .. Len(c) + 1
      PROVE  eb[k] = IF k < i THEN c[k] ELSE IF k = i THEN r ELSE c[k - 1]
  <2>1. CASE k < i
    BY <1>0, <1>1, <1>5, <1>6, <1>7, <2>1
  <2>2. CASE k = i
    BY <1>0, <1>5, <1>6, <1>7, <2>2
  <2>3. CASE k > i
    <3>1. k - i \in 1 .. Len(c) - i + 1 /\ i + (k - i) - 1 = k - 1
      BY <1>0, <2>3
    <3>2. eb[k] = b[k - i]
      BY <1>0, <1>5, <1>6, <1>7, <2>3
    <3>. QED
      BY <1>0, <1>2, <2>3, <3>1, <3>2
  <2>. QED
    BY <1>0, <2>1, <2>2, <2>3
<1>. QED
  BY <1>3, <1>6, <1>7, <1>8 DEF e, eb

\* The chain that each corruption leaves.
LEMMA ChainLeft ==
  ASSUME NEW i
  PROVE  /\ Tamper!Corruption("ledger_edit", i).chain = records
         /\ Tamper!Corruption("ledger_delete", i).chain = records
         /\ Tamper!Corruption("edit", i).chain = Tamper!Edited(i)
         /\ Tamper!Corruption("edit_rehash", i).chain =
              [records EXCEPT ![i] = Tamper!Build(<<Tamper!Edited(i)[i].body>>, @.prev, @.seq)[1]]
         /\ Tamper!Corruption("delete", i).chain = Tamper!RemoveAt(records, i)
         /\ Tamper!Corruption("edit_rewrite", i).chain = Tamper!RewriteFrom(Tamper!Edited(i), i)
         /\ Tamper!Corruption("ledger_and_log", i).chain = Tamper!RewriteFrom(Tamper!Edited(i), i)
         /\ Tamper!Corruption("delete_rewrite", i).chain =
              Tamper!RewriteFrom(Tamper!RemoveAt(records, i), i)
         /\ Tamper!Corruption("insert_rewrite", i).chain =
              Tamper!RewriteFrom(Tamper!InsertAt(records, i,
                [records[i] EXCEPT !.body = Tamper!SealedFields(used + 1, Tamper!Forged, schema)]), i)
         /\ Tamper!Corruption("swap_rewrite", i).chain =
              LET j == IF i < Len(records) THEN i + 1 ELSE i - 1
              IN  Tamper!RewriteFrom([records EXCEPT ![i] = records[j], ![j] = records[i]],
                                     IF i < j THEN i ELSE j)
         /\ Tamper!Corruption("truncate", i).chain = SubSeq(records, 1, i - 1)
         /\ Tamper!Corruption("replace", i).chain = Tamper!Build(Tamper!Bodies(Tamper!Edited(i)), <<>>, 1)
<1>. USE DEF Tamper!Corruption, Tamper!Leaves
<1>1. Tamper!Corruption("ledger_edit", i).chain = records
  OBVIOUS
<1>2. Tamper!Corruption("ledger_delete", i).chain = records
  OBVIOUS
<1>3. Tamper!Corruption("edit", i).chain = Tamper!Edited(i)
  OBVIOUS
<1>4. Tamper!Corruption("edit_rehash", i).chain =
              [records EXCEPT ![i] = Tamper!Build(<<Tamper!Edited(i)[i].body>>, @.prev, @.seq)[1]]
  OBVIOUS
<1>5. Tamper!Corruption("delete", i).chain = Tamper!RemoveAt(records, i)
  OBVIOUS
<1>6. Tamper!Corruption("edit_rewrite", i).chain = Tamper!RewriteFrom(Tamper!Edited(i), i)
  OBVIOUS
<1>7. Tamper!Corruption("ledger_and_log", i).chain = Tamper!RewriteFrom(Tamper!Edited(i), i)
  OBVIOUS
<1>8. Tamper!Corruption("delete_rewrite", i).chain =
              Tamper!RewriteFrom(Tamper!RemoveAt(records, i), i)
  OBVIOUS
<1>9. Tamper!Corruption("insert_rewrite", i).chain =
              Tamper!RewriteFrom(Tamper!InsertAt(records, i,
                [records[i] EXCEPT !.body = Tamper!SealedFields(used + 1, Tamper!Forged, schema)]), i)
  OBVIOUS
<1>10. Tamper!Corruption("swap_rewrite", i).chain =
              LET j == IF i < Len(records) THEN i + 1 ELSE i - 1
              IN  Tamper!RewriteFrom([records EXCEPT ![i] = records[j], ![j] = records[i]],
                                     IF i < j THEN i ELSE j)
  OBVIOUS
<1>11. Tamper!Corruption("truncate", i).chain = SubSeq(records, 1, i - 1)
  OBVIOUS
<1>12. Tamper!Corruption("replace", i).chain = Tamper!Build(Tamper!Bodies(Tamper!Edited(i)), <<>>, 1)
  BY DEF Tamper!Genesis
<1>. QED
  BY <1>1, <1>2, <1>3, <1>4, <1>5, <1>6, <1>7, <1>8, <1>9, <1>10, <1>11, <1>12

\* The ledger that each corruption leaves.
LEMMA LedgerLeft ==
  ASSUME NEW i, NEW kind \in Tamper!Kinds
  PROVE  /\ kind \in {"ledger_edit", "ledger_and_log", "replace"} =>
              Tamper!Corruption(kind, i).ledger = Tamper!RowEdited(Tamper!UidAt(i))
         /\ kind \in {"ledger_delete", "delete_rewrite"} =>
              Tamper!Corruption(kind, i).ledger = Tamper!RowDropped(Tamper!UidAt(i))
         /\ kind \in {"edit", "edit_rehash", "delete", "edit_rewrite", "swap_rewrite"} =>
              Tamper!Corruption(kind, i).ledger = ledger
         /\ kind = "insert_rewrite" =>
              Tamper!Corruption(kind, i).ledger = [ledger EXCEPT ![used + 1] = Tamper!Forged]
         /\ kind = "truncate" =>
              Tamper!Corruption(kind, i).ledger =
                [u \in Sealed |-> IF \E k \in i .. Len(records) : Tamper!UidAt(k) = u
                                  THEN None ELSE ledger[u]]
<1>. USE DEF Tamper!Corruption, Tamper!Leaves
<1>1. kind \in {"ledger_edit", "ledger_and_log", "replace"} =>
              Tamper!Corruption(kind, i).ledger = Tamper!RowEdited(Tamper!UidAt(i))
  OBVIOUS
<1>2. kind \in {"ledger_delete", "delete_rewrite"} =>
              Tamper!Corruption(kind, i).ledger = Tamper!RowDropped(Tamper!UidAt(i))
  OBVIOUS
<1>3. kind \in {"edit", "edit_rehash", "delete", "edit_rewrite", "swap_rewrite"} =>
              Tamper!Corruption(kind, i).ledger = ledger
  <2>1. CASE kind \in {"edit", "edit_rehash", "delete", "edit_rewrite"}
    BY <2>1
  <2>2. CASE kind = "swap_rewrite"
    BY <2>2
  <2>. QED
    BY <2>1, <2>2
<1>4. kind = "insert_rewrite" =>
              Tamper!Corruption(kind, i).ledger = [ledger EXCEPT ![used + 1] = Tamper!Forged]
  OBVIOUS
<1>5. kind = "truncate" =>
              Tamper!Corruption(kind, i).ledger =
                [u \in Sealed |-> IF \E k \in i .. Len(records) : Tamper!UidAt(k) = u
                                  THEN None ELSE ledger[u]]
  OBVIOUS
<1>. QED
  BY <1>1, <1>2, <1>3, <1>4, <1>5

Edits   == {"edit", "edit_rehash", "edit_rewrite", "ledger_and_log", "replace"}
Removes == {"delete", "delete_rewrite"}

\* What the records of the chain say after a corruption.
LEMMA CorruptChain ==
  ASSUME SoloAssumption, TamperTypes, NEW kind \in Tamper!Kinds, NEW i, Tamper!Corrupt(kind, i)
  PROVE  /\ records' \in Seq(TRecord) /\ i \in 1 .. Len(records)
         /\ kind \in {"ledger_edit", "ledger_delete"} => records' = records
         /\ kind \in Edits =>
              /\ Len(records') = Len(records)
              /\ \A k \in 1 .. Len(records) : k # i => records'[k].body = records[k].body
              /\ records'[i].body.uid = records[i].body.uid
              /\ records'[i].body.cost # records[i].body.cost
         /\ kind \in Removes =>
              /\ Len(records') = Len(records) - 1
              /\ \A k \in 1 .. Len(records) - 1 :
                   records'[k].body = IF k < i THEN records[k].body ELSE records[k + 1].body
         /\ kind = "insert_rewrite" =>
              /\ Len(records') = Len(records) + 1 /\ used + 1 \in Sealed
              /\ \A k \in 1 .. Len(records) + 1 : k # i =>
                   records'[k].body = IF k < i THEN records[k].body ELSE records[k - 1].body
              /\ records'[i].body.uid = used + 1
         /\ kind = "swap_rewrite" =>
              /\ Len(records') = Len(records)
              /\ \E a \in 1 .. Len(records) - 1 :
                   /\ a <= i
                   /\ \A k \in 1 .. Len(records) :
                        records'[k].body = IF k = a THEN records[a + 1].body
                                           ELSE IF k = a + 1 THEN records[a].body ELSE records[k].body
         /\ kind = "truncate" =>
              Len(records') = i - 1 /\ \A k \in 1 .. i - 1 : records'[k].body = records[k].body
<1>. DEFINE Goal == 
         /\ records' \in Seq(TRecord)
         /\ kind \in {"ledger_edit", "ledger_delete"} => records' = records
         /\ kind \in Edits =>
              /\ Len(records') = Len(records)
              /\ \A k \in 1 .. Len(records) : k # i => records'[k].body = records[k].body
              /\ records'[i].body.uid = records[i].body.uid
              /\ records'[i].body.cost # records[i].body.cost
         /\ kind \in Removes =>
              /\ Len(records') = Len(records) - 1
              /\ \A k \in 1 .. Len(records) - 1 :
                   records'[k].body = IF k < i THEN records[k].body ELSE records[k + 1].body
         /\ kind = "insert_rewrite" =>
              /\ Len(records') = Len(records) + 1 /\ used + 1 \in Sealed
              /\ \A k \in 1 .. Len(records) + 1 : k # i =>
                   records'[k].body = IF k < i THEN records[k].body ELSE records[k - 1].body
              /\ records'[i].body.uid = used + 1
         /\ kind = "swap_rewrite" =>
              /\ Len(records') = Len(records)
              /\ \E a \in 1 .. Len(records) - 1 :
                   /\ a <= i
                   /\ \A k \in 1 .. Len(records) :
                        records'[k].body = IF k = a THEN records[a + 1].body
                                           ELSE IF k = a + 1 THEN records[a].body ELSE records[k].body
         /\ kind = "truncate" =>
              Len(records') = i - 1 /\ \A k \in 1 .. i - 1 : records'[k].body = records[k].body
<1>. USE DEF Edits, Removes
<1>1. /\ records \in Seq(TRecord) /\ i \in 1 .. Len(records) /\ Len(records) \in Nat \ {0}
      /\ records' = Tamper!Corruption(kind, i).chain
      /\ kind = "insert_rewrite" => used < Calls_
      /\ kind = "swap_rewrite" => Len(records) > 1
  <2>1. records \in Seq(TRecord) /\ i \in DOMAIN records
    BY DEF Tamper!Corrupt, TamperTypes
  <2>2. Tamper!Cardinality(Sealed) = Cardinality(Sealed)
    BY Zenon DEF Tamper!Cardinality, Tamper!IsFiniteSet, Cardinality, IsFiniteSet
  <2>3. i \in 1 .. Len(records) /\ Len(records) \in Nat \ {0}
    BY <2>1
  <2>. QED
    BY <2>1, <2>2, <2>3 DEF Tamper!Corrupt, Calls_
<1>2. /\ Tamper!Edited(i) \in Seq(TRecord) /\ Len(Tamper!Edited(i)) = Len(records)
      /\ \A k \in 1 .. Len(records) : k # i => Tamper!Edited(i)[k].body = records[k].body
      /\ Tamper!Edited(i)[i].body.uid = records[i].body.uid
      /\ Tamper!Edited(i)[i].body.cost # records[i].body.cost
  BY <1>1, EditedIs
<1>3. i \in 1 .. Len(records) + 1 /\ i \in Nat \ {0}
  BY <1>1
<1>4. ASSUME kind \in {"ledger_edit", "ledger_delete"} PROVE Goal
  <2>1. records' = records
    BY <1>1, <1>4, ChainLeft
  <2>. QED
    BY <1>1, <1>4, <2>1
<1>5. ASSUME kind = "edit" PROVE Goal
  <2>1. records' = Tamper!Edited(i)
    BY <1>1, <1>5, ChainLeft
  <2>. QED
    BY <1>1, <1>2, <1>5, <2>1
<1>6. ASSUME kind = "edit_rehash" PROVE Goal
  <2>. DEFINE e == Tamper!Edited(i)[i].body
              r == Tamper!Build(<<e>>, records[i].prev, records[i].seq)[1]
  <2>1. records' = [records EXCEPT ![i] = r]
    BY <1>1, <1>6, ChainLeft
  <2>2. e \in TBody /\ records[i].prev \in Seq(TBody) /\ records[i].seq \in Nat \ {0}
    BY <1>1, <1>2, RecordOf
  <2>. HIDE DEF e
  <2>3. <<e>> \in Seq(TBody) /\ Len(<<e>>) = 1 /\ <<e>>[1] = e
    BY <2>2
  <2>4. r \in TRecord /\ r.body = e
    <3>1. /\ Tamper!Build(<<e>>, records[i].prev, records[i].seq) \in Seq(TRecord)
          /\ Len(Tamper!Build(<<e>>, records[i].prev, records[i].seq)) = 1
          /\ Tamper!Build(<<e>>, records[i].prev, records[i].seq)[1].body = <<e>>[1]
      <4>. DEFINE one == <<e>>  p == records[i].prev  f == records[i].seq
      <4>1. /\ one \in Seq(TBody) /\ Len(one) = 1 /\ 1 \in 1 .. Len(one)
            /\ p \in Seq(TBody) /\ f \in Nat \ {0}
        BY <2>2, <2>3
      <4>. HIDE DEF one, p, f
      <4>2. /\ Tamper!Build(one, p, f) \in Seq(TRecord) /\ Len(Tamper!Build(one, p, f)) = 1
            /\ Tamper!Build(one, p, f)[1].body = one[1]
        BY <4>1, Built
      <4>. QED
        BY <4>2 DEF one, p, f
    <3>. QED
      BY <2>3, <3>1
  <2>. HIDE DEF r
  <2>5. records' \in Seq(TRecord) /\ Len(records') = Len(records)
        /\ \A k \in 1 .. Len(records) : records'[k] = IF k = i THEN r ELSE records[k]
    BY <1>1, <2>1, <2>4
  <2>. QED
    BY <1>1, <1>2, <1>6, <2>4, <2>5 DEF e
<1>7. ASSUME kind \in {"edit_rewrite", "ledger_and_log"} PROVE Goal
  <2>1. records' = Tamper!RewriteFrom(Tamper!Edited(i), i)
    BY <1>1, <1>7, ChainLeft
  <2>2. /\ records' \in Seq(TRecord) /\ Len(records') = Len(records)
        /\ \A k \in 1 .. Len(records) : records'[k].body = Tamper!Edited(i)[k].body
    BY <1>2, <1>3, <2>1, RewrittenIs
  <2>. QED
    BY <1>1, <1>2, <1>7, <2>2
<1>8. ASSUME kind = "replace" PROVE Goal
  <2>. DEFINE bs == Tamper!Bodies(Tamper!Edited(i))
  <2>1. records' = Tamper!Build(bs, <<>>, 1)
    BY <1>1, <1>8, ChainLeft
  <2>2. /\ bs \in Seq(TBody) /\ Len(bs) = Len(records)
        /\ \A k \in 1 .. Len(records) : bs[k] = Tamper!Edited(i)[k].body
    <3>1. bs = [k \in 1 .. Len(records) |-> Tamper!Edited(i)[k].body]
      BY <1>1, <1>2 DEF Tamper!Bodies
    <3>2. \A k \in 1 .. Len(records) : Tamper!Edited(i)[k].body \in TBody
      BY <1>2, RecordOf
    <3>. QED
      BY <1>1, <3>1, <3>2
  <2>. HIDE DEF bs
  <2>3. /\ records' \in Seq(TRecord) /\ Len(records') = Len(records)
        /\ \A k \in 1 .. Len(records) : records'[k].body = bs[k]
    <3>. DEFINE p == <<>>  f == 1
    <3>1. p \in Seq(TBody) /\ f \in Nat \ {0}
      OBVIOUS
    <3>2. records' = Tamper!Build(bs, p, f)
      BY <2>1
    <3>. HIDE DEF p, f
    <3>. QED
      BY <2>2, <3>1, <3>2, Built
  <2>. QED
    BY <1>1, <1>2, <1>8, <2>2, <2>3
<1>9. ASSUME kind = "delete" PROVE Goal
  <2>1. records' = Tamper!RemoveAt(records, i)
    BY <1>1, <1>9, ChainLeft
  <2>. QED
    BY <1>1, <1>9, <2>1, RemovedIs
<1>10. ASSUME kind = "delete_rewrite" PROVE Goal
  <2>1. records' = Tamper!RewriteFrom(Tamper!RemoveAt(records, i), i)
    BY <1>1, <1>10, ChainLeft
  <2>. DEFINE c == Tamper!RemoveAt(records, i)
  <2>2. /\ c \in Seq(TRecord) /\ Len(c) = Len(records) - 1
        /\ \A k \in 1 .. Len(records) - 1 : c[k] = IF k < i THEN records[k] ELSE records[k + 1]
    BY <1>1, RemovedIs
  <2>. HIDE DEF c
  <2>3. i \in 1 .. Len(c) + 1
    BY <1>1, <2>2
  <2>4. /\ Tamper!RewriteFrom(c, i) \in Seq(TRecord) /\ Len(Tamper!RewriteFrom(c, i)) = Len(c)
        /\ \A k \in 1 .. Len(c) : Tamper!RewriteFrom(c, i)[k].body = c[k].body
    BY <2>2, <2>3, RewrittenIs
  <2>5. records' = Tamper!RewriteFrom(c, i)
    BY <2>1 DEF c
  <2>. QED
    BY <1>1, <1>10, <2>2, <2>4, <2>5
<1>11. ASSUME kind = "insert_rewrite" PROVE Goal
  <2>. DEFINE f == Tamper!SealedFields(used + 1, Tamper!Forged, schema)
              r == [records[i] EXCEPT !.body = f]
              c == Tamper!InsertAt(records, i, r)
  <2>1. records' = Tamper!RewriteFrom(c, i)
    BY <1>1, <1>11, ChainLeft
  <2>2. used + 1 \in Sealed /\ schema \in 1 .. Schemas
    BY <1>1, <1>11, SealedAreNumbers DEF TamperTypes
  <2>3. f \in TBody /\ f.uid = used + 1
    BY <2>2 DEF Tamper!SealedFields, Tamper!Forged, TBody, Tamper!Body, Tamper!States
  <2>. HIDE DEF f
  <2>4. r \in TRecord /\ r.body = f
    <3>1. records[i] \in TRecord
      BY <1>1, RecordOf
    <3>. QED
      BY <2>3, <3>1 DEF TRecord
  <2>. HIDE DEF r
  <2>5. /\ c \in Seq(TRecord) /\ Len(c) = Len(records) + 1
        /\ \A k \in 1 .. Len(records) + 1 :
             c[k] = IF k < i THEN records[k] ELSE IF k = i THEN r ELSE records[k - 1]
    <3>1. records \in Seq(TRecord) /\ i \in 1 .. Len(records)
      BY <1>1
    <3>. QED
      BY <2>4, <3>1, InsertedIs
  <2>. HIDE DEF c
  <2>6. i \in 1 .. Len(c) + 1 /\ i \in 1 .. Len(records) + 1 /\ ~(i < i)
    BY <1>1, <2>5
  <2>7. /\ records' \in Seq(TRecord) /\ Len(records') = Len(c)
        /\ \A k \in 1 .. Len(c) : records'[k].body = c[k].body
    BY <2>1, <2>5, <2>6, RewrittenIs
  <2>8. \A k \in 1 .. Len(records) + 1 : k # i =>
          records'[k].body = IF k < i THEN records[k].body ELSE records[k - 1].body
    BY <2>5, <2>7
  <2>9. records'[i].body.uid = used + 1
    BY <2>3, <2>4, <2>5, <2>6, <2>7
  <2>. QED
    BY <1>11, <2>2, <2>5, <2>7, <2>8, <2>9
<1>12. ASSUME kind = "swap_rewrite" PROVE Goal
  <2>. DEFINE j == IF i < Len(records) THEN i + 1 ELSE i - 1
              a == IF i < j THEN i ELSE j
              c == [records EXCEPT ![i] = records[j], ![j] = records[i]]
  <2>1. records' = Tamper!RewriteFrom(c, a)
    BY <1>1, <1>12, ChainLeft
  <2>2. /\ a \in 1 .. Len(records) - 1 /\ a <= i /\ j \in 1 .. Len(records)
        /\ (i = a /\ j = a + 1) \/ (i = a + 1 /\ j = a)
    BY <1>1, <1>12
  <2>. HIDE DEF j, a
  <2>3. /\ c \in Seq(TRecord) /\ Len(c) = Len(records)
        /\ \A k \in 1 .. Len(records) :
             c[k] = IF k = j THEN records[i] ELSE IF k = i THEN records[j] ELSE records[k]
    <3>1. records[i] \in TRecord /\ records[j] \in TRecord
      BY <1>1, <2>2, RecordOf
    <3>2. i # j
      BY <1>1, <2>2
    <3>. QED
      BY <1>1, <2>2, <3>1, <3>2
  <2>. HIDE DEF c
  <2>4. a \in 1 .. Len(c) + 1
    BY <1>1, <2>2, <2>3
  <2>5. /\ records' \in Seq(TRecord) /\ Len(records') = Len(c)
        /\ \A k \in 1 .. Len(c) : records'[k].body = c[k].body
    BY <2>1, <2>3, <2>4, RewrittenIs
  <2>6. \A k \in 1 .. Len(records) :
          records'[k].body = IF k = a THEN records[a + 1].body
                             ELSE IF k = a + 1 THEN records[a].body ELSE records[k].body
    <3>1. a # a + 1
      BY <1>1, <2>2
    <3>. QED
      BY <2>2, <2>3, <2>5, <3>1
  <2>. QED
    BY <1>12, <2>2, <2>3, <2>5, <2>6
<1>13. ASSUME kind = "truncate" PROVE Goal
  <2>1. records' = SubSeq(records, 1, i - 1)
    BY <1>1, <1>13, ChainLeft
  <2>2. i - 1 \in 0 .. Len(records)
    BY <1>1
  <2>3. /\ records' \in Seq(TRecord) /\ Len(records') = i - 1
        /\ \A k \in 1 .. i - 1 : records'[k] = records[k]
    BY <1>1, <2>1, <2>2
  <2>. QED
    BY <1>13, <2>3
<1>14. Goal
  <2>1. kind \in {"ledger_edit", "ledger_delete", "edit", "edit_rehash", "delete", "edit_rewrite",
                  "ledger_and_log", "delete_rewrite", "insert_rewrite", "swap_rewrite", "truncate",
                  "replace"}
    BY DEF Tamper!Kinds
  <2>. HIDE DEF Goal
  <2>. QED
    BY <1>4, <1>5, <1>6, <1>7, <1>8, <1>9, <1>10, <1>11, <1>12, <1>13, <2>1
<1>. QED
  BY <1>1, <1>14

\* What a corruption leaves of the rows: a row is as far as it was, dropped, or the forged one.
LEMMA CorruptLedger ==
  ASSUME SoloAssumption, TamperTypes, NEW kind \in Tamper!Kinds, NEW i, Tamper!Corrupt(kind, i)
  PROVE  /\ ledger' \in Ledgers /\ used' \in 0 .. Calls_ /\ used <= used'
         /\ \A u \in Sealed : ledger'[u] # None =>
              \/ ledger[u] # None /\ ledger'[u].state = ledger[u].state
              \/ u = used + 1 /\ used' = used + 1 /\ ledger'[u].state = "complete"
         /\ kind = "ledger_edit" =>
              ledger'[records[i].body.uid] =
                IF ledger[records[i].body.uid] = None THEN None
                ELSE Tamper!Understate(ledger[records[i].body.uid])
         /\ kind = "ledger_delete" => ledger'[records[i].body.uid] = None
         /\ kind = "insert_rewrite" => used' = used + 1
         /\ kind # "insert_rewrite" => used' = used
<1>. DEFINE uid == records[i].body.uid
<1>1. /\ i \in 1 .. Len(records) /\ ledger \in Ledgers /\ used \in 0 .. Calls_
      /\ ledger' = Tamper!Corruption(kind, i).ledger
      /\ used' = IF kind = "insert_rewrite" THEN used + 1 ELSE used
      /\ Calls_ \in Nat /\ Sealed = 1 .. Calls_
  BY CorruptChain, SealedAreNumbers DEF Tamper!Corrupt, TamperTypes, Ledgers
<1>2. uid \in Sealed
  BY <1>1, RecordOf, BodyOf DEF TamperTypes
<1>3. kind = "insert_rewrite" => used + 1 \in Sealed
  BY CorruptChain
<1>4. used' \in 0 .. Calls_ /\ used <= used'
  BY <1>1, <1>3
<1>5. Tamper!UidAt(i) = uid
  BY DEF Tamper!UidAt
<1>. HIDE DEF uid
<1>6. \A entry \in Tamper!Row :
         /\ Tamper!Understate(entry) \in Tamper!Row /\ Tamper!Understate(entry).state = entry.state
  BY DEF Tamper!Row, Tamper!Understate
<1>7. CASE kind \in {"ledger_edit", "ledger_and_log", "replace"}
  <2>. DEFINE new == IF ledger[uid] = None THEN None ELSE Tamper!Understate(ledger[uid])
  <2>1. ledger' = [ledger EXCEPT ![uid] = new]
    BY <1>1, <1>5, <1>7, LedgerLeft DEF Tamper!RowEdited
  <2>2. new \in Tamper!Row \cup {None}
        /\ (new # None => ledger[uid] # None /\ new.state = ledger[uid].state)
    <3>1. ledger[uid] \in Tamper!Row \cup {None}
      BY <1>1, <1>2 DEF Ledgers
    <3>. QED
      BY <1>6, <3>1
  <2>. HIDE DEF new
  <2>3. ledger' \in Ledgers /\ \A u \in Sealed : ledger'[u] = IF u = uid THEN new ELSE ledger[u]
    BY <1>1, <1>2, <2>1, <2>2 DEF Ledgers
  <2>. QED
    BY <1>1, <1>2, <1>4, <1>7, <2>2, <2>3 DEF new, uid
<1>8. CASE kind \in {"ledger_delete", "delete_rewrite"}
  <2>1. ledger' = [ledger EXCEPT ![uid] = None]
    BY <1>1, <1>5, <1>8, LedgerLeft DEF Tamper!RowDropped
  <2>2. ledger' \in Ledgers /\ \A u \in Sealed : ledger'[u] = IF u = uid THEN None ELSE ledger[u]
    BY <1>1, <1>2, <2>1 DEF Ledgers
  <2>. QED
    BY <1>1, <1>2, <1>4, <1>8, <2>2 DEF uid
<1>9. CASE kind \in {"edit", "edit_rehash", "delete", "edit_rewrite", "swap_rewrite"}
  <2>1. ledger' = ledger
    BY <1>1, <1>9, LedgerLeft
  <2>. QED
    BY <1>1, <1>4, <1>9, <2>1
<1>10. CASE kind = "insert_rewrite"
  <2>1. ledger' = [ledger EXCEPT ![used + 1] = Tamper!Forged]
    BY <1>1, <1>10, LedgerLeft
  <2>2. Tamper!Forged \in Tamper!Row /\ Tamper!Forged.state = "complete"
    BY DEF Tamper!Forged, Tamper!Row, Tamper!States
  <2>3. /\ ledger' \in Ledgers
        /\ \A u \in Sealed : ledger'[u] = IF u = used + 1 THEN Tamper!Forged ELSE ledger[u]
    BY <1>1, <1>3, <1>10, <2>1, <2>2 DEF Ledgers
  <2>. QED
    BY <1>1, <1>4, <1>10, <2>2, <2>3
<1>11. CASE kind = "truncate"
  <2>1. ledger' = [u \in Sealed |-> IF \E k \in i .. Len(records) : Tamper!UidAt(k) = u
                                    THEN None ELSE ledger[u]]
    BY <1>1, <1>11, LedgerLeft
  <2>. DEFINE gone(u) == \E k \in i .. Len(records) : Tamper!UidAt(k) = u
  <2>2. \A u \in Sealed : ledger'[u] = IF gone(u) THEN None ELSE ledger[u]
    BY <2>1
  <2>3. ledger' = [u \in Sealed |-> IF gone(u) THEN None ELSE ledger[u]]
    BY <2>1
  <2>. HIDE DEF gone
  <2>4. ledger' \in Ledgers
    BY <1>1, <2>3 DEF Ledgers
  <2>. QED
    BY <1>1, <1>4, <1>11, <2>2, <2>4
<1>. QED
  BY <1>7, <1>8, <1>9, <1>10, <1>11 DEF Tamper!Kinds

\* A corruption leaves files of the same make.
LEMMA TypesCorrupt ==
  ASSUME SoloAssumption, TamperTypes, NEW kind \in Tamper!Kinds, NEW i, Tamper!Corrupt(kind, i)
  PROVE  TamperTypes'
<1>1. UNCHANGED <<schema, heads, truth, trusted>> /\ tampers' = tampers + 1
  BY DEF Tamper!Corrupt
<1>2. /\ ledger' \in Ledgers /\ used' \in 0 .. Calls_ /\ used <= used' /\ used \in Nat /\ used' \in Nat
      /\ used' \in {used, used + 1} /\ Sealed = 1 .. Calls_ /\ Calls_ \in Nat
      /\ \A u \in Sealed : ledger'[u] # None => ledger[u] # None \/ (u = used + 1 /\ used' = used + 1)
      /\ kind = "insert_rewrite" => used' = used + 1
  BY CorruptLedger, SealedAreNumbers DEF TamperTypes
<1>3. \A u \in Sealed : u > used' => ledger'[u] = None /\ truth'[u] = None
  BY <1>1, <1>2 DEF TamperTypes
<1>4. /\ records \in Seq(TRecord) /\ Len(records) \in Nat
      /\ \A k \in 1 .. Len(records) : records[k].body.uid \in Nat /\ records[k].body.uid <= used
  <2>1. \A k \in 1 .. Len(records) : records[k].body.uid \in Sealed
    BY RecordOf, BodyOf DEF TamperTypes
  <2>2. records \in Seq(TRecord) /\ \A k \in DOMAIN records : records[k].body.uid <= used
    BY DEF TamperTypes
  <2>. QED
    BY <1>2, <2>1, <2>2
<1>5. i \in 1 .. Len(records) /\ records' \in Seq(TRecord)
  BY CorruptChain
<1>6. ASSUME NEW k \in 1 .. Len(records') PROVE records'[k].body.uid <= used'
  <2>1. CASE kind \in {"ledger_edit", "ledger_delete"}
    <3>1. records' = records
      BY <2>1, CorruptChain
    <3>. QED
      BY <1>2, <1>4, <1>6, <3>1
  <2>2. CASE kind \in Edits
    <3>1. /\ Len(records') = Len(records)
          /\ \A j \in 1 .. Len(records) : j # i => records'[j].body = records[j].body
          /\ records'[i].body.uid = records[i].body.uid
      BY <2>2, CorruptChain
    <3>. QED
      BY <1>2, <1>4, <1>5, <3>1
  <2>3. CASE kind \in Removes
    <3>1. /\ Len(records') = Len(records) - 1
          /\ \A j \in 1 .. Len(records) - 1 :
                   records'[j].body = IF j < i THEN records[j].body ELSE records[j + 1].body
      BY <2>3, CorruptChain
    <3>2. k \in 1 .. Len(records) /\ k + 1 \in 1 .. Len(records) /\ k \in 1 .. Len(records) - 1
      BY <1>4, <3>1
    <3>. QED
      BY <1>2, <1>4, <3>1, <3>2
  <2>4. CASE kind = "insert_rewrite"
    <3>1. /\ Len(records') = Len(records) + 1
          /\ \A j \in 1 .. Len(records) + 1 : j # i =>
                   records'[j].body = IF j < i THEN records[j].body ELSE records[j - 1].body
          /\ records'[i].body.uid = used + 1
      BY <2>4, CorruptChain
    <3>2. k \in 1 .. Len(records) + 1 /\ (k < i => k \in 1 .. Len(records))
          /\ (k > i => k - 1 \in 1 .. Len(records))
      BY <1>4, <1>5, <3>1
    <3>3. CASE k = i
      BY <1>2, <2>4, <3>1, <3>3
    <3>4. CASE k < i
      BY <1>2, <1>4, <3>1, <3>2, <3>4
    <3>5. CASE k > i
      BY <1>2, <1>4, <3>1, <3>2, <3>5
    <3>6. k = i \/ k < i \/ k > i
      BY <1>4, <1>5, <3>2
    <3>. QED
      BY <3>3, <3>4, <3>5, <3>6
  <2>5. CASE kind = "swap_rewrite"
    <3>1. Len(records') = Len(records)
      BY <2>5, CorruptChain
    <3>2. PICK a \in 1 .. Len(records) - 1 : \A j \in 1 .. Len(records) :
                        records'[j].body = IF j = a THEN records[a + 1].body
                                           ELSE IF j = a + 1 THEN records[a].body ELSE records[j].body
      BY <2>5, CorruptChain
    <3>3. a \in 1 .. Len(records) /\ a + 1 \in 1 .. Len(records) /\ k \in 1 .. Len(records)
      BY <1>4, <3>1
    <3>. QED
      BY <1>2, <1>4, <3>2, <3>3
  <2>6. CASE kind = "truncate"
    <3>1. Len(records') = i - 1 /\ \A j \in 1 .. i - 1 : records'[j].body = records[j].body
      BY <2>6, CorruptChain
    <3>2. k \in 1 .. i - 1 /\ k \in 1 .. Len(records)
      BY <1>4, <1>5, <3>1
    <3>. QED
      BY <1>2, <1>4, <3>1, <3>2
  <2>. QED
    BY <2>1, <2>2, <2>3, <2>4, <2>5, <2>6 DEF Tamper!Kinds, Edits, Removes
<1>7. DOMAIN records' = 1 .. Len(records')
  BY <1>5
<1>. QED
  BY <1>1, <1>2, <1>3, <1>5, <1>6, <1>7 DEF TamperTypes, Ledgers

\* One of the anchors is of a position, and of the outcomes that the gateway wrote.
VouchedFor(h, t, n) ==
  \E j \in DOMAIN h :
    /\ h[j].seq = n
    /\ \A i \in DOMAIN h[j].head : h[j].head[i].state = "complete" =>
         LET entry == t[h[j].head[i].uid]
         IN  entry # None /\ entry.state = "complete" /\ entry.cost = h[j].head[i].cost

\* A row that was completed is complete while the ledger has it.
StaysComplete(l, t) ==
  \A u \in Sealed : t[u] # None /\ t[u].state = "complete" => l[u] = None \/ l[u].state = "complete"

TamperInv ==
  /\ TamperTypes /\ StaysComplete(ledger, truth)
  /\ tampers = 0 => truth = ledger /\ Honest(records, ledger, heads)
  /\ trusted # 0 => VouchedFor(heads, truth, trusted)

\* The ids of the rows that are sealed, each once.
LEMMA SealOrder ==
  ASSUME SoloAssumption, NEW ids \in SUBSET Sealed
  PROVE  /\ Tamper!InOrder(ids) \in Seq(ids)
         /\ \A j, k \in DOMAIN Tamper!InOrder(ids) :
              j # k => Tamper!InOrder(ids)[j] # Tamper!InOrder(ids)[k]
<1>1. PICK s : Ascending(s, ids)
  BY OrderExists, SealedAreNumbers
<1>2. Tamper!Cardinality(ids) = Cardinality(ids)
  BY Zenon DEF Tamper!Cardinality, Tamper!IsFiniteSet, Cardinality, IsFiniteSet
<1>3. \E t \in [1 .. Tamper!Cardinality(ids) -> ids] :
        /\ \A i \in ids : \E k \in DOMAIN t : t[k] = i
        /\ \A j, k \in DOMAIN t : j < k => t[j] < t[k]
  BY <1>1, <1>2 DEF Ascending
<1>. DEFINE o == Tamper!InOrder(ids)
<1>4. /\ o \in [1 .. Cardinality(ids) -> ids]
      /\ \A j, k \in DOMAIN o : j < k => o[j] < o[k]
  BY <1>2, <1>3 DEF Tamper!InOrder
<1>. HIDE DEF o
<1>5. Cardinality(ids) \in Nat
  <2>1. IsFiniteSet(1 .. Calls_) /\ ids \in SUBSET (1 .. Calls_)
    BY SealedAreNumbers, FS_Interval
  <2>. QED
    BY <2>1, FS_Subset, FS_CardinalityType
<1>6. o \in Seq(ids)
  BY <1>4, <1>5
<1>7. \A j, k \in DOMAIN o : j # k => o[j] # o[k]
  <2>1. \A j \in DOMAIN o : j \in Int /\ o[j] \in Int
    BY <1>4, <1>5, SealedAreNumbers
  <2>2. \A j, k \in DOMAIN o : j # k => j < k \/ k < j
    BY <2>1
  <2>3. \A j, k \in DOMAIN o : j < k => o[j] # o[k]
    BY <1>4, <2>1
  <2>. QED
    BY <2>2, <2>3
<1>. QED
  BY <1>6, <1>7 DEF o

\* A ledger that is empty and a chain that is not begun.
LEMMA TamperInit ==
  ASSUME SoloAssumption, Tamper!Init
  PROVE  TamperInv
<1>1. /\ ledger = [u \in Sealed |-> None] /\ truth = ledger /\ used = 0 /\ schema = 1
      /\ records = <<>> /\ heads = <<>> /\ tampers = 0 /\ trusted = 0
  BY DEF Tamper!Init
<1>2. Calls_ \in Nat /\ Sealed = 1 .. Calls_ /\ Schemas \in Nat \ {0}
  BY SealedAreNumbers DEF SoloAssumption, Tamper!TamperAssumption
<1>3. TamperTypes
  <2>1. ledger \in [Sealed -> Tamper!Row \cup {None}]
    BY <1>1
  <2>2. records \in Seq(TRecord) /\ heads \in Seq(TAnchor) /\ DOMAIN records = {} /\ DOMAIN heads = {}
    BY <1>1
  <2>. QED
    BY <1>1, <1>2, <2>1, <2>2 DEF TamperTypes
<1>4. Honest(records, ledger, heads)
  <2>1. DOMAIN records = {} /\ DOMAIN heads = {}
    BY <1>1
  <2>2. \A u : Tamper!Latest(records, u) = None
    BY <2>1 DEF Tamper!Latest
  <2>. QED
    BY <2>1, <2>2 DEF Honest, Whole, NoEcho, OfRows, UpToDate, OfChain
<1>5. StaysComplete(ledger, truth)
  BY <1>1 DEF StaysComplete
<1>. QED
  BY <1>1, <1>3, <1>4, <1>5 DEF TamperInv

\* A call begins.
LEMMA TamperBegin ==
  ASSUME SoloAssumption, TamperInv, Tamper!Begin
  PROVE  TamperInv'
<1>. DEFINE n == used + 1
<1>1. /\ n \in Sealed /\ n \in Nat /\ used \in Nat /\ n > used /\ used' = n /\ n \in 0 .. Calls_
      /\ UNCHANGED <<schema, records, heads, tampers, trusted>>
  <2>1. Tamper!Cardinality(Sealed) = Cardinality(Sealed)
    BY Zenon DEF Tamper!Cardinality, Tamper!IsFiniteSet, Cardinality, IsFiniteSet
  <2>. QED
    BY <2>1, SealedAreNumbers DEF Tamper!Begin, TamperInv, TamperTypes, Calls_
<1>2. PICK extra \in SUBSET (2 .. Schemas) :
        ledger' = [ledger EXCEPT ![n] = [state |-> "in_flight", cost |-> 0, extra |-> extra]]
  BY DEF Tamper!Begin
<1>. DEFINE r == [state |-> "in_flight", cost |-> 0, extra |-> extra]
<1>3. truth' = [truth EXCEPT ![n] = ledger'[n]]
  BY DEF Tamper!Begin
<1>4. r \in Tamper!Row /\ r # None /\ r.state = "in_flight"
  <2>1. r \in Tamper!Row
    BY DEF Tamper!Row, Tamper!States
  <2>. QED
    BY <2>1, SealedAreNumbers
<1>5. ledger \in Ledgers /\ truth \in Ledgers /\ ledger[n] = None /\ truth[n] = None
  BY <1>1 DEF TamperInv, TamperTypes, Ledgers
<1>6. ledger' = [ledger EXCEPT ![n] = r]
  BY <1>2
<1>. HIDE DEF r
<1>7. /\ ledger' \in Ledgers /\ \A u \in Sealed : ledger'[u] = IF u = n THEN r ELSE ledger[u]
  BY <1>1, <1>4, <1>5, <1>6 DEF Ledgers
<1>8. truth' = [truth EXCEPT ![n] = r]
  BY <1>1, <1>3, <1>7
<1>9. /\ truth' \in Ledgers /\ \A u \in Sealed : truth'[u] = IF u = n THEN r ELSE truth[u]
  BY <1>1, <1>4, <1>5, <1>8 DEF Ledgers
<1>. HIDE DEF n
<1>10. TamperTypes'
  <2>1. \A k \in DOMAIN records : records[k].body.uid <= n
    <3>1. \A k \in DOMAIN records : records[k].body.uid <= used /\ records[k].body.uid \in Nat
      <4>1. \A k \in DOMAIN records : records[k].body.uid \in Sealed
        BY RecordOf, BodyOf DEF TamperInv, TamperTypes
      <4>. QED
        BY <4>1, SealedAreNumbers DEF TamperInv, TamperTypes
    <3>. QED
      BY <1>1, <3>1
  <2>2. \A u \in Sealed : u > n => u > used /\ u # n
    BY <1>1, SealedAreNumbers
  <2>3. \A u \in Sealed : u > n => ledger'[u] = None /\ truth'[u] = None
    BY <1>7, <1>9, <2>2 DEF TamperInv, TamperTypes
  <2>. QED
    BY <1>1, <1>7, <1>9, <2>1, <2>3 DEF TamperInv, TamperTypes, Ledgers
<1>11. StaysComplete(ledger', truth')
  BY <1>4, <1>7, <1>9 DEF TamperInv, StaysComplete
<1>12. tampers = 0 => truth' = ledger' /\ Honest(records, ledger', heads)
  <2>. SUFFICES ASSUME tampers = 0 PROVE truth' = ledger' /\ Honest(records, ledger', heads)
    OBVIOUS
  <2>1. truth = ledger /\ Honest(records, ledger, heads) /\ records \in Seq(TRecord)
    BY DEF TamperInv, TamperTypes
  <2>2. Honest(records, [ledger EXCEPT ![n] = r], heads)
    BY <1>1, <1>5, <2>1, HonestBegin
  <2>. QED
    BY <1>6, <1>8, <2>1, <2>2
<1>13. trusted # 0 => VouchedFor(heads, truth', trusted)
  <2>. SUFFICES ASSUME trusted # 0 PROVE VouchedFor(heads, truth', trusted)
    OBVIOUS
  <2>1. PICK j \in DOMAIN heads :
          /\ heads[j].seq = trusted
          /\ \A i \in DOMAIN heads[j].head : heads[j].head[i].state = "complete" =>
               /\ truth[heads[j].head[i].uid] # None
               /\ truth[heads[j].head[i].uid].state = "complete"
               /\ truth[heads[j].head[i].uid].cost = heads[j].head[i].cost
    BY DEF TamperInv, VouchedFor
  <2>2. \A i \in DOMAIN heads[j].head : heads[j].head[i].uid \in Sealed
    <3>1. heads[j] \in TAnchor
      BY DEF TamperInv, TamperTypes
    <3>2. heads[j].head \in Seq(TBody)
      BY <3>1 DEF TAnchor
    <3>3. \A i \in DOMAIN heads[j].head : heads[j].head[i] \in TBody
      BY <3>2
    <3>. QED
      BY <3>3, BodyOf
  <2>3. \A u \in Sealed : truth[u] # None => truth'[u] = truth[u]
    BY <1>5, <1>9
  <2>. QED
    BY <2>1, <2>2, <2>3 DEF VouchedFor
<1>. QED
  BY <1>1, <1>10, <1>11, <1>12, <1>13 DEF TamperInv

\* A call completes.
LEMMA TamperComplete ==
  ASSUME SoloAssumption, TamperInv, NEW n \in Sealed, Tamper!Complete(n)
  PROVE  TamperInv'
<1>1. /\ ledger[n] # None /\ ledger[n].state = "in_flight"
      /\ truth' = [truth EXCEPT ![n] = ledger'[n]]
      /\ UNCHANGED <<used, schema, records, heads, tampers, trusted>>
  BY DEF Tamper!Complete
<1>2. PICK cost \in Costs : ledger' = [ledger EXCEPT ![n].state = "complete", ![n].cost = cost]
  BY DEF Tamper!Complete
<1>. DEFINE r == [state |-> "complete", cost |-> cost, extra |-> ledger[n].extra]
<1>3. ledger \in Ledgers /\ truth \in Ledgers /\ ledger[n] \in Tamper!Row /\ cost \in {0, 1}
  BY <1>1 DEF TamperInv, TamperTypes, Ledgers, SoloAssumption, Tamper!TamperAssumption
<1>4. r \in Tamper!Row /\ r # None /\ r.state = "complete"
  <2>1. r \in Tamper!Row
    BY <1>3 DEF Tamper!Row, Tamper!States
  <2>. QED
    BY <2>1, SealedAreNumbers
<1>5. ledger' = [ledger EXCEPT ![n] = r]
  <2>1. [[ledger[n] EXCEPT !.state = "complete"] EXCEPT !.cost = cost] = r
    <3>1. \A entry \in Tamper!Row : [entry EXCEPT !.state = "complete"]
                                    = [state |-> "complete", cost |-> entry.cost, extra |-> entry.extra]
      BY DEF Tamper!Row
    <3>2. \A x, e, y : [[state |-> "complete", cost |-> x, extra |-> e] EXCEPT !.cost = y]
                         = [state |-> "complete", cost |-> y, extra |-> e]
      OBVIOUS
    <3>3. [ledger[n] EXCEPT !.state = "complete"]
            = [state |-> "complete", cost |-> ledger[n].cost, extra |-> ledger[n].extra]
      BY <1>3, <3>1
    <3>4. [[ledger[n] EXCEPT !.state = "complete"] EXCEPT !.cost = cost]
            = [[state |-> "complete", cost |-> ledger[n].cost, extra |-> ledger[n].extra]
                 EXCEPT !.cost = cost]
      BY <3>3, Zenon
    <3>. QED
      BY <3>2, <3>4
  <2>2. ledger' = [ledger EXCEPT ![n] = [[ledger[n] EXCEPT !.state = "complete"] EXCEPT !.cost = cost]]
    BY <1>2, <1>3 DEF Ledgers
  <2>. QED
    BY <2>1, <2>2
<1>. HIDE DEF r
<1>6. /\ ledger' \in Ledgers /\ \A u \in Sealed : ledger'[u] = IF u = n THEN r ELSE ledger[u]
  BY <1>3, <1>4, <1>5 DEF Ledgers
<1>7. truth' = [truth EXCEPT ![n] = r]
  BY <1>1, <1>6
<1>8. /\ truth' \in Ledgers /\ \A u \in Sealed : truth'[u] = IF u = n THEN r ELSE truth[u]
  BY <1>3, <1>4, <1>7 DEF Ledgers
<1>9. TamperTypes'
  <2>1. \A u \in Sealed : u > used => u # n
    BY <1>1 DEF TamperInv, TamperTypes
  <2>2. \A u \in Sealed : u > used => ledger'[u] = None /\ truth'[u] = None
    BY <1>6, <1>8, <2>1 DEF TamperInv, TamperTypes
  <2>. QED
    BY <1>1, <1>6, <1>8, <2>2 DEF TamperInv, TamperTypes, Ledgers
<1>10. StaysComplete(ledger', truth')
  BY <1>4, <1>6, <1>8 DEF TamperInv, StaysComplete
<1>11. tampers = 0 => truth' = ledger' /\ Honest(records, ledger', heads)
  <2>. SUFFICES ASSUME tampers = 0 PROVE truth' = ledger' /\ Honest(records, ledger', heads)
    OBVIOUS
  <2>1. truth = ledger /\ Honest(records, ledger, heads) /\ records \in Seq(TRecord)
    BY DEF TamperInv, TamperTypes
  <2>2. /\ ledger'[n] # None /\ ledger'[n].state = "complete"
        /\ \A u \in Sealed : u # n => ledger'[u] = ledger[u]
    BY <1>4, <1>6
  <2>3. Honest(records, ledger', heads)
    BY <1>1, <1>3, <1>6, <2>1, <2>2, HonestComplete
  <2>. QED
    BY <1>5, <1>7, <2>1, <2>3
<1>12. trusted # 0 => VouchedFor(heads, truth', trusted)
  <2>. SUFFICES ASSUME trusted # 0 PROVE VouchedFor(heads, truth', trusted)
    OBVIOUS
  <2>1. PICK j \in DOMAIN heads :
          /\ heads[j].seq = trusted
          /\ \A i \in DOMAIN heads[j].head : heads[j].head[i].state = "complete" =>
               /\ truth[heads[j].head[i].uid] # None
               /\ truth[heads[j].head[i].uid].state = "complete"
               /\ truth[heads[j].head[i].uid].cost = heads[j].head[i].cost
    BY DEF TamperInv, VouchedFor
  <2>2. \A i \in DOMAIN heads[j].head : heads[j].head[i].uid \in Sealed
    <3>1. heads[j] \in TAnchor
      BY DEF TamperInv, TamperTypes
    <3>2. heads[j].head \in Seq(TBody)
      BY <3>1 DEF TAnchor
    <3>3. \A i \in DOMAIN heads[j].head : heads[j].head[i] \in TBody
      BY <3>2
    <3>. QED
      BY <3>3, BodyOf
  <2>3. ~(truth[n] # None /\ truth[n].state = "complete")
    BY <1>1 DEF TamperInv, StaysComplete
  <2>4. \A u \in Sealed : truth[u] # None /\ truth[u].state = "complete" => truth'[u] = truth[u]
    BY <1>8, <2>3
  <2>. QED
    BY <2>1, <2>2, <2>4 DEF VouchedFor
<1>. QED
  BY <1>1, <1>9, <1>10, <1>11, <1>12 DEF TamperInv

\* The next version of the library.
LEMMA TamperUpgrade ==
  ASSUME SoloAssumption, TamperInv, Tamper!Upgrade
  PROVE  TamperInv'
<1>1. /\ schema' = schema + 1 /\ schema < Schemas
      /\ UNCHANGED <<ledger, used, records, heads, tampers, truth, trusted>>
  BY DEF Tamper!Upgrade
<1>2. schema \in 1 .. Schemas => schema' \in 1 .. Schemas
  BY <1>1, SealedAreNumbers
<1>3. TamperTypes'
  BY <1>1, <1>2 DEF TamperInv, TamperTypes
<1>. QED
  BY <1>1, <1>3 DEF TamperInv

\* A head is published.
LEMMA TamperAnchor ==
  ASSUME SoloAssumption, TamperInv, Tamper!PublishAnchor
  PROVE  TamperInv'
<1>. DEFINE a == [seq |-> Tamper!LastSeq(records), head |-> Tamper!Last(records).hash]
<1>1. /\ records # <<>> /\ heads' = Append(heads, a)
      /\ trusted' = IF tampers = 0 THEN Tamper!LastSeq(records) ELSE trusted
      /\ UNCHANGED <<ledger, used, schema, records, tampers, truth>>
  BY DEF Tamper!PublishAnchor
<1>2. records \in Seq(TRecord) /\ heads \in Seq(TAnchor) /\ ledger \in Ledgers
  BY DEF TamperInv, TamperTypes, Ledgers
<1>3. a \in TAnchor /\ a.seq = Tamper!LastSeq(records)
  BY <1>1, <1>2, EndOf DEF TAnchor
<1>. HIDE DEF a
<1>4. /\ heads' \in Seq(TAnchor) /\ Len(heads') = Len(heads) + 1 /\ heads'[Len(heads) + 1] = a
      /\ \A j \in 1 .. Len(heads) : heads'[j] = heads[j]
      /\ DOMAIN heads' = 1 .. Len(heads) + 1 /\ Len(heads) \in Nat /\ DOMAIN heads = 1 .. Len(heads)
  BY <1>1, <1>2, <1>3
<1>5. TamperTypes'
  <2>1. trusted' \in Nat
    BY <1>1, <1>2, EndOf DEF TamperInv, TamperTypes
  <2>. QED
    BY <1>1, <1>4, <2>1 DEF TamperInv, TamperTypes
<1>6. tampers = 0 => Honest(records, ledger, heads')
  <2>. SUFFICES ASSUME tampers = 0 PROVE Honest(records, ledger, heads')
    OBVIOUS
  <2>1. Honest(records, ledger, heads)
    BY DEF TamperInv
  <2>2. Honest(records, ledger, Append(heads, [seq |-> Tamper!LastSeq(records),
                                               head |-> Tamper!Last(records).hash]))
    BY <1>1, <1>2, <2>1, HonestAnchor
  <2>. QED
    BY <1>1, <2>2 DEF a
<1>7. trusted' # 0 => VouchedFor(heads', truth, trusted')
  <2>1. CASE tampers = 0
    <3>1. truth = ledger /\ Honest(records, ledger, heads') /\ trusted' = a.seq
      BY <1>1, <1>3, <1>6, <2>1 DEF TamperInv
    <3>. DEFINE j == Len(heads) + 1
    <3>2. j \in DOMAIN heads' /\ heads'[j] = a
      BY <1>4
    <3>. HIDE DEF j
    <3>3. a.seq \in 1 .. Len(records) /\ a.head = Tamper!Bodies(SubSeq(records, 1, a.seq))
      BY <3>1, <3>2 DEF Honest, OfChain
    <3>4. \A i \in DOMAIN a.head : i \in 1 .. Len(records) /\ a.head[i] = records[i].body
      <4>1. a.seq \in 0 .. Len(records)
        BY <3>3
      <4>2. /\ a.head \in Seq(TBody) /\ Len(a.head) = a.seq
            /\ \A i \in 1 .. a.seq : a.head[i] = records[i].body
        BY <1>2, <3>3, <4>1, BodiesOfPrefix
      <4>. QED
        BY <3>3, <4>2
    <3>5. \A i \in 1 .. Len(records) : records[i].body.state = "complete" =>
            /\ ledger[records[i].body.uid] # None /\ ledger[records[i].body.uid].state = "complete"
            /\ ledger[records[i].body.uid].cost = records[i].body.cost
      <4>1. OfRows(records, ledger) /\ DOMAIN records = 1 .. Len(records)
        BY <1>2, <3>1 DEF Honest
      <4>. QED
        BY <4>1 DEF OfRows
    <3>6. \A i \in DOMAIN heads'[j].head : heads'[j].head[i].state = "complete" =>
            /\ truth[heads'[j].head[i].uid] # None
            /\ truth[heads'[j].head[i].uid].state = "complete"
            /\ truth[heads'[j].head[i].uid].cost = heads'[j].head[i].cost
      BY <3>1, <3>2, <3>4, <3>5
    <3>. QED
      BY <3>1, <3>2, <3>6 DEF VouchedFor
  <2>2. CASE tampers # 0
    <3>1. trusted' = trusted
      BY <1>1, <2>2
    <3>2. trusted # 0 => VouchedFor(heads', truth, trusted)
      BY <1>4 DEF TamperInv, VouchedFor
    <3>. QED
      BY <3>1, <3>2
  <2>. QED
    BY <2>1, <2>2
<1>. QED
  BY <1>1, <1>5, <1>6, <1>7 DEF TamperInv

\* The rows that need it are sealed.
LEMMA TamperSeal ==
  ASSUME SoloAssumption, TamperInv, Tamper!Seal
  PROVE  TamperInv'
<1>1. UNCHANGED <<ledger, used, schema, heads, tampers, truth, trusted>>
  BY DEF Tamper!Seal
<1>2. PICK under \in SUBSET {u \in Sealed : ledger[u] # None /\ ledger[u].state = "in_flight"} :
        LET due(u) == /\ ledger[u] # None /\ u \notin under
                      /\ Tamper!NeedsSeal(Tamper!Latest(records, u), u, ledger[u])
            uids   == Tamper!InOrder({u \in Sealed : due(u)})
            new == [k \in DOMAIN uids |-> Tamper!SealedFields(uids[k], ledger[uids[k]], schema)]
            head   == IF records = <<>> THEN Tamper!Genesis ELSE Tamper!Last(records).hash
        IN  records' = records \o Tamper!Build(new, head, Tamper!LastSeq(records) + 1)
  BY DEF Tamper!Seal
<1>. DEFINE due(u) == /\ ledger[u] # None /\ u \notin under
                      /\ Tamper!NeedsSeal(Tamper!Latest(records, u), u, ledger[u])
            ids    == {u \in Sealed : due(u)}
            uids   == Tamper!InOrder(ids)
            new == [k \in DOMAIN uids |-> Tamper!SealedFields(uids[k], ledger[uids[k]], schema)]
            head   == IF records = <<>> THEN <<>> ELSE Tamper!Last(records).hash
            f      == Tamper!LastSeq(records) + 1
<1>3. records' = records \o Tamper!Build(new, head, f)
  BY <1>2 DEF Tamper!Genesis
<1>4. /\ records \in Seq(TRecord) /\ ledger \in Ledgers /\ schema \in 1 .. Schemas
      /\ heads \in Seq(TAnchor) /\ used \in Nat /\ Sealed \subseteq Nat
  BY SealedAreNumbers DEF TamperInv, TamperTypes, Ledgers
<1>5. /\ uids \in Seq(ids) /\ \A j, k \in DOMAIN uids : j # k => uids[j] # uids[k]
  <2>1. ids \in SUBSET Sealed
    OBVIOUS
  <2>. HIDE DEF ids
  <2>. QED
    BY <2>1, SealOrder
<1>. HIDE DEF uids
<1>6. \A u \in ids : /\ u \in Sealed /\ ledger[u] \in Tamper!Row /\ u <= used
                     /\ ledger[u] # None /\ Tamper!NeedsSeal(Tamper!Latest(records, u), u, ledger[u])
  <2>1. \A u \in Sealed : ledger[u] # None => u <= used
    BY <1>4 DEF TamperInv, TamperTypes
  <2>. QED
    BY <1>4, <2>1 DEF Ledgers
<1>. HIDE DEF ids
<1>7. /\ DOMAIN uids = 1 .. Len(uids) /\ Len(uids) \in Nat
      /\ \A k \in 1 .. Len(uids) : uids[k] \in ids
  BY <1>5
<1>8. /\ new \in Seq(TBody) /\ Len(new) = Len(uids)
      /\ \A k \in 1 .. Len(uids) : new[k] = Tamper!SealedFields(uids[k], ledger[uids[k]], schema)
  <2>1. \A u \in ids : Tamper!SealedFields(u, ledger[u], schema) \in TBody
    <3>1. \A u \in Sealed, r \in Tamper!Row, s \in 1 .. Schemas : Tamper!SealedFields(u, r, s) \in TBody
      BY DEF Tamper!SealedFields, Tamper!Row, TBody, Tamper!Body
    <3>. QED
      BY <1>4, <1>6, <3>1
  <2>2. \A k \in 1 .. Len(uids) : Tamper!SealedFields(uids[k], ledger[uids[k]], schema) \in TBody
    BY <1>7, <2>1
  <2>. QED
    BY <1>7, <2>2
<1>. HIDE DEF new
<1>9. head \in Seq(TBody) /\ f \in Nat \ {0}
  BY <1>4, EndOf
<1>10. /\ head = IF records = <<>> THEN <<>> ELSE records[Len(records)].hash
       /\ tampers = 0 => f = Len(records) + 1
  BY <1>4, EndOf, WholeChain DEF TamperInv, Honest
<1>. HIDE DEF head, f
<1>11. /\ Tamper!Build(new, head, f) \in Seq(TRecord)
       /\ Len(Tamper!Build(new, head, f)) = Len(new)
       /\ \A k \in 1 .. Len(new) : Tamper!Build(new, head, f)[k].body = new[k]
  BY <1>8, <1>9, Built
<1>12. /\ records' \in Seq(TRecord) /\ Len(records') = Len(records) + Len(uids)
       /\ \A k \in 1 .. Len(records) + Len(uids) :
            records'[k].body = IF k <= Len(records) THEN records[k].body ELSE new[k - Len(records)]
  <2>. DEFINE b == Tamper!Build(new, head, f)
  <2>1. /\ b \in Seq(TRecord) /\ Len(b) = Len(uids) /\ records' = records \o b
        /\ \A k \in 1 .. Len(uids) : b[k].body = new[k]
    BY <1>3, <1>8, <1>11
  <2>. HIDE DEF b
  <2>2. /\ records \o b \in Seq(TRecord) /\ Len(records \o b) = Len(records) + Len(b)
        /\ \A k \in 1 .. Len(records) + Len(b) :
             (records \o b)[k] = IF k <= Len(records) THEN records[k] ELSE b[k - Len(records)]
    <3>1. records \in Seq(TRecord) /\ b \in Seq(TRecord)
      BY <1>4, <2>1
    <3>. QED
      BY <3>1, Joined, Zenon
  <2>3. Len(records) \in Nat /\ \A k \in 1 .. Len(records) + Len(b) :
          k <= Len(records) \/ k - Len(records) \in 1 .. Len(b)
    BY <1>4, <1>7, <2>1
  <2>. QED
    BY <2>1, <2>2, <2>3
<1>13. TamperTypes'
  <2>1. ASSUME NEW k \in 1 .. Len(records') PROVE records'[k].body.uid <= used
    <3>1. CASE k <= Len(records)
      <4>1. k \in DOMAIN records /\ k \in 1 .. Len(records) + Len(uids)
        BY <1>4, <1>7, <1>12, <3>1
      <4>. QED
        BY <1>12, <3>1, <4>1 DEF TamperInv, TamperTypes
    <3>2. CASE k > Len(records)
      <4>1. k - Len(records) \in 1 .. Len(uids) /\ k \in 1 .. Len(records) + Len(uids)
            /\ ~(k <= Len(records))
        BY <1>4, <1>7, <1>12, <3>2
      <4>2. records'[k].body = new[k - Len(records)]
        BY <1>12, <4>1
      <4>3. new[k - Len(records)].uid = uids[k - Len(records)]
        <5>1. \A u, r, s : Tamper!SealedFields(u, r, s).uid = u
          BY DEF Tamper!SealedFields
        <5>. QED
          BY <1>8, <4>1, <5>1
      <4>4. uids[k - Len(records)] <= used
        BY <1>6, <1>7, <4>1
      <4>. QED
        BY <4>2, <4>3, <4>4
    <3>3. Len(records) \in Nat /\ k \in Nat
      BY <1>4
    <3>. QED
      BY <3>1, <3>2, <3>3
  <2>2. DOMAIN records' = 1 .. Len(records')
    BY <1>12
  <2>. QED
    BY <1>1, <1>12, <2>1, <2>2 DEF TamperInv, TamperTypes
<1>14. tampers = 0 => Honest(records', ledger, heads)
  <2>. SUFFICES ASSUME tampers = 0 PROVE Honest(records', ledger, heads)
    OBVIOUS
  <2>1. Honest(records, ledger, heads) /\ Whole(records)
    BY DEF TamperInv, Honest
  <2>2. records' = records \o Tamper!Build(new, head, Len(records) + 1)
    BY <1>3, <1>10
  <2>3. /\ Whole(records')
        /\ \A k \in 1 .. Len(records) : records'[k] = records[k]
        /\ \A k \in 1 .. Len(new) : records'[Len(records) + k].body = new[k]
    BY <1>4, <1>8, <1>10, <2>1, <2>2, BuildingOn
  <2>4. \A k \in 1 .. Len(uids) : records'[Len(records) + k].body
                                   = Tamper!SealedFields(uids[k], ledger[uids[k]], schema)
    BY <1>8, <2>3
  <2>5. uids \in Seq(Sealed)
    BY <1>5, <1>6, <1>7
  <2>6. \A k \in DOMAIN uids :
          /\ ledger[uids[k]] # None
          /\ \/ Tamper!Latest(records, uids[k]) = None
             \/ Tamper!Latest(records, uids[k])
                  # Tamper!SealedFields(uids[k], ledger[uids[k]], Tamper!Latest(records, uids[k]).schema)
             \/ ledger[uids[k]].extra \cap (Tamper!Latest(records, uids[k]).schema + 1 .. schema) # {}
    BY <1>6, <1>7 DEF Tamper!NeedsSeal
  <2>. QED
    BY <1>4, <1>5, <1>12, <2>1, <2>3, <2>4, <2>5, <2>6, HonestSeal
<1>. QED
  BY <1>1, <1>13, <1>14 DEF TamperInv

\* A corruption.
LEMMA TamperCorrupt ==
  ASSUME SoloAssumption, TamperInv, NEW kind \in Tamper!Kinds, NEW i, Tamper!Corrupt(kind, i)
  PROVE  TamperInv'
<1>1. UNCHANGED <<schema, heads, truth, trusted>> /\ tampers' = tampers + 1
  BY DEF Tamper!Corrupt
<1>2. tampers' # 0
  BY <1>1 DEF TamperInv, TamperTypes
<1>3. TamperTypes'
  BY TypesCorrupt DEF TamperInv
<1>4. StaysComplete(ledger', truth)
  <2>1. \A u \in Sealed : ledger'[u] # None =>
              \/ ledger[u] # None /\ ledger'[u].state = ledger[u].state
              \/ ledger'[u].state = "complete"
    BY CorruptLedger DEF TamperInv
  <2>. QED
    BY <2>1 DEF TamperInv, StaysComplete
<1>. QED
  BY <1>1, <1>2, <1>3, <1>4 DEF TamperInv

\* What holds of the ledger, the chain and the anchors holds after every step.
LEMMA TamperStep ==
  ASSUME SoloAssumption, TamperInv, Tamper!Next
  PROVE  TamperInv'
BY TamperBegin, TamperComplete, TamperUpgrade, TamperSeal, TamperAnchor, TamperCorrupt DEF Tamper!Next

\* What is left alone keeps the invariant.
LEMMA TamperStutter ==
  ASSUME TamperInv, UNCHANGED tamperVars
  PROVE  TamperInv'
<1>1. UNCHANGED <<ledger, used, schema, records, heads, tampers, truth, trusted>>
  BY DEF tamperVars
<1>2. TamperTypes'
  BY <1>1 DEF TamperInv, TamperTypes
<1>. QED
  BY <1>1, <1>2 DEF TamperInv

\* What verify's comparison with the ledger finds nothing wrong with.
LEMMA LedgerClean ==
  ASSUME NEW c, NEW l
  PROVE  Tamper!LedgerBreaks(c, l) = {} <=>
           \A u \in Sealed : Tamper!Latest(c, u) # None =>
             /\ l[u] # None
             /\ \/ Tamper!Latest(c, u) = Tamper!SealedFields(u, l[u], Tamper!Latest(c, u).schema)
                \/ Tamper!MayDiffer(Tamper!Latest(c, u), l[u])
<1>1. Tamper!Missing(c, l) = {u \in Sealed : l[u] = None /\ Tamper!Latest(c, u) # None}
  BY DEF Tamper!Missing
<1>. DEFINE Changed == {u \in Sealed :
              /\ l[u] # None /\ Tamper!Latest(c, u) # None
              /\ Tamper!Latest(c, u) # Tamper!SealedFields(u, l[u], Tamper!Latest(c, u).schema)
              /\ ~Tamper!MayDiffer(Tamper!Latest(c, u), l[u])}
<1>2. Tamper!LedgerBreaks(c, l) =
        {Tamper!Break("ledger_changed", u) : u \in Changed}
          \cup {Tamper!Break("ledger_missing", u) : u \in Tamper!Missing(c, l)}
  BY DEF Tamper!LedgerBreaks
<1>. HIDE DEF Changed
<1>3. Tamper!LedgerBreaks(c, l) = {} <=> Changed = {} /\ Tamper!Missing(c, l) = {}
  BY <1>2
<1>. QED
  BY <1>1, <1>3 DEF Changed

\* An untouched chain verifies.
LEMMA HonestClean ==
  ASSUME SoloAssumption, TamperInv
  PROVE  Tamper!HonestIsClean
<1>. SUFFICES ASSUME tampers = 0 PROVE Tamper!Verified
  BY DEF Tamper!HonestIsClean
<1>1. records \in Seq(TRecord) /\ heads \in Seq(TAnchor) /\ Honest(records, ledger, heads)
  BY DEF TamperInv, TamperTypes
<1>2. Tamper!RecordBreaks(records) = {}
  BY <1>1, NoBreakIsWhole DEF Honest
<1>3. \A j \in DOMAIN heads : /\ ~(heads[j].seq > Tamper!LastSeq(records))
                              /\ Tamper!HashAt(records, heads[j].seq) = heads[j].head
  <2>1. Whole(records) /\ OfChain(heads, records)
    BY <1>1 DEF Honest
  <2>2. /\ Tamper!LastSeq(records) = Len(records)
        /\ \A k \in 1 .. Len(records) : Tamper!HashAt(records, k) = Tamper!Bodies(SubSeq(records, 1, k))
    BY <1>1, <2>1, WholeChain
  <2>. QED
    BY <1>1, <2>1, <2>2 DEF OfChain
<1>4. Tamper!ChainIntact
  <2>1. \A a \in Tamper!ToSet(heads) :
          ~(a.seq > Tamper!LastSeq(records) \/ Tamper!HashAt(records, a.seq) # a.head)
    BY <1>3 DEF Tamper!ToSet
  <2>2. {b \in Tamper!ToSet(heads) :
           b.seq > Tamper!LastSeq(records) \/ Tamper!HashAt(records, b.seq) # b.head} = {}
    BY <2>1
  <2>3. Tamper!AnchorBreaks(records) = {}
    BY <2>2 DEF Tamper!AnchorBreaks
  <2>. QED
    BY <1>2, <2>3 DEF Tamper!ChainIntact
<1>5. Tamper!LedgerBreaks(records, ledger) = {}
  <2>1. ASSUME NEW u \in Sealed, Tamper!Latest(records, u) # None
        PROVE  /\ ledger[u] # None
               /\ \/ Tamper!Latest(records, u)
                       = Tamper!SealedFields(u, ledger[u], Tamper!Latest(records, u).schema)
                  \/ Tamper!MayDiffer(Tamper!Latest(records, u), ledger[u])
    <3>1. \E k \in DOMAIN records : records[k].body.uid = u
      BY <1>1, <2>1, LatestOf
    <3>2. ledger[u] # None
      BY <1>1, <3>1 DEF Honest, OfRows
    <3>. QED
      BY <1>1, <2>1, <3>2 DEF Honest, UpToDate
  <2>. QED
    BY <2>1, LedgerClean
<1>. QED
  BY <1>4, <1>5 DEF Tamper!Verified

\* A chain that is intact has the bodies that its anchors are of.
LEMMA AnchoredFixed ==
  ASSUME SoloAssumption, TamperInv
  PROVE  Tamper!AnchoredIsFixed
<1>. SUFFICES ASSUME Tamper!ChainIntact, NEW a \in Tamper!ToSet(heads)
              PROVE  Len(records) >= a.seq /\ Tamper!Bodies(SubSeq(records, 1, a.seq)) = a.head
  BY DEF Tamper!AnchoredIsFixed
<1>1. records \in Seq(TRecord) /\ heads \in Seq(TAnchor)
  BY DEF TamperInv, TamperTypes
<1>2. PICK j \in DOMAIN heads : a = heads[j]
  BY DEF Tamper!ToSet
<1>3. /\ Tamper!RecordBreaks(records) = {}
      /\ \A k \in DOMAIN heads : /\ ~(heads[k].seq > Tamper!LastSeq(records))
                                 /\ Tamper!HashAt(records, heads[k].seq) = heads[k].head
  BY IntactMeans
<1>4. \A k \in DOMAIN heads : heads[k].seq <= Tamper!LastSeq(records)
  <2>1. \A k \in DOMAIN heads : heads[k] \in TAnchor
    BY <1>1
  <2>2. \A k \in DOMAIN heads : heads[k].seq \in Nat
    BY <2>1 DEF TAnchor
  <2>. QED
    BY <1>1, <1>3, <2>2, EndOf
<1>5. a.seq \in 1 .. Len(records) /\ Tamper!Bodies(SubSeq(records, 1, a.seq)) = a.head
  BY <1>1, <1>2, <1>3, <1>4, AnchoredBodies
<1>. QED
  BY <1>1, <1>5

\* No record of an untouched chain repeats the one below it.
LEMMA SealedOnce ==
  ASSUME SoloAssumption, TamperInv
  PROVE  Tamper!NothingSealedTwice
<1>1. tampers = 0 => NoEcho(records)
  BY DEF TamperInv, Honest
<1>. QED
  BY <1>1 DEF Tamper!NothingSealedTwice, NoEcho

\* What was anchored of a completed call is what the gateway wrote, or the chain shows what
\* was changed.
LEMMA OnRecord ==
  ASSUME SoloAssumption, TamperInv
  PROVE  Tamper!EditIsOnRecord
<1>. SUFFICES ASSUME Tamper!Verified, NEW i \in 1 .. trusted, records[i].body.state = "complete"
              PROVE  \/ /\ ledger[records[i].body.uid] # None
                        /\ ledger[records[i].body.uid].cost = truth[records[i].body.uid].cost
                     \/ \E j \in i + 1 .. Len(records) :
                          /\ records[j].body.uid = records[i].body.uid
                          /\ records[j].body # records[i].body
  BY DEF Tamper!EditIsOnRecord
<1>. DEFINE claim == records[i].body
            u    == claim.uid
<1>1. records \in Seq(TRecord) /\ heads \in Seq(TAnchor) /\ trusted \in Nat /\ trusted # 0
  BY DEF TamperInv, TamperTypes
<1>2. PICK j \in DOMAIN heads :
        /\ heads[j].seq = trusted
        /\ \A k \in DOMAIN heads[j].head : heads[j].head[k].state = "complete" =>
             /\ truth[heads[j].head[k].uid] # None
             /\ truth[heads[j].head[k].uid].state = "complete"
             /\ truth[heads[j].head[k].uid].cost = heads[j].head[k].cost
  BY <1>1 DEF TamperInv, VouchedFor
<1>3. trusted \in 1 .. Len(records) /\ Tamper!Bodies(SubSeq(records, 1, trusted)) = heads[j].head
  <2>1. heads[j] \in Tamper!ToSet(heads)
    BY DEF Tamper!ToSet
  <2>2. Len(records) >= trusted /\ Tamper!Bodies(SubSeq(records, 1, trusted)) = heads[j].head
    BY <1>2, <2>1, AnchoredFixed DEF Tamper!AnchoredIsFixed, Tamper!Verified
  <2>. QED
    BY <1>1, <2>2
<1>4. i \in 1 .. Len(records) /\ i \in DOMAIN heads[j].head /\ heads[j].head[i] = claim
  <2>1. trusted \in 0 .. Len(records) /\ i \in 1 .. Len(records)
    BY <1>1, <1>3
  <2>2. /\ heads[j].head \in Seq(TBody) /\ Len(heads[j].head) = trusted
        /\ \A k \in 1 .. trusted : heads[j].head[k] = records[k].body
    BY <1>1, <1>3, <2>1, BodiesOfPrefix
  <2>. QED
    BY <2>1, <2>2
<1>5. truth[u].cost = claim.cost /\ claim.state = "complete"
  BY <1>2, <1>4
<1>6. claim \in TBody /\ u \in Sealed
  BY <1>1, <1>4, RecordOf, BodyOf
<1>7. PICK m \in DOMAIN records : /\ m >= i /\ records[m].body.uid = u
                                 /\ Tamper!Latest(records, u) = records[m].body
  <2>1. i \in DOMAIN records
    BY <1>1, <1>4
  <2>. QED
    BY <1>1, <2>1, LatestOf
<1>8. CASE records[m].body = claim
  <2>1. Tamper!Latest(records, u) = claim /\ claim # None
    BY <1>6, <1>7, <1>8, SealedAreNumbers
  <2>2. /\ ledger[u] # None
        /\ claim = Tamper!SealedFields(u, ledger[u], claim.schema) \/ Tamper!MayDiffer(claim, ledger[u])
    BY <1>6, <2>1, LedgerClean DEF Tamper!Verified
  <2>3. ~Tamper!MayDiffer(claim, ledger[u])
    BY <1>5 DEF Tamper!MayDiffer
  <2>4. claim.cost = ledger[u].cost
    <3>1. \A w, r, s : Tamper!SealedFields(w, r, s).cost = r.cost
      BY DEF Tamper!SealedFields
    <3>. QED
      BY <2>2, <2>3, <3>1
  <2>. QED
    BY <1>5, <2>2, <2>4
<1>9. CASE records[m].body # claim
  <2>1. m \in i + 1 .. Len(records)
    <3>1. m # i /\ m \in 1 .. Len(records)
      BY <1>1, <1>9
    <3>. QED
      BY <1>1, <1>4, <1>7, <3>1
  <2>. QED
    BY <1>7, <1>9, <2>1
<1>. QED
  BY <1>8, <1>9

\* Each corruption of a chain untouched until then shows, up to its last anchor.
LEMMA EveryKindShows ==
  ASSUME SoloAssumption, TamperInv
  PROVE  Tamper!CorruptionShows
<1>. SUFFICES ASSUME NEW kind \in Tamper!Kinds, NEW i \in 1 .. trusted, tampers = 0,
                     Tamper!Corrupt(kind, i), Tamper!Verified',
                     kind = "ledger_edit" =>
                       ~Tamper!MayDiffer(Tamper!Latest(records, Tamper!UidAt(i)), ledger[Tamper!UidAt(i)])
              PROVE  FALSE
  BY DEF Tamper!CorruptionShows
<1>. DEFINE claim == records[i].body
            u    == claim.uid
<1>1. /\ records \in Seq(TRecord) /\ heads \in Seq(TAnchor) /\ trusted \in Nat /\ trusted # 0
      /\ Honest(records, ledger, heads) /\ ledger \in Ledgers
      /\ \A k \in DOMAIN records : records[k].body.uid <= used
  BY DEF TamperInv, TamperTypes, Ledgers
<1>2. records' \in Seq(TRecord) /\ heads' = heads
  BY CorruptChain DEF Tamper!Corrupt, TamperInv
<1>3. PICK j \in DOMAIN heads : heads[j].seq = trusted
  BY <1>1 DEF TamperInv, VouchedFor
<1>4. trusted \in 1 .. Len(records) /\ heads[j].head = Tamper!Bodies(SubSeq(records, 1, trusted))
  BY <1>1, <1>3 DEF Honest, OfChain
<1>5. trusted \in 1 .. Len(records') /\ Tamper!Bodies(SubSeq(records', 1, trusted)) = heads[j].head
  <2>1. /\ Tamper!RecordBreaks(records') = {}
        /\ \A k \in DOMAIN heads' : /\ ~(heads'[k].seq > Tamper!LastSeq(records'))
                                    /\ Tamper!HashAt(records', heads'[k].seq) = heads'[k].head
    BY IntactMeans DEF Tamper!Verified
  <2>2. \A k \in DOMAIN heads : heads[k].seq <= Tamper!LastSeq(records')
    <3>1. \A k \in DOMAIN heads : heads[k] \in TAnchor
      BY <1>1
    <3>2. \A k \in DOMAIN heads : heads[k].seq \in Nat
      BY <3>1 DEF TAnchor
    <3>3. Tamper!LastSeq(records') \in Nat
      BY <1>2, EndOf
    <3>. QED
      BY <1>2, <2>1, <3>2, <3>3
  <2>3. \A k \in DOMAIN heads : Tamper!HashAt(records', heads[k].seq) = heads[k].head
    BY <1>2, <2>1
  <2>4. /\ heads[j].seq \in 1 .. Len(records')
        /\ Tamper!Bodies(SubSeq(records', 1, heads[j].seq)) = heads[j].head
    BY <1>1, <1>2, <2>1, <2>2, <2>3, AnchoredBodies
  <2>. QED
    BY <1>3, <2>4
<1>6. \A k \in 1 .. trusted : records'[k].body = records[k].body
  <2>1. trusted \in 0 .. Len(records) /\ trusted \in 0 .. Len(records')
    BY <1>4, <1>5
  <2>2. \A k \in 1 .. trusted : heads[j].head[k] = records[k].body
    BY <1>1, <1>4, <2>1, BodiesOfPrefix
  <2>3. \A k \in 1 .. trusted : heads[j].head[k] = records'[k].body
    BY <1>2, <1>5, <2>1, BodiesOfPrefix
  <2>. QED
    BY <2>2, <2>3
<1>7. /\ i \in 1 .. Len(records) /\ Len(records) \in Nat /\ trusted <= Len(records)
      /\ trusted <= Len(records') /\ records'[i].body = claim /\ i <= trusted /\ i \in Nat \ {0}
      /\ trusted \in Nat
  BY <1>1, <1>4, <1>5, <1>6
<1>8. \A k \in 1 .. Len(records) - 1 : records[k].body # records[k + 1].body
  <2>. SUFFICES ASSUME NEW k \in 1 .. Len(records) - 1, records[k].body = records[k + 1].body
                PROVE  FALSE
    OBVIOUS
  <2>1. k + 1 \in DOMAIN records /\ k \in 1 .. (k + 1) - 1 /\ k + 1 .. (k + 1) - 1 = {}
    BY <1>1
  <2>2. \/ records[k].body.state # records[k + 1].body.state
        \/ records[k].body.cost # records[k + 1].body.cost
        \/ records[k + 1].body.extra \ records[k].body.extra # {}
    BY <1>1, <2>1 DEF Honest, NoEcho
  <2>. QED
    BY <2>2
<1>9. u \in Sealed /\ u \in Nat /\ u <= used /\ used \in Nat
  BY <1>1, <1>7, RecordOf, BodyOf, SealedAreNumbers DEF TamperInv, TamperTypes
<1>10. ledger[u] # None /\ Tamper!Latest(records, u) # None /\ Tamper!Latest(records, u) \in TBody
       /\ ledger[u] \in Tamper!Row
  <2>1. i \in DOMAIN records
    BY <1>1, <1>7
  <2>2. PICK m \in DOMAIN records : Tamper!Latest(records, u) = records[m].body
    BY <1>1, <2>1, LatestOf
  <2>3. records[m].body \in TBody
    BY <1>1, RecordOf
  <2>4. ledger[u] # None
    BY <1>1, <2>1 DEF Honest, OfRows
  <2>. QED
    BY <1>1, <1>9, <2>2, <2>3, <2>4, SealedAreNumbers DEF Ledgers
<1>11. \A w \in Sealed : Tamper!Latest(records', w) # None =>
             /\ ledger'[w] # None
             /\ \/ Tamper!Latest(records', w)
                     = Tamper!SealedFields(w, ledger'[w], Tamper!Latest(records', w).schema)
                \/ Tamper!MayDiffer(Tamper!Latest(records', w), ledger'[w])
  <2>1. Tamper!LedgerBreaks(records', ledger') = {}
    BY DEF Tamper!Verified
  <2>. QED
    BY <2>1, LedgerClean
<1>12. ASSUME kind = "ledger_edit" PROVE FALSE
  <2>. DEFINE before == Tamper!Latest(records, u)
  <2>1. records' = records
    BY <1>12, CorruptChain DEF TamperInv
  <2>2. ledger'[u] = Tamper!Understate(ledger[u])
    BY <1>10, <1>12, CorruptLedger DEF TamperInv
  <2>3. ~Tamper!MayDiffer(before, ledger[u])
    BY <1>12 DEF Tamper!UidAt
  <2>4. before = Tamper!SealedFields(u, ledger[u], before.schema)
    BY <1>1, <1>9, <1>10, <2>3 DEF Honest, UpToDate
  <2>5. \/ before = Tamper!SealedFields(u, Tamper!Understate(ledger[u]), before.schema)
        \/ Tamper!MayDiffer(before, Tamper!Understate(ledger[u]))
    BY <1>9, <1>10, <1>11, <2>1, <2>2
  <2>6. \A r \in Tamper!Row : /\ Tamper!Understate(r).state = r.state
                              /\ Tamper!Understate(r).cost # r.cost
    BY DEF Tamper!Understate, Tamper!Row
  <2>7. \A w, r, s : Tamper!SealedFields(w, r, s).cost = r.cost
    BY DEF Tamper!SealedFields
  <2>. HIDE DEF before, u
  <2>8. ~Tamper!MayDiffer(before, Tamper!Understate(ledger[u]))
    BY <1>10, <2>3, <2>6 DEF Tamper!MayDiffer
  <2>9. before.cost = ledger[u].cost /\ before.cost = Tamper!Understate(ledger[u]).cost
    BY <2>4, <2>5, <2>7, <2>8
  <2>. QED
    BY <1>10, <2>6, <2>9
<1>13. ASSUME kind = "ledger_delete" PROVE FALSE
  <2>1. records' = records
    BY <1>13, CorruptChain DEF TamperInv
  <2>2. ledger'[u] = None
    BY <1>13, CorruptLedger DEF TamperInv
  <2>. QED
    BY <1>9, <1>10, <1>11, <2>1, <2>2
<1>14. ASSUME kind \in Edits PROVE FALSE
  <2>1. records'[i].body.cost # records[i].body.cost
    BY <1>14, CorruptChain DEF TamperInv
  <2>. QED
    BY <1>7, <2>1
<1>15. ASSUME kind \in Removes PROVE FALSE
  <2>1. /\ Len(records') = Len(records) - 1
        /\ \A k \in 1 .. Len(records) - 1 :
                   records'[k].body = IF k < i THEN records[k].body ELSE records[k + 1].body
    BY <1>15, CorruptChain DEF TamperInv
  <2>2. i \in 1 .. Len(records) - 1 /\ ~(i < i)
    BY <1>7, <2>1
  <2>. QED
    BY <1>7, <1>8, <2>1, <2>2
<1>16. ASSUME kind = "insert_rewrite" PROVE FALSE
  <2>1. records'[i].body.uid = used + 1
    BY <1>16, CorruptChain DEF TamperInv
  <2>. QED
    BY <1>7, <1>9, <2>1
<1>17. ASSUME kind = "swap_rewrite" PROVE FALSE
  <2>1. PICK a \in 1 .. Len(records) - 1 :
          /\ a <= i
          /\ \A k \in 1 .. Len(records) :
               records'[k].body = IF k = a THEN records[a + 1].body
                                  ELSE IF k = a + 1 THEN records[a].body ELSE records[k].body
    BY <1>17, CorruptChain DEF TamperInv
  <2>2. a \in 1 .. trusted /\ a \in 1 .. Len(records)
    BY <1>7, <2>1
  <2>3. records'[a].body = records[a + 1].body
    BY <2>1, <2>2
  <2>. QED
    BY <1>6, <1>8, <2>2, <2>3
<1>18. ASSUME kind = "truncate" PROVE FALSE
  <2>1. Len(records') = i - 1
    BY <1>18, CorruptChain DEF TamperInv
  <2>. QED
    BY <1>7, <2>1
<1>. QED
  BY <1>12, <1>13, <1>14, <1>15, <1>16, <1>17, <1>18 DEF Tamper!Kinds, Edits, Removes

-----------------------------------------------------------------------------
(* The parts, each with the invariant of its own.                          *)

\* A part that is idle stays so, and the others have what holds of them.
LEMMA ChainParts ==
  ASSUME SoloAssumption
  PROVE  /\ SoloInit => (part = "tamper" => TamperInv) /\ (part = "fleet" => LogInv)
         /\ (part = "tamper" => TamperInv) /\ (part = "fleet" => LogInv) /\ [SoloNext]_partsVars
              => (part = "tamper" => TamperInv)' /\ (part = "fleet" => LogInv)'
<1>0. ConstantsAssumption
  BY DEF SoloAssumption
<1>1. ASSUME SoloInit PROVE (part = "tamper" => TamperInv) /\ (part = "fleet" => LogInv)
  BY <1>0, <1>1, TamperInit, LogInit DEF SoloInit
<1>2. ASSUME part = "tamper" => TamperInv, part = "fleet" => LogInv, [SoloNext]_partsVars
      PROVE  (part = "tamper" => TamperInv)' /\ (part = "fleet" => LogInv)'
  <2>1. part' = part
    BY <1>2 DEF SoloNext, partsVars
  <2>2. ASSUME part = "tamper" PROVE TamperInv'
    <3>1. Tamper!Next \/ UNCHANGED tamperVars
      BY <1>2, <2>2 DEF SoloNext, partsVars
    <3>. QED
      BY <1>2, <2>2, <3>1, TamperStep, TamperStutter
  <2>3. ASSUME part = "fleet" PROVE LogInv'
    <3>1. [Next]_vars
      BY <1>2, <2>3 DEF SoloNext, partsVars
    <3>. QED
      BY <1>0, <1>2, <2>3, <3>1, LogStep
  <2>. QED
    BY <2>1, <2>2, <2>3
<1>. QED
  BY <1>1, <1>2

\* However many records, corruptions and anchors: a chain that verifies is the one that was sealed
\* and anchored, with no outcome sealed twice, or shows what was changed; and a chain nobody
\* touched verifies, however many append and whatever is killed (ChainIsTrue; audit/chain.py,
\* audit/log.py, audit/tamper.py).
THEOREM ChainsAreTrue ==
  ASSUME SoloAssumption
  PROVE  SoloSpec => []ChainIsTrue
<1>. DEFINE Inv == (part = "tamper" => TamperInv) /\ (part = "fleet" => LogInv)
<1>1. SoloInit => Inv
  BY ChainParts
<1>2. Inv /\ [SoloNext]_partsVars => Inv'
  BY ChainParts
<1>3. Inv => ChainIsTrue
  BY HonestClean, AnchoredFixed, SealedOnce, OnRecord, NothingBroken DEF ChainIsTrue, Tamper!ChainIsTrue
<1>. HIDE DEF Inv
<1>. QED
  BY <1>1, <1>2, <1>3, PTL DEF SoloSpec

\* Each kind of corruption of what the last anchor vouches for breaks verification at once
\* (BeforeTheAnchorDetected; audit/tamper.py, verify of audit/chain.py).
THEOREM CorruptionsAreDetected ==
  ASSUME SoloAssumption
  PROVE  SoloSpec => BeforeTheAnchorDetected
<1>. DEFINE Inv == (part = "tamper" => TamperInv) /\ (part = "fleet" => LogInv)
<1>1. SoloInit => Inv
  BY ChainParts
<1>2. Inv /\ [SoloNext]_partsVars => Inv'
  BY ChainParts
<1>3. Inv /\ [SoloNext]_partsVars => [part = "tamper" => Tamper!CorruptionShows]_partsVars
  <2>. SUFFICES ASSUME Inv, SoloNext, part = "tamper" PROVE Tamper!CorruptionShows
    OBVIOUS
  <2>1. TamperInv
    OBVIOUS
  <2>. QED
    BY <2>1, EveryKindShows
<1>. HIDE DEF Inv
<1>. QED
  BY <1>1, <1>2, <1>3, PTL DEF SoloSpec, BeforeTheAnchorDetected
=============================================================================
