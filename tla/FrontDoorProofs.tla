--------------------------- MODULE FrontDoorProofs ---------------------------
(***************************************************************************)
(* Theorems about FrontDoor for every policy, route table, team, caller    *)
(* and number of requests.  Requests meet only in the quota's windows, so  *)
(* the inductive invariant is one of each request: what the verdict on it  *)
(* was, in the words of the policy's own rule, however it ended.           *)
(***************************************************************************)
EXTENDS FrontDoor, SetTheorems, SequenceTheorems, TLAPS

Places == {"idle", "asking", "through", "calling", "sent", "done", "gone"} \cup Refused

Verdict(r) == Decide(ask[r].class, target[r].provider, target[r].region, masked[r])

\* The class the verdict is given by: that of the request, or the one it is redacted as.
Effective(r) ==
  IF masked[r] /\ Rules[ClassOf(r)].as # None THEN Rules[ClassOf(r)].as ELSE ClassOf(r)

\* A request whose class was read from a header, and that has a team.
FromProxy(r) ==
  /\ AskOK(ask[r]) /\ ask[r].via = "proxy" /\ ask[r].key \in DOMAIN TeamOf
  /\ ask[r].class \in Classes /\ ask[r].class = ReadClass(ask[r].header)

\* A request that comes to the gateway's policy.
Aimed(r) ==
  /\ target[r].provider \in DOMAIN Providers /\ target[r].region \in Regions
  /\ \/ FromProxy(r) /\ (masked[r] <=> Redacts(r))
     \/ /\ AskOK(ask[r]) /\ ask[r].via = "library" /\ ask[r].class \in Classes \cup {None}
        /\ (masked[r] <=> ask[r].claims)

Ruled(r) == \/ at[r] \in {"calling", "sent", "policy_refused"} \/ sent[r] # None
            \/ reply[r].what = "policy_refused" \/ (row[r] # None /\ row[r].cached)

Early(r) ==
  /\ at[r] \in {"idle", "asking", "through", "calling"} => row[r] = None /\ sent[r] = None
  /\ at[r] # "done" => reply[r] = NoReply
  /\ at[r] \in {"idle", "asking", "through"} => ~masked[r]
  /\ at[r] \in {"asking", "through"} => FromProxy(r)

OnTheWire(r) ==
  sent[r] # None =>
    /\ Verdict(r).allowed /\ (masked[r] => sent[r].clear = {})
    /\ row[r] # None /\ row[r].redacted = masked[r] /\ row[r].error \notin Refused

InCache(r) == row[r] # None /\ row[r].cached => Verdict(r).cache

\* Between the two writes of a refusal.
Refusing(r) ==
  at[r] \in Refused =>
    /\ row[r] \in Rows /\ row[r] # None /\ row[r].state = "in_flight" /\ row[r].error = None
    /\ ~row[r].cached /\ sent[r] = None
    /\ at[r] = "policy_refused" => ~Verdict(r).allowed
    /\ at[r] # "policy_refused" => ~masked[r]

OnRecord(r) ==
  /\ reply[r].what \in Refused =>
       /\ row[r] # None /\ row[r].state = "complete" /\ row[r].error = reply[r].what
  /\ row[r] # None /\ row[r].state = "complete" /\ sent[r] = None =>
       row[r].cached \/ row[r].error \in Refused
  /\ row[r] # None /\ row[r].error \in Refused =>
       sent[r] = None /\ ~row[r].cached /\ row[r].error = reply[r].what
  /\ reply[r].what \in OwnFault => sent[r] = None /\ row[r] = None

ToCaller(r) ==
  masked[r] /\ ask[r].via = "proxy" /\ Rules[ask[r].class].rehydrate = "caller" =>
    /\ \A value \in reply[r].back : Said(r, value)
    /\ \A p \in reply[r].left : \E i \in DOMAIN ask[r].found :
         ask[r].found[i].norm = p /\ ~Said(r, ask[r].found[i].value)

RInv(r) ==
  /\ at[r] \in Places /\ masked[r] \in BOOLEAN /\ DOMAIN reply[r] = {"what", "back", "left"}
  /\ row[r] \in Rows \cup {None} /\ (at[r] = "sent" => row[r] \in Rows)
  /\ Early(r) /\ (Ruled(r) => Aimed(r)) /\ OnTheWire(r) /\ InCache(r)
  /\ reply[r].what = "policy_refused" => ~Verdict(r).allowed
  /\ at[r] = "sent" => Verdict(r).allowed /\ row[r].redacted = masked[r] /\ row[r].error = None
                       /\ ~row[r].cached /\ sent[r] # None
  /\ Refusing(r) /\ OnRecord(r) /\ ToCaller(r)

Shapes ==
  /\ DOMAIN at = Requests /\ DOMAIN ask = Requests /\ DOMAIN target = Requests
  /\ DOMAIN masked = Requests /\ DOMAIN row = Requests /\ DOMAIN sent = Requests
  /\ DOMAIN reply = Requests

Windows ==
  /\ scene \in Scenarios /\ now \in 0 .. scene.horizon /\ window \subseteq passed
  /\ \A e \in passed : e.team \in Teams /\ e.req \in Requests /\ e.time \in 0 .. now

IInv == Windows /\ Shapes /\ \A r \in Requests : RInv(r)

-----------------------------------------------------------------------------
(* The policy.                                                             *)

LEMMA PolicyFacts ==
  ASSUME scene \in Scenarios
  PROVE  /\ DOMAIN Rules \subseteq Classes /\ policy.undeclared \in Classes /\ None \notin Classes
         /\ \A c \in DOMAIN Rules :
              /\ Rules[c].max \in Known \cup {None} /\ Rules[c].as \in Classes \cup {None}
              /\ Rules[c].cache \in BOOLEAN
              /\ Rules[c].regions # None => None \notin Rules[c].regions
              /\ Rules[c].as # None => Rules[c].as \in DOMAIN Rules /\ Rules[Rules[c].as].as = None
BY FrontDoorAssumption DEF PolicyOK, RuleOK, policy, Rules

\* The gateway's judgement of a rule is what the policy file says, read as plain data.
LEMMA JudgeIsOracle ==
  ASSUME scene \in Scenarios, NEW c \in DOMAIN Rules, NEW to, to.provider \in DOMAIN Providers
  PROVE  Judge(Rules[c], to.provider, to.region) <=> Oracle(c, to)
<1>1. c \in Classes /\ c # None /\ Rules[c].max \in Known \cup {None} /\ None \notin Known
      /\ (Rules[c].regions # None => None \notin Rules[c].regions)
  BY PolicyFacts, FrontDoorAssumption
<1>2. \A x \in Known : Reach(x) = Rank(x)
  BY DEF Known, Reach, Rank
<1>. DEFINE residency == Providers[to.provider].residency
            maxed(rank) == Rules[c].max = None \/ (residency \in Known /\ rank)
<1>3. (Rules[c].max # None => residency \in Known /\ Reach(residency) <= Reach(Rules[c].max))
        <=> maxed(Rank(residency) <= Rank(Rules[c].max))
  BY <1>1, <1>2
<1>4. (Rules[c].regions # None => to.region # None /\ to.region \in Rules[c].regions)
        <=> (Rules[c].regions = None \/ to.region \in Rules[c].regions)
  BY <1>1
<1>5. Oracle(c, to) <=>
        /\ maxed(Rank(residency) <= Rank(Rules[c].max))
        /\ Rules[c].regions = None \/ to.region \in Rules[c].regions
        /\ Rules[c].providers = None \/ to.provider \in Rules[c].providers
  BY <1>1 DEF Oracle
<1>6. Judge(Rules[c], to.provider, to.region) <=>
        /\ Rules[c].max # None => residency \in Known /\ Reach(residency) <= Reach(Rules[c].max)
        /\ Rules[c].regions # None => to.region # None /\ to.region \in Rules[c].regions
        /\ Rules[c].providers # None => to.provider \in Rules[c].providers
  BY DEF Judge
<1>. HIDE DEF maxed, residency
<1>. QED
  BY <1>3, <1>4, <1>5, <1>6 DEF residency

LEMMA ClassOfAimed ==
  ASSUME scene \in Scenarios, NEW r \in Requests, Aimed(r)
  PROVE  ClassOf(r) \in Classes /\ ask[r].class \in Classes \cup {None}
BY PolicyFacts DEF Aimed, FromProxy, ClassOf

\* A verdict allows what the effective class's rule allows, and the cache what the class's own does.
LEMMA VerdictByRule ==
  ASSUME scene \in Scenarios, NEW r \in Requests, Aimed(r)
  PROVE  /\ Verdict(r).allowed => ClassOf(r) \in DOMAIN Rules /\ Oracle(Effective(r), target[r])
         /\ ClassOf(r) \in DOMAIN Rules =>
              /\ Effective(r) \in DOMAIN Rules
              /\ Oracle(Effective(r), target[r]) => Verdict(r).allowed
         /\ Verdict(r).cache => ClassOf(r) \in DOMAIN Rules /\ Rules[ClassOf(r)].cache
<1>. DEFINE inner == IF masked[r] /\ Rules[ClassOf(r)].as # None
                     THEN Rules[Rules[ClassOf(r)].as] ELSE Rules[ClassOf(r)]
<1>1. /\ Verdict(r).allowed <=>
           ClassOf(r) \in DOMAIN Rules /\ Judge(inner, target[r].provider, target[r].region)
      /\ Verdict(r).cache => ClassOf(r) \in DOMAIN Rules /\ Rules[ClassOf(r)].cache
  BY DEF Verdict, Decide, ClassOf
<1>2. inner = Rules[Effective(r)]
  BY DEF Effective
<1>3. ClassOf(r) \in DOMAIN Rules => Effective(r) \in DOMAIN Rules
  BY PolicyFacts DEF Effective
<1>4. target[r].provider \in DOMAIN Providers
  BY DEF Aimed
<1>. HIDE DEF inner
<1>5. Effective(r) \in DOMAIN Rules =>
        (Judge(inner, target[r].provider, target[r].region) <=> Oracle(Effective(r), target[r]))
  BY <1>2, <1>4, JudgeIsOracle
<1>. QED
  BY <1>1, <1>3, <1>5

-----------------------------------------------------------------------------
(* Texts.  The recursive function that joins the messages exists, and a    *)
(* value without a line break stands in what it joins where it stands in   *)
(* one of the messages, and nowhere else.                                  *)

\* What joining the first n texts makes of the first n - 1, joined.
Longer(texts, n, joined) ==
  IF n = 0 THEN <<>> ELSE IF n = 1 THEN texts[1] ELSE joined \o <<Break>> \o texts[n]

Joins(f, texts) == f = [n \in Nat |-> Longer(texts, n, f[n - 1])]
JoinsUpTo(f, texts, m) == f = [n \in 0 .. m |-> Longer(texts, n, f[n - 1])]

LEMMA JoinedIs ==
  ASSUME NEW texts
  PROVE  Joined(texts) = (CHOOSE f : Joins(f, texts))[Len(texts)]
BY DEF Joined, Joins, Longer

\* The first text is preceded by none.
LEMMA LongerFirst == \A texts, f, g : Longer(texts, 0, f) = Longer(texts, 0, g)
BY DEF Longer

LEMMA JoinsAgree ==
  ASSUME NEW texts, NEW m \in Nat, NEW n \in Nat, NEW f, NEW g,
         JoinsUpTo(f, texts, m), JoinsUpTo(g, texts, n), NEW k \in Nat, k <= m, k <= n
  PROVE  f[k] = g[k]
<1>. DEFINE G == {j \in Nat : j <= m /\ j <= n => f[j] = g[j]}
<1>1. 0 \in G
  <2>1. f[0] = Longer(texts, 0, f[0 - 1]) /\ g[0] = Longer(texts, 0, g[0 - 1])
    BY DEF JoinsUpTo
  <2>. QED
    BY <2>1, LongerFirst
<1>2. ASSUME NEW j \in Nat, j \in G
      PROVE  j + 1 \in G
  <2>. SUFFICES ASSUME j + 1 <= m, j + 1 <= n PROVE f[j + 1] = g[j + 1]
    OBVIOUS
  <2>1. j + 1 \in 0 .. m /\ j + 1 \in 0 .. n /\ (j + 1) - 1 = j /\ j <= m /\ j <= n
    OBVIOUS
  <2>2. f[j + 1] = Longer(texts, j + 1, f[(j + 1) - 1]) /\ g[j + 1] = Longer(texts, j + 1, g[(j + 1) - 1])
    BY <2>1 DEF JoinsUpTo
  <2>3. f[j] = g[j]
    BY <1>2, <2>1
  <2>. QED
    BY <2>1, <2>2, <2>3
<1>3. k \in G
  <2>. HIDE DEF G
  <2>. QED
    BY <1>1, <1>2, NatSetInduction
<1>. QED
  BY <1>3

LEMMA JoinsExists ==
  ASSUME NEW texts
  PROVE  \E f : Joins(f, texts)
<1>. DEFINE G == {m \in Nat : \E f : JoinsUpTo(f, texts, m)}
            C(m) == CHOOSE f : JoinsUpTo(f, texts, m)
            F == [n \in Nat |-> C(n)[n]]
<1>1. 0 \in G
  <2>. DEFINE f == [n \in 0 .. 0 |-> Longer(texts, 0, <<>>)]
  <2>1. f = [n \in 0 .. 0 |-> f[n]] /\ \A n \in 0 .. 0 : f[n] = Longer(texts, n, f[n - 1])
    <3>1. \A n \in 0 .. 0 : n = 0
      OBVIOUS
    <3>2. f[0] = Longer(texts, 0, <<>>)
      OBVIOUS
    <3>. HIDE DEF f
    <3>3. f[0] = Longer(texts, 0, f[0 - 1])
      BY <3>2, LongerFirst
    <3>4. f = [n \in 0 .. 0 |-> f[n]]
      BY DEF f
    <3>. QED
      BY <3>1, <3>3, <3>4
  <2>. HIDE DEF f
  <2>2. JoinsUpTo(f, texts, 0)
    BY <2>1 DEF JoinsUpTo
  <2>. QED
    BY <2>2
<1>2. ASSUME NEW m \in Nat, m \in G
      PROVE  m + 1 \in G
  <2>1. PICK f : JoinsUpTo(f, texts, m)
    BY <1>2
  <2>. DEFINE g == [n \in 0 .. (m + 1) |-> IF n = m + 1 THEN Longer(texts, m + 1, f[m]) ELSE f[n]]
  <2>2. \A n \in 0 .. m : g[n] = f[n] /\ f[n] = Longer(texts, n, f[n - 1])
    BY <2>1 DEF JoinsUpTo
  <2>3. g[m + 1] = Longer(texts, m + 1, f[m]) /\ g = [n \in 0 .. (m + 1) |-> g[n]]
    OBVIOUS
  <2>. HIDE DEF g
  <2>4. ASSUME NEW n \in 0 .. (m + 1)
        PROVE  g[n] = Longer(texts, n, g[n - 1])
    <3>1. CASE n = 0
      BY <2>2, <3>1, LongerFirst
    <3>2. CASE n # 0 /\ n # m + 1
      <4>1. n \in 0 .. m /\ n - 1 \in 0 .. m
        BY <3>2
      <4>. QED
        BY <2>2, <4>1
    <3>3. CASE n = m + 1
      <4>1. n - 1 = m /\ m \in 0 .. m
        BY <3>3
      <4>. QED
        BY <2>2, <2>3, <3>3, <4>1
    <3>. QED
      BY <3>1, <3>2, <3>3
  <2>5. JoinsUpTo(g, texts, m + 1)
    BY <2>3, <2>4 DEF JoinsUpTo
  <2>. QED
    BY <2>5
<1>3. \A m \in Nat : JoinsUpTo(C(m), texts, m)
  <2>1. Nat \subseteq G
    <3>. HIDE DEF G
    <3>. QED
      BY <1>1, <1>2, NatSetInduction
  <2>. QED
    BY <2>1
<1>4. ASSUME NEW n \in Nat
      PROVE  F[n] = Longer(texts, n, F[n - 1])
  <2>. DEFINE c == C(n)
  <2>1. JoinsUpTo(c, texts, n)
    BY <1>3
  <2>2. F[n] = c[n]
    OBVIOUS
  <2>. HIDE DEF c
  <2>3. n \in 0 .. n
    OBVIOUS
  <2>4. c[n] = Longer(texts, n, c[n - 1])
    BY <2>1, <2>3 DEF JoinsUpTo
  <2>5. CASE n = 0
    <3>. HIDE DEF F
    <3>. QED
      BY <2>2, <2>4, <2>5, LongerFirst
  <2>6. CASE n # 0
    <3>. DEFINE d == C(n - 1)
    <3>1. n - 1 \in Nat /\ n - 1 <= n /\ n - 1 <= n - 1
      BY <2>6
    <3>2. JoinsUpTo(d, texts, n - 1)
      BY <1>3, <3>1
    <3>3. F[n - 1] = d[n - 1]
      BY <3>1
    <3>. HIDE DEF d, F
    <3>4. c[n - 1] = d[n - 1]
      BY <2>1, <3>1, <3>2, JoinsAgree
    <3>. QED
      BY <2>2, <2>4, <3>3, <3>4
  <2>. QED
    BY <2>5, <2>6
<1>5. F = [n \in Nat |-> F[n]]
  OBVIOUS
<1>6. Joins(F, texts)
  <2>. HIDE DEF F
  <2>. QED
    BY <1>4, <1>5 DEF Joins
<1>. QED
  BY <1>6

\* A value without a line break stands on one side of it.
LEMMA OccursApart ==
  ASSUME Break \in Pieces, NEW before \in Seq(Pieces), NEW after \in Seq(Pieces),
         NEW value \in Seq(Pieces \ {Break}), value # <<>>
  PROVE  Occurs(value, before \o <<Break>> \o after) <=> Occurs(value, before) \/ Occurs(value, after)
<1>. DEFINE b == Len(before)  a == Len(after)  v == Len(value)
            text == before \o <<Break>> \o after
<1>1. b \in Nat /\ a \in Nat /\ v \in Nat /\ v # 0 /\ DOMAIN value = 1 .. v
      /\ \A k \in 1 .. v : value[k] # Break
  <2>1. \A k \in 1 .. v : value[k] \in Pieces \ {Break}
    BY ElementOfSeq
  <2>. QED
    BY <2>1, EmptySeq, LenProperties
<1>2. /\ Len(text) = b + 1 + a
      /\ \A k \in 1 .. b : text[k] = before[k]
      /\ text[b + 1] = Break
      /\ \A k \in 1 .. a : text[b + 1 + k] = after[k]
  OBVIOUS
<1>. HIDE DEF b, a, v, text
<1>3. ASSUME NEW i \in 0 .. (Len(text) - v), \A k \in DOMAIN value : text[i + k] = value[k]
      PROVE  Occurs(value, before) \/ Occurs(value, after)
  <2>1. CASE i + v <= b
    <3>1. i \in 0 .. (b - v)
      BY <1>1, <1>2, <2>1
    <3>2. \A k \in 1 .. v : before[i + k] = value[k]
      <4>. SUFFICES ASSUME NEW k \in 1 .. v PROVE before[i + k] = value[k]
        OBVIOUS
      <4>1. i + k \in 1 .. b
        BY <1>1, <2>1, <3>1
      <4>. QED
        BY <1>1, <1>2, <1>3, <4>1
    <3>. QED
      BY <1>1, <3>1, <3>2 DEF Occurs, b, v
  <2>2. CASE i >= b + 1
    <3>. DEFINE j == i - (b + 1)
    <3>1. j \in 0 .. (a - v) /\ i = b + 1 + j
      BY <1>1, <1>2, <2>2
    <3>2. \A k \in 1 .. v : after[j + k] = value[k]
      <4>. SUFFICES ASSUME NEW k \in 1 .. v PROVE after[j + k] = value[k]
        OBVIOUS
      <4>1. j + k \in 1 .. a /\ i + k = b + 1 + (j + k)
        BY <1>1, <3>1
      <4>2. text[i + k] = after[j + k]
        BY <1>2, <4>1
      <4>. QED
        BY <1>1, <1>3, <4>2
    <3>. HIDE DEF j
    <3>. QED
      BY <1>1, <3>1, <3>2 DEF Occurs, a, v
  <2>3. CASE i <= b /\ b + 1 <= i + v
    <3>. DEFINE k == b + 1 - i
    <3>1. k \in 1 .. v /\ i + k = b + 1
      BY <1>1, <1>2, <2>3
    <3>. HIDE DEF k
    <3>2. value[k] = Break
      BY <1>1, <1>2, <1>3, <3>1
    <3>. QED
      BY <1>1, <3>1, <3>2
  <2>. QED
    BY <1>1, <1>2, <2>1, <2>2, <2>3
<1>4. ASSUME NEW i \in 0 .. (b - v), \A k \in DOMAIN value : before[i + k] = value[k]
      PROVE  Occurs(value, text)
  <2>1. i \in 0 .. (Len(text) - v)
    BY <1>1, <1>2
  <2>2. \A k \in 1 .. v : text[i + k] = value[k]
    <3>. SUFFICES ASSUME NEW k \in 1 .. v PROVE text[i + k] = value[k]
      OBVIOUS
    <3>1. i + k \in 1 .. b
      BY <1>1
    <3>. QED
      BY <1>1, <1>2, <1>4, <3>1
  <2>. QED
    BY <1>1, <2>1, <2>2 DEF Occurs, v
<1>5. ASSUME NEW i \in 0 .. (a - v), \A k \in DOMAIN value : after[i + k] = value[k]
      PROVE  Occurs(value, text)
  <2>. DEFINE j == b + 1 + i
  <2>1. j \in 0 .. (Len(text) - v)
    BY <1>1, <1>2
  <2>2. \A k \in 1 .. v : text[j + k] = value[k]
    <3>. SUFFICES ASSUME NEW k \in 1 .. v PROVE text[j + k] = value[k]
      OBVIOUS
    <3>1. i + k \in 1 .. a /\ j + k = b + 1 + (i + k)
      BY <1>1
    <3>. QED
      BY <1>1, <1>2, <1>5, <3>1
  <2>. HIDE DEF j
  <2>. QED
    BY <1>1, <2>1, <2>2 DEF Occurs, v
<1>. QED
  BY <1>3, <1>4, <1>5 DEF Occurs, text, b, a, v

\* A value without a line break stands in the joined messages where it stands in one of them.
LEMMA OccursInJoined ==
  ASSUME Break \in Pieces, NEW texts \in Seq(Seq(Pieces)), NEW value \in Seq(Pieces \ {Break}),
         value # <<>>
  PROVE  Occurs(value, Joined(texts)) <=> \E i \in DOMAIN texts : Occurs(value, texts[i])
<1>. DEFINE f == CHOOSE g : Joins(g, texts)
            G == {n \in Nat : n <= Len(texts) =>
                    /\ f[n] \in Seq(Pieces)
                    /\ Occurs(value, f[n]) <=> \E i \in 1 .. n : Occurs(value, texts[i])}
<1>1. \A n \in Nat : f[n] = Longer(texts, n, f[n - 1])
  <2>1. Joins(f, texts)
    BY JoinsExists
  <2>. HIDE DEF f
  <2>. QED
    BY <2>1 DEF Joins
<1>2. Joined(texts) = f[Len(texts)]
  BY JoinedIs
<1>. HIDE DEF f
<1>3. Len(texts) \in Nat /\ DOMAIN texts = 1 .. Len(texts)
      /\ \A i \in 1 .. Len(texts) : texts[i] \in Seq(Pieces)
  BY LenProperties, ElementOfSeq
<1>4. 0 \in G
  <2>1. f[0] = <<>>
    BY <1>1 DEF Longer
  <2>2. Len(value) \in Nat \ {0}
    BY EmptySeq
  <2>3. ~Occurs(value, <<>>)
    BY <2>2 DEF Occurs
  <2>4. f[0] \in Seq(Pieces) /\ 1 .. 0 = {}
    BY <2>1
  <2>. QED
    BY <2>1, <2>3, <2>4
<1>5. ASSUME NEW n \in Nat, n \in G
      PROVE  n + 1 \in G
  <2>. SUFFICES ASSUME n + 1 <= Len(texts)
                PROVE  /\ f[n + 1] \in Seq(Pieces)
                       /\ Occurs(value, f[n + 1]) <=> \E i \in 1 .. (n + 1) : Occurs(value, texts[i])
    OBVIOUS
  <2>1. /\ f[n] \in Seq(Pieces)
        /\ Occurs(value, f[n]) <=> \E i \in 1 .. n : Occurs(value, texts[i])
    BY <1>3, <1>5
  <2>2. texts[n + 1] \in Seq(Pieces) /\ (n + 1) - 1 = n
    BY <1>3
  <2>3. f[n + 1] = Longer(texts, n + 1, f[n])
    BY <1>1, <2>2
  <2>4. CASE n = 0
    <3>1. f[n + 1] = texts[1]
      BY <2>3, <2>4 DEF Longer
    <3>2. \A i \in 1 .. (n + 1) : i = 1
      BY <2>4
    <3>. QED
      BY <2>2, <2>4, <3>1, <3>2
  <2>5. CASE n # 0
    <3>0. n + 1 # 0 /\ n + 1 # 1
      BY <2>5
    <3>1. f[n + 1] = f[n] \o <<Break>> \o texts[n + 1]
      BY <2>3, <3>0, Zenon DEF Longer
    <3>2. f[n + 1] \in Seq(Pieces)
      BY <2>1, <2>2, <3>1
    <3>3. Occurs(value, f[n + 1]) <=> Occurs(value, f[n]) \/ Occurs(value, texts[n + 1])
      BY <2>1, <2>2, <3>1, OccursApart
    <3>4. 1 .. (n + 1) = (1 .. n) \cup {n + 1}
      OBVIOUS
    <3>. QED
      BY <2>1, <3>2, <3>3, <3>4
  <2>. QED
    BY <2>4, <2>5
<1>6. Len(texts) \in G
  <2>. HIDE DEF G
  <2>. QED
    BY <1>3, <1>4, <1>5, NatSetInduction
<1>7. Occurs(value, f[Len(texts)]) <=> \E i \in 1 .. Len(texts) : Occurs(value, texts[i])
  BY <1>3, <1>6
<1>. HIDE DEF G
<1>. QED
  BY <1>2, <1>3, <1>7, Zenon

\* The vault's value of a placeholder is one of the spellings that were found.
LEMMA VaultIsFound ==
  ASSUME NEW r \in Requests, AskOK(ask[r]), NEW p \in DOMAIN Vault(r)
  PROVE  \E i \in DOMAIN ask[r].found : ask[r].found[i].norm = p /\ Vault(r)[p] = ask[r].found[i].value
<1>. DEFINE found == ask[r].found
            those == {i \in DOMAIN found : found[i].norm = p}
<1>1. those # {} /\ those \subseteq Nat
  <2>1. DOMAIN found = 1 .. Len(found) /\ Len(found) \in Nat
    BY LenProperties DEF AskOK
  <2>2. p \in {found[i].norm : i \in DOMAIN found}
    BY DEF Vault
  <2>. QED
    BY <2>1, <2>2
<1>2. Min(those) \in those
  <2>. HIDE DEF those
  <2>. QED
    BY <1>1, LeastOf
<1>3. Vault(r)[p] = found[Min(those)].value
  BY DEF Vault
<1>. QED
  BY <1>2, <1>3

\* What is put back is said by the caller, and what is left is spelled somewhere as it is not.
LEMMA GivenIsScoped ==
  ASSUME NEW r \in Requests, NEW mentions \in Mentions(r),
         masked[r] => AskOK(ask[r]) \/ ask[r].via # "proxy"
  PROVE  masked[r] /\ ask[r].via = "proxy" /\ Rules[ask[r].class].rehydrate = "caller" =>
           /\ \A value \in Given(r, mentions).back : Said(r, value)
           /\ \A p \in Given(r, mentions).left : \E i \in DOMAIN ask[r].found :
                ask[r].found[i].norm = p /\ ~Said(r, ask[r].found[i].value)
<1>. SUFFICES ASSUME masked[r], ask[r].via = "proxy", Rules[ask[r].class].rehydrate = "caller"
              PROVE  /\ \A value \in Given(r, mentions).back : Said(r, value)
                     /\ \A p \in Given(r, mentions).left : \E i \in DOMAIN ask[r].found :
                          ask[r].found[i].norm = p /\ ~Said(r, ask[r].found[i].value)
  OBVIOUS
<1>1. AskOK(ask[r]) /\ mentions \subseteq DOMAIN Vault(r)
  BY DEF Mentions
<1>2. ASSUME NEW p \in DOMAIN Vault(r)
      PROVE  p \in Restorer(r) <=> Said(r, Vault(r)[p])
  <2>1. PICK i \in DOMAIN ask[r].found : Vault(r)[p] = ask[r].found[i].value
    BY <1>1, VaultIsFound
  <2>2. Vault(r)[p] \in Seq(Pieces \ {Break}) /\ Vault(r)[p] # <<>>
    BY <1>1, <2>1 DEF AskOK
  <2>3. ask[r].messages \in Seq(Seq(Pieces)) /\ Break \in Pieces
    BY <1>1, FrontDoorAssumption DEF AskOK
  <2>4. Occurs(Vault(r)[p], Joined(ask[r].messages)) <=> Said(r, Vault(r)[p])
    BY <2>2, <2>3, OccursInJoined DEF Said
  <2>. QED
    BY <2>4 DEF Restorer
<1>3. /\ Given(r, mentions).back = {Vault(r)[p] : p \in mentions \cap Restorer(r)}
      /\ Given(r, mentions).left = mentions \ Restorer(r)
  BY DEF Given
<1>4. \A value \in Given(r, mentions).back : Said(r, value)
  BY <1>1, <1>2, <1>3
<1>5. ASSUME NEW p \in Given(r, mentions).left
      PROVE  \E i \in DOMAIN ask[r].found : ask[r].found[i].norm = p /\ ~Said(r, ask[r].found[i].value)
  <2>1. p \in DOMAIN Vault(r) /\ ~Said(r, Vault(r)[p])
    BY <1>1, <1>2, <1>3, <1>5
  <2>. QED
    BY <1>1, <2>1, VaultIsFound
<1>. QED
  BY <1>4, <1>5

-----------------------------------------------------------------------------
(* Steps.  What a step does to the request it is about is one lemma; the   *)
(* others stay as they are.                                                *)

Same(x) ==
  /\ scene' = scene /\ at'[x] = at[x] /\ ask'[x] = ask[x] /\ target'[x] = target[x]
  /\ masked'[x] = masked[x] /\ row'[x] = row[x] /\ sent'[x] = sent[x] /\ reply'[x] = reply[x]

\* What of a request its verdict depends on.
Judged(x) == scene' = scene /\ ask'[x] = ask[x] /\ target'[x] = target[x] /\ masked'[x] = masked[x]

LEMMA JudgedFacts ==
  ASSUME NEW x \in Requests, Judged(x)
  PROVE  /\ Verdict(x)' = Verdict(x) /\ (Aimed(x)' <=> Aimed(x)) /\ (FromProxy(x)' <=> FromProxy(x))
         /\ Rules' = Rules
<1>1. Rules' = Rules /\ policy' = policy
  BY DEF Judged, Rules, policy
<1>2. Verdict(x)' = Verdict(x)
  BY <1>1 DEF Judged, Verdict, Decide, Judge
<1>3. FromProxy(x)' <=> FromProxy(x)
  BY DEF Judged, FromProxy
<1>4. Redacts(x)' <=> Redacts(x)
  BY <1>1 DEF Judged, Redacts
<1>5. Aimed(x)' <=> Aimed(x)
  BY <1>3, <1>4 DEF Judged, Aimed
<1>. QED
  BY <1>1, <1>2, <1>3, <1>5

LEMMA SameKeeps ==
  ASSUME NEW x \in Requests, RInv(x), Same(x)
  PROVE  RInv(x)'
<1>1. /\ Verdict(x)' = Verdict(x) /\ (Aimed(x)' <=> Aimed(x)) /\ (FromProxy(x)' <=> FromProxy(x))
      /\ Rules' = Rules
  BY JudgedFacts DEF Same, Judged
<1>2. Early(x)'
  BY <1>1 DEF RInv, Same, Early
<1>3. Ruled(x)' => Aimed(x)'
  BY <1>1 DEF RInv, Same, Ruled
<1>4. OnTheWire(x)' /\ InCache(x)'
  BY <1>1 DEF RInv, Same, OnTheWire, InCache
<1>5. Refusing(x)' /\ OnRecord(x)' /\ ToCaller(x)'
  BY <1>1 DEF RInv, Same, Refusing, OnRecord, ToCaller, Said
<1>. QED
  BY <1>1, <1>2, <1>3, <1>4, <1>5 DEF RInv, Same

\* A request that is over has an answer and no more.
LEMMA Answered ==
  ASSUME NEW r \in Requests, NEW what, RInv(r), Shapes, Answer(r, what)
  PROVE  /\ at'[r] = "done" /\ reply'[r].what = what
         /\ reply'[r].back = reply[r].back /\ reply'[r].left = reply[r].left
         /\ DOMAIN reply'[r] = {"what", "back", "left"}
         /\ DOMAIN at' = Requests /\ DOMAIN reply' = Requests
         /\ \A x \in Requests \ {r} : at'[x] = at[x] /\ reply'[x] = reply[x]
BY DEF RInv, Shapes, Answer

LEMMA RefusalTyped ==
  ASSUME NEW r \in Requests, NEW to, NEW redacted \in BOOLEAN,
         to.provider \in DOMAIN Providers, to.region \in Regions, ask[r].class \in Classes \cup {None}
  PROVE  /\ Refusal(r, to, redacted) \in Rows /\ Refusal(r, to, redacted) # None
         /\ Refusal(r, to, redacted).error = None
         /\ Refusal(r, to, redacted).state = "in_flight" /\ ~Refusal(r, to, redacted).cached
<1>1. Refusal(r, to, redacted) \in Rows
  BY DEF Refusal, Rows
<1>. QED
  BY <1>1, FrontDoorAssumption DEF Refusal

LEMMA BegunTyped ==
  ASSUME scene \in Scenarios, NEW r \in Requests, Aimed(r), masked[r] \in BOOLEAN
  PROVE  /\ Begun(r) \in Rows /\ Begun(r) # None /\ Begun(r).redacted = masked[r]
         /\ Begun(r).error = None /\ ~Begun(r).cached
         /\ [Begun(r) EXCEPT !.state = "complete", !.cached = TRUE] \in Rows
<1>1. ask[r].class \in Classes \cup {None}
  BY ClassOfAimed
<1>2. Begun(r) \in Rows
  BY <1>1 DEF Begun, Rows, Aimed
<1>3. [Begun(r) EXCEPT !.state = "complete", !.cached = TRUE] \in Rows
  BY <1>2 DEF Rows
<1>. QED
  BY <1>2, <1>3, FrontDoorAssumption DEF Begun

LEMMA ResolveTyped ==
  ASSUME NEW model, Resolves(model)
  PROVE  Resolve(model).provider \in DOMAIN Providers /\ Resolve(model).region \in Regions
<1>1. CASE model \in DOMAIN Explicit
  BY <1>1, FrontDoorAssumption DEF Resolves, Resolve, Regions
<1>2. CASE model \notin DOMAIN Explicit
  <2>1. /\ model \in DOMAIN Routes /\ Routes[model].model \in DOMAIN Explicit
        /\ Explicit[Routes[model].model] \in DOMAIN Providers
    BY <1>2, FrontDoorAssumption DEF Resolves
  <2>. QED
    BY <1>2, <2>1 DEF Resolve, Regions
<1>. QED
  BY <1>1, <1>2

\* What has been answered nothing yet was refused nothing.
LEMMA NotYet ==
  /\ NoReply.what \notin Refused /\ NoReply.what \notin OwnFault /\ NoReply.what # "policy_refused"
  /\ NoReply.back = {} /\ NoReply.left = {} /\ DOMAIN NoReply = {"what", "back", "left"}
BY FrontDoorAssumption DEF NoReply, Refused

\* A request of which nothing has gone out, refused for its caller's own fault or by a ledger
\* that fails before its row is begun.
LEMMA Fault ==
  ASSUME NEW r \in Requests, RInv(r), Shapes, NEW what \in OwnFault \cup {"failed"}, Answer(r, what),
         reply[r] = NoReply, row[r] = None, sent[r] = None, row'[r] = row[r], sent'[r] = sent[r],
         masked'[r] \in BOOLEAN
  PROVE  RInv(r)'
<1>1. /\ at'[r] = "done" /\ reply'[r].what = what /\ reply'[r].back = {} /\ reply'[r].left = {}
      /\ DOMAIN reply'[r] = {"what", "back", "left"}
  BY Answered, NotYet
<1>2. what \notin Refused /\ what # "policy_refused"
  BY DEF OwnFault, Refused
<1>3. Early(r)' /\ ~Ruled(r)' /\ OnTheWire(r)' /\ InCache(r)' /\ Refusing(r)'
  BY <1>1, <1>2 DEF Early, Ruled, OnTheWire, InCache, Refusing, Refused
<1>4. OnRecord(r)'
  BY <1>1, <1>2 DEF OnRecord
<1>5. ToCaller(r)'
  BY <1>1 DEF ToCaller
<1>. QED
  BY <1>1, <1>2, <1>3, <1>4, <1>5 DEF RInv, Places

\* The first write of a refusal, or its failure.
LEMMA RefuseBegins ==
  ASSUME NEW r \in Requests, RInv(r), Shapes, NEW error \in Refused, NEW to, NEW redacted \in BOOLEAN,
         Refuse(r, to, error, redacted),
         to.provider \in DOMAIN Providers, to.region \in Regions, ask[r].class \in Classes \cup {None},
         reply[r] = NoReply, row[r] = None, sent[r] = None, sent'[r] = None, masked'[r] \in BOOLEAN,
         IF error = "policy_refused" THEN Aimed(r)' /\ ~Verdict(r)'.allowed ELSE ~masked'[r]
  PROVE  /\ RInv(r)' /\ DOMAIN at' = Requests /\ DOMAIN reply' = Requests /\ DOMAIN row' = Requests
         /\ \A x \in Requests \ {r} : at'[x] = at[x] /\ reply'[x] = reply[x] /\ row'[x] = row[x]
<1>1. CASE Answer(r, "failed") /\ row' = row
  <2>1. RInv(r)'
    BY <1>1, Fault
  <2>2. /\ DOMAIN at' = Requests /\ DOMAIN reply' = Requests
        /\ \A x \in Requests \ {r} : at'[x] = at[x] /\ reply'[x] = reply[x]
    BY <1>1, Answered
  <2>. QED
    BY <1>1, <2>1, <2>2 DEF Shapes
<1>2. CASE /\ row' = [row EXCEPT ![r] = Refusal(r, to, redacted)]
           /\ at' = [at EXCEPT ![r] = error] /\ reply' = reply
  <2>1. /\ row'[r] = Refusal(r, to, redacted) /\ at'[r] = error /\ reply'[r] = NoReply
        /\ DOMAIN at' = Requests /\ DOMAIN reply' = Requests /\ DOMAIN row' = Requests
        /\ \A x \in Requests \ {r} : at'[x] = at[x] /\ reply'[x] = reply[x] /\ row'[x] = row[x]
    BY <1>2 DEF Shapes
  <2>2. /\ row'[r] \in Rows /\ row'[r] # None /\ row'[r].error = None
        /\ row'[r].state = "in_flight" /\ ~row'[r].cached
    BY <2>1, RefusalTyped
  <2>3. /\ error \notin {"idle", "asking", "through", "calling", "sent", "done", "gone"}
        /\ None \notin Refused
    BY FrontDoorAssumption DEF Refused
  <2>4. Early(r)' /\ OnTheWire(r)' /\ InCache(r)' /\ Refusing(r)' /\ (Ruled(r)' => Aimed(r)')
    BY <2>1, <2>2, <2>3, NotYet DEF Early, OnTheWire, InCache, Refusing, Ruled
  <2>5. OnRecord(r)' /\ ToCaller(r)'
    BY <2>1, <2>2, <2>3, NotYet DEF OnRecord, ToCaller
  <2>6. RInv(r)'
    BY <2>1, <2>2, <2>3, <2>4, <2>5, NotYet DEF RInv, Places
  <2>. QED
    BY <2>1, <2>6
<1>. QED
  BY <1>1, <1>2 DEF Refuse

LEMMA SameAskIsOK ==
  ASSUME NEW a, NEW b, AskOK(a), DOMAIN b = DOMAIN a, b.via = a.via, b.claims = a.claims,
         b.system = a.system, b.messages = a.messages, b.found = a.found
  PROVE  AskOK(b)
BY DEF AskOK

LEMMA ArriveStep ==
  ASSUME IInv, NEW r \in Requests, NEW w \in Workers, NEW a \in scene.asks, Arrive(r, w, a)
  PROVE  Shapes' /\ (\A x \in Requests : RInv(x))'
<1>1. /\ at[r] = "idle" /\ a.via = "proxy"
      /\ ask' = [ask EXCEPT ![r] = [a EXCEPT !.class = ReadClass(a.header)]]
      /\ IF a.key \notin DOMAIN TeamOf \/ ~a.wellFormed \/ ReadClass(a.header) \notin Classes
         THEN Answer(r, IF a.key \notin DOMAIN TeamOf THEN "key" ELSE "request")
         ELSE at' = [at EXCEPT ![r] = "asking"] /\ UNCHANGED reply
      /\ UNCHANGED <<scene, target, masked, row, sent>>
  BY DEF Arrive, quotaVars
<1>2. RInv(r) /\ Shapes /\ AskOK(a)
  BY FrontDoorAssumption DEF IInv, Windows
<1>3. row[r] = None /\ sent[r] = None /\ reply[r] = NoReply /\ ~masked[r]
  BY <1>1, <1>2 DEF RInv, Early
<1>4. /\ ask'[r].via = "proxy" /\ ask'[r].key = a.key /\ ask'[r].header = a.header
      /\ ask'[r].class = ReadClass(a.header) /\ AskOK(ask'[r])
  <2>1. ask'[r] = [a EXCEPT !.class = ReadClass(a.header)]
    BY <1>1, <1>2 DEF Shapes
  <2>2. /\ ask'[r].via = a.via /\ ask'[r].key = a.key /\ ask'[r].header = a.header
        /\ ask'[r].claims = a.claims /\ ask'[r].system = a.system /\ ask'[r].messages = a.messages
        /\ ask'[r].found = a.found /\ ask'[r].class = ReadClass(a.header) /\ DOMAIN ask'[r] = DOMAIN a
    BY <1>2, <2>1 DEF AskOK
  <2>3. ask'[r].via = "proxy"
    BY <1>1, <2>2
  <2>4. AskOK(ask'[r])
    BY <1>2, <2>2, SameAskIsOK
  <2>. QED
    BY <2>2, <2>3, <2>4
<1>5. \A x \in Requests \ {r} : ask'[x] = ask[x]
  BY <1>1, <1>2 DEF Shapes
<1>6. CASE a.key \notin DOMAIN TeamOf \/ ~a.wellFormed \/ ReadClass(a.header) \notin Classes
  <2>1. PICK what \in OwnFault : Answer(r, what)
    BY <1>1, <1>6 DEF OwnFault
  <2>2. RInv(r)'
    BY <1>1, <1>2, <1>3, <2>1, Fault DEF RInv
  <2>3. /\ DOMAIN at' = Requests /\ DOMAIN reply' = Requests
        /\ \A x \in Requests \ {r} : at'[x] = at[x] /\ reply'[x] = reply[x]
    BY <1>2, <2>1, Answered
  <2>4. \A x \in Requests \ {r} : RInv(x)'
    BY <1>1, <1>5, <2>3, SameKeeps DEF IInv, Same
  <2>. QED
    BY <1>1, <1>2, <2>2, <2>3, <2>4 DEF Shapes
<1>7. CASE ~(a.key \notin DOMAIN TeamOf \/ ~a.wellFormed \/ ReadClass(a.header) \notin Classes)
  <2>1. at' = [at EXCEPT ![r] = "asking"] /\ reply' = reply
    BY <1>1, <1>7
  <2>2. at'[r] = "asking" /\ \A x \in Requests \ {r} : at'[x] = at[x]
    BY <1>2, <2>1 DEF Shapes
  <2>3. FromProxy(r)'
    BY <1>1, <1>4, <1>7 DEF FromProxy
  <2>4. Early(r)' /\ ~Ruled(r)'
    BY <1>1, <1>3, <2>1, <2>2, <2>3, NotYet DEF Early, Ruled, NoReply
  <2>5. OnTheWire(r)' /\ InCache(r)' /\ Refusing(r)' /\ OnRecord(r)' /\ ToCaller(r)'
    BY <1>1, <1>2, <1>3, <2>1, <2>2, NotYet
    DEF OnTheWire, InCache, Refusing, Refused, OnRecord, ToCaller
  <2>6. RInv(r)'
    BY <1>1, <1>2, <1>3, <2>1, <2>2, <2>4, <2>5, NotYet DEF RInv, Places
  <2>7. \A x \in Requests \ {r} : RInv(x)'
    BY <1>1, <1>5, <2>1, <2>2, SameKeeps DEF IInv, Same
  <2>. QED
    BY <1>1, <1>2, <2>1, <2>6, <2>7 DEF Shapes
<1>. QED
  BY <1>6, <1>7

LEMMA LibraryStep ==
  ASSUME IInv, NEW r \in Requests, NEW a \in scene.asks, LibraryCall(r, a)
  PROVE  Shapes' /\ (\A x \in Requests : RInv(x))'
<1>1. /\ at[r] = "idle" /\ a.via = "library" /\ a.class \in Classes \cup {None} /\ Resolves(a.model)
      /\ ask' = [ask EXCEPT ![r] = a] /\ target' = [target EXCEPT ![r] = Resolve(a.model)]
      /\ masked' = [masked EXCEPT ![r] = a.claims] /\ at' = [at EXCEPT ![r] = "calling"]
      /\ UNCHANGED <<scene, row, sent, reply>>
  BY DEF LibraryCall, quotaVars
<1>2. RInv(r) /\ Shapes /\ AskOK(a)
  BY FrontDoorAssumption DEF IInv, Windows
<1>3. row[r] = None /\ sent[r] = None /\ reply[r] = NoReply
  BY <1>1, <1>2 DEF RInv, Early
<1>4. /\ ask'[r] = a /\ target'[r] = Resolve(a.model) /\ masked'[r] = a.claims /\ at'[r] = "calling"
      /\ \A x \in Requests \ {r} : /\ ask'[x] = ask[x] /\ target'[x] = target[x]
                                   /\ masked'[x] = masked[x] /\ at'[x] = at[x]
  BY <1>1, <1>2 DEF Shapes
<1>5. masked'[r] \in BOOLEAN
  BY <1>2, <1>4 DEF AskOK
<1>6. Aimed(r)'
  BY <1>1, <1>2, <1>4, <1>5, ResolveTyped DEF Aimed
<1>7. Early(r)' /\ OnTheWire(r)' /\ InCache(r)' /\ Refusing(r)' /\ OnRecord(r)'
  BY <1>1, <1>3, <1>4, NotYet DEF Early, OnTheWire, InCache, Refusing, Refused, OnRecord, NoReply
<1>8. ToCaller(r)'
  BY <1>1, <1>4 DEF ToCaller
<1>9. RInv(r)'
  BY <1>1, <1>2, <1>3, <1>4, <1>5, <1>6, <1>7, <1>8, NotYet DEF RInv, Places
<1>10. \A x \in Requests \ {r} : RInv(x)'
  BY <1>1, <1>4, SameKeeps DEF IInv, Same
<1>. QED
  BY <1>1, <1>2, <1>9, <1>10 DEF Shapes

LEMMA TakeStep ==
  ASSUME IInv, NEW r \in Requests, Take(r)
  PROVE  Shapes' /\ (\A x \in Requests : RInv(x))'
<1>1. /\ at[r] = "asking" /\ UNCHANGED <<scene, ask, target, masked, row, sent>>
      /\ Answer(r, "quota") \/ (at' = [at EXCEPT ![r] = "through"] /\ reply' = reply)
  BY DEF Take, callVars, Answer
<1>2. RInv(r) /\ Shapes
  BY DEF IInv
<1>3. row[r] = None /\ sent[r] = None /\ reply[r] = NoReply /\ ~masked[r] /\ FromProxy(r)
  BY <1>1, <1>2 DEF RInv, Early
<1>4. CASE Answer(r, "quota")
  <2>1. RInv(r)'
    BY <1>1, <1>2, <1>3, <1>4, Fault DEF RInv, OwnFault
  <2>2. /\ DOMAIN at' = Requests /\ DOMAIN reply' = Requests
        /\ \A x \in Requests \ {r} : at'[x] = at[x] /\ reply'[x] = reply[x]
    BY <1>2, <1>4, Answered
  <2>3. \A x \in Requests \ {r} : RInv(x)'
    BY <1>1, <2>2, SameKeeps DEF IInv, Same
  <2>. QED
    BY <1>1, <1>2, <2>1, <2>2, <2>3 DEF Shapes
<1>5. CASE at' = [at EXCEPT ![r] = "through"] /\ reply' = reply
  <2>1. at'[r] = "through" /\ \A x \in Requests \ {r} : at'[x] = at[x]
    BY <1>2, <1>5 DEF Shapes
  <2>2. FromProxy(r)'
    BY <1>1, <1>3 DEF FromProxy
  <2>3. Early(r)' /\ ~Ruled(r)'
    BY <1>1, <1>3, <1>5, <2>1, <2>2, NotYet DEF Early, Ruled, NoReply
  <2>4. OnTheWire(r)' /\ InCache(r)' /\ Refusing(r)' /\ OnRecord(r)' /\ ToCaller(r)'
    BY <1>1, <1>2, <1>3, <1>5, <2>1, NotYet DEF OnTheWire, InCache, Refusing, Refused, OnRecord, ToCaller
  <2>5. RInv(r)'
    BY <1>1, <1>2, <1>3, <1>5, <2>1, <2>3, <2>4, NotYet DEF RInv, Places
  <2>6. \A x \in Requests \ {r} : RInv(x)'
    BY <1>1, <1>5, <2>1, SameKeeps DEF IInv, Same
  <2>. QED
    BY <1>1, <1>2, <1>5, <2>5, <2>6 DEF Shapes
<1>. QED
  BY <1>1, <1>4, <1>5

LEMMA HandleStep ==
  ASSUME IInv, NEW r \in Requests, Handle(r)
  PROVE  Shapes' /\ (\A x \in Requests : RInv(x))'
<1>. DEFINE model == ask[r].model
            aim   == IF Resolves(model) THEN Resolve(model) ELSE target[r]
<1>1. /\ at[r] = "through" /\ UNCHANGED <<scene, ask, sent>>
      /\ target' = [target EXCEPT ![r] = aim]
      /\ \/ \E what \in {"model", "limits"} : Answer(r, what) /\ UNCHANGED <<masked, row>>
         \/ /\ Resolves(model)
            /\ \E error \in {"injection_blocked", "redaction_refused"} :
                 Refuse(r, Resolve(model), error, FALSE) /\ masked' = masked
         \/ /\ Resolves(model) /\ masked' = [masked EXCEPT ![r] = Redacts(r)] /\ row' = row
            /\ Answer(r, "failed") \/ (at' = [at EXCEPT ![r] = "calling"] /\ reply' = reply)
  BY DEF Handle, quotaVars
<1>2. RInv(r) /\ Shapes /\ scene \in Scenarios
  BY DEF IInv, Windows
<1>3. /\ row[r] = None /\ sent[r] = None /\ reply[r] = NoReply /\ ~masked[r] /\ FromProxy(r)
      /\ masked[r] \in BOOLEAN /\ ask[r].class \in Classes \cup {None}
  BY <1>1, <1>2 DEF RInv, Early, FromProxy
<1>4. target'[r] = aim /\ DOMAIN target' = Requests /\ \A x \in Requests \ {r} : target'[x] = target[x]
  BY <1>1, <1>2 DEF Shapes
<1>. HIDE DEF aim
\* What is left to show of the others, and of the shapes.
<1>5. ASSUME \A x \in Requests \ {r} : /\ at'[x] = at[x] /\ reply'[x] = reply[x]
                                       /\ masked'[x] = masked[x] /\ row'[x] = row[x]
      PROVE  \A x \in Requests \ {r} : RInv(x)'
  BY <1>1, <1>4, <1>5, SameKeeps DEF IInv, Same
<1>6. ASSUME NEW what \in {"model", "limits"}, Answer(r, what), UNCHANGED <<masked, row>>
      PROVE  Shapes' /\ (\A x \in Requests : RInv(x))'
  <2>1. RInv(r)'
    BY <1>1, <1>2, <1>3, <1>6, Fault DEF OwnFault
  <2>2. /\ DOMAIN at' = Requests /\ DOMAIN reply' = Requests
        /\ \A x \in Requests \ {r} : at'[x] = at[x] /\ reply'[x] = reply[x]
    BY <1>2, <1>6, Answered
  <2>. QED
    BY <1>1, <1>2, <1>4, <1>5, <1>6, <2>1, <2>2 DEF Shapes
<1>7. ASSUME Resolves(model), NEW error \in {"injection_blocked", "redaction_refused"},
             Refuse(r, Resolve(model), error, FALSE), masked' = masked
      PROVE  Shapes' /\ (\A x \in Requests : RInv(x))'
  <2>. DEFINE to == Resolve(model)
  <2>1. to.provider \in DOMAIN Providers /\ to.region \in Regions
    BY <1>7, ResolveTyped
  <2>2. error \in Refused /\ error # "policy_refused" /\ Refuse(r, to, error, FALSE)
    BY <1>7 DEF Refused
  <2>. HIDE DEF to
  <2>3. /\ RInv(r)' /\ DOMAIN at' = Requests /\ DOMAIN reply' = Requests /\ DOMAIN row' = Requests
        /\ \A x \in Requests \ {r} : at'[x] = at[x] /\ reply'[x] = reply[x] /\ row'[x] = row[x]
    BY <1>1, <1>2, <1>3, <1>7, <2>1, <2>2, RefuseBegins
  <2>. QED
    BY <1>1, <1>2, <1>4, <1>5, <1>7, <2>3 DEF Shapes
<1>8. ASSUME Resolves(model), masked' = [masked EXCEPT ![r] = Redacts(r)], row' = row
      PROVE  /\ Answer(r, "failed") => Shapes' /\ (\A x \in Requests : RInv(x))'
             /\ at' = [at EXCEPT ![r] = "calling"] /\ reply' = reply
                  => Shapes' /\ (\A x \in Requests : RInv(x))'
  <2>1. /\ masked'[r] = Redacts(r) /\ DOMAIN masked' = Requests
        /\ \A x \in Requests \ {r} : masked'[x] = masked[x]
    BY <1>2, <1>8 DEF Shapes
  <2>2. masked'[r] \in BOOLEAN
    BY <2>1 DEF Redacts
  <2>3. ASSUME Answer(r, "failed")
        PROVE  Shapes' /\ (\A x \in Requests : RInv(x))'
    <3>1. RInv(r)'
      BY <1>1, <1>2, <1>3, <1>8, <2>2, <2>3, NotYet, Fault
    <3>2. /\ DOMAIN at' = Requests /\ DOMAIN reply' = Requests
          /\ \A x \in Requests \ {r} : at'[x] = at[x] /\ reply'[x] = reply[x]
      BY <1>2, <2>3, Answered
    <3>. QED
      BY <1>1, <1>2, <1>4, <1>5, <1>8, <2>1, <3>1, <3>2 DEF Shapes
  <2>4. ASSUME at' = [at EXCEPT ![r] = "calling"], reply' = reply
        PROVE  Shapes' /\ (\A x \in Requests : RInv(x))'
    <3>1. at'[r] = "calling" /\ DOMAIN at' = Requests /\ \A x \in Requests \ {r} : at'[x] = at[x]
      BY <1>2, <2>4 DEF Shapes
    <3>2. FromProxy(r)'
      BY <1>1, <1>3 DEF FromProxy
    <3>3. masked'[r] <=> Redacts(r)'
      BY <1>1, <2>1 DEF Redacts, Rules, policy
    <3>4. target'[r].provider \in DOMAIN Providers /\ target'[r].region \in Regions
      BY <1>4, <1>8, ResolveTyped DEF aim
    <3>5. Aimed(r)'
      BY <3>2, <3>3, <3>4 DEF Aimed
    <3>6. Early(r)' /\ OnTheWire(r)' /\ InCache(r)' /\ Refusing(r)' /\ OnRecord(r)' /\ ToCaller(r)'
      BY <1>1, <1>3, <1>8, <2>4, <3>1, NotYet
      DEF Early, OnTheWire, InCache, Refusing, Refused, OnRecord, ToCaller, NoReply
    <3>7. RInv(r)'
      BY <1>1, <1>2, <1>3, <1>8, <2>2, <2>4, <3>1, <3>5, <3>6, NotYet DEF RInv, Places
    <3>. QED
      BY <1>1, <1>2, <1>4, <1>5, <1>8, <2>1, <2>4, <3>1, <3>7 DEF Shapes
  <2>. QED
    BY <2>3, <2>4
<1>. QED
  BY <1>1, <1>6, <1>7, <1>8

\* The verdict of a call that is made, and what it leaves.
LEMMA CallStep ==
  ASSUME IInv, NEW r \in Requests, Call(r)
  PROVE  Shapes' /\ (\A x \in Requests : RInv(x))'
<1>. DEFINE decision == Verdict(r)
            wire     == [clear |-> IF masked[r] THEN {} ELSE Values(r)]
            kept     == [Begun(r) EXCEPT !.state = "complete", !.cached = TRUE]
<1>1. /\ at[r] = "calling" /\ UNCHANGED <<scene, ask, target, masked>>
      /\ \/ /\ ~decision.allowed /\ sent' = sent
            /\ Refuse(r, target[r], "policy_refused", masked[r])
         \/ /\ decision.allowed /\ row' = [row EXCEPT ![r] = Begun(r)]
            /\ sent' = [sent EXCEPT ![r] = wire] /\ at' = [at EXCEPT ![r] = "sent"] /\ reply' = reply
         \/ /\ decision.allowed /\ decision.cache /\ row' = [row EXCEPT ![r] = kept]
            /\ \E mentions \in Mentions(r) : reply' = [reply EXCEPT ![r] = Given(r, mentions)]
            /\ at' = [at EXCEPT ![r] = "done"] /\ sent' = sent
  BY DEF Call, Verdict, quotaVars
<1>2. RInv(r) /\ Shapes /\ scene \in Scenarios
  BY DEF IInv, Windows
<1>3. row[r] = None /\ sent[r] = None /\ reply[r] = NoReply /\ masked[r] \in BOOLEAN /\ Aimed(r)
  BY <1>1, <1>2 DEF RInv, Early, Ruled
<1>4. Verdict(r)' = Verdict(r) /\ (Aimed(r)' <=> Aimed(r)) /\ Rules' = Rules
  BY <1>1, JudgedFacts DEF Judged
<1>5. ASSUME \A x \in Requests \ {r} : /\ at'[x] = at[x] /\ reply'[x] = reply[x]
                                       /\ sent'[x] = sent[x] /\ row'[x] = row[x]
      PROVE  \A x \in Requests \ {r} : RInv(x)'
  BY <1>1, <1>5, SameKeeps DEF IInv, Same
<1>6. /\ Begun(r) \in Rows /\ Begun(r) # None /\ Begun(r).redacted = masked[r]
      /\ Begun(r).error = None /\ ~Begun(r).cached /\ kept \in Rows
  BY <1>2, <1>3, BegunTyped
<1>7. /\ kept # None /\ kept.cached /\ kept.error = None /\ kept.redacted = masked[r]
  BY <1>6, FrontDoorAssumption DEF Begun
<1>. HIDE DEF kept
<1>8. ASSUME ~decision.allowed, Refuse(r, target[r], "policy_refused", masked[r]), sent' = sent
      PROVE  Shapes' /\ (\A x \in Requests : RInv(x))'
  <2>1. target[r].provider \in DOMAIN Providers /\ target[r].region \in Regions
    BY <1>3 DEF Aimed
  <2>2. ask[r].class \in Classes \cup {None} /\ "policy_refused" \in Refused
    BY <1>2, <1>3, ClassOfAimed DEF Refused
  <2>3. Aimed(r)' /\ ~Verdict(r)'.allowed /\ masked'[r] \in BOOLEAN /\ sent'[r] = None
    BY <1>1, <1>3, <1>4, <1>8
  <2>4. /\ RInv(r)' /\ DOMAIN at' = Requests /\ DOMAIN reply' = Requests /\ DOMAIN row' = Requests
        /\ \A x \in Requests \ {r} : at'[x] = at[x] /\ reply'[x] = reply[x] /\ row'[x] = row[x]
    BY <1>2, <1>3, <1>8, <2>1, <2>2, <2>3, RefuseBegins
  <2>. QED
    BY <1>1, <1>2, <1>5, <1>8, <2>4 DEF Shapes
<1>9. ASSUME decision.allowed, row' = [row EXCEPT ![r] = Begun(r)],
             sent' = [sent EXCEPT ![r] = wire], at' = [at EXCEPT ![r] = "sent"], reply' = reply
      PROVE  Shapes' /\ (\A x \in Requests : RInv(x))'
  <2>1. /\ row'[r] = Begun(r) /\ sent'[r] = wire /\ at'[r] = "sent"
        /\ \A x \in Requests \ {r} : row'[x] = row[x] /\ sent'[x] = sent[x] /\ at'[x] = at[x]
        /\ DOMAIN row' = Requests /\ DOMAIN sent' = Requests /\ DOMAIN at' = Requests
    BY <1>2, <1>9 DEF Shapes
  <2>2. (masked[r] => wire.clear = {}) /\ wire # None
    <3>1. masked[r] => wire.clear = {}
      OBVIOUS
    <3>2. Values(r) \subseteq Seq(Pieces)
      <4>1. AskOK(ask[r])
        BY <1>3 DEF Aimed, FromProxy
      <4>2. \A i \in DOMAIN ask[r].found : ask[r].found[i].value \in Seq(Pieces)
        BY <4>1 DEF AskOK
      <4>. QED
        BY <4>2 DEF Values
    <3>3. wire \in [clear : SUBSET Seq(Pieces)]
      BY <3>2
    <3>. QED
      BY <3>1, <3>3, FrontDoorAssumption
  <2>. HIDE DEF wire
  <2>3. None \notin Refused
    BY FrontDoorAssumption
  <2>4. Early(r)' /\ OnTheWire(r)' /\ InCache(r)'
    BY <1>1, <1>3, <1>4, <1>6, <1>9, <2>1, <2>2, <2>3 DEF Early, OnTheWire, InCache
  <2>5. Refusing(r)' /\ OnRecord(r)' /\ ToCaller(r)'
    BY <1>3, <1>6, <1>9, <2>1, <2>2, <2>3, NotYet DEF Refusing, Refused, OnRecord, ToCaller
  <2>6. RInv(r)'
    BY <1>1, <1>3, <1>4, <1>6, <1>9, <2>1, <2>2, <2>4, <2>5, NotYet DEF RInv, Places
  <2>. QED
    BY <1>1, <1>2, <1>5, <1>9, <2>1, <2>6 DEF Shapes
<1>10. ASSUME decision.allowed, decision.cache, row' = [row EXCEPT ![r] = kept],
              NEW mentions \in Mentions(r), reply' = [reply EXCEPT ![r] = Given(r, mentions)],
              at' = [at EXCEPT ![r] = "done"], sent' = sent
       PROVE  Shapes' /\ (\A x \in Requests : RInv(x))'
  <2>1. /\ row'[r] = kept /\ at'[r] = "done" /\ reply'[r] = Given(r, mentions)
        /\ \A x \in Requests \ {r} : row'[x] = row[x] /\ reply'[x] = reply[x] /\ at'[x] = at[x]
        /\ DOMAIN row' = Requests /\ DOMAIN reply' = Requests /\ DOMAIN at' = Requests
    BY <1>2, <1>10 DEF Shapes
  <2>2. reply'[r].what = "answer" /\ DOMAIN reply'[r] = {"what", "back", "left"}
    BY <2>1 DEF Given
  <2>3. None \notin Refused
    BY FrontDoorAssumption
  <2>4. Early(r)' /\ OnTheWire(r)' /\ InCache(r)' /\ Refusing(r)'
    BY <1>3, <1>4, <1>10, <2>1 DEF Early, OnTheWire, InCache, Refusing, Refused
  <2>5. OnRecord(r)'
    BY <1>3, <1>7, <1>10, <2>1, <2>2, <2>3 DEF OnRecord, Refused, OwnFault
  <2>6. ToCaller(r)'
    <3>1. masked[r] => AskOK(ask[r]) \/ ask[r].via # "proxy"
      BY <1>3 DEF Aimed, FromProxy
    <3>. QED
      BY <1>1, <1>4, <2>1, <3>1, GivenIsScoped DEF ToCaller, Said
  <2>7. RInv(r)'
    BY <1>1, <1>3, <1>4, <1>6, <1>7, <1>10, <2>1, <2>2, <2>4, <2>5, <2>6 DEF RInv, Places
  <2>. QED
    BY <1>1, <1>2, <1>5, <1>10, <2>1, <2>7 DEF Shapes
<1>. QED
  BY <1>1, <1>8, <1>9, <1>10

\* The second write of a refusal, or its failure.
LEMMA RefusesStep ==
  ASSUME IInv, NEW r \in Requests, Refuses(r)
  PROVE  Shapes' /\ (\A x \in Requests : RInv(x))'
<1>. DEFINE finished == Finished(row[r], at[r])
<1>1. /\ at[r] \in Refused /\ UNCHANGED <<scene, ask, target, masked, sent>>
      /\ \/ row' = [row EXCEPT ![r] = finished] /\ Answer(r, at[r])
         \/ Answer(r, "failed") /\ row' = row
  BY DEF Refuses, quotaVars
<1>2. RInv(r) /\ Shapes
  BY DEF IInv
<1>3. /\ Refusing(r) /\ reply[r] = NoReply /\ masked[r] \in BOOLEAN /\ row[r] \in Rows /\ row[r] # None
      /\ row[r].state = "in_flight" /\ row[r].error = None /\ ~row[r].cached /\ sent[r] = None
      /\ at[r] # "done" /\ None \notin Refused
  BY <1>1, <1>2, FrontDoorAssumption DEF RInv, Early, Refusing, Refused
<1>4. Verdict(r)' = Verdict(r) /\ (Aimed(r)' <=> Aimed(r)) /\ Rules' = Rules
  BY <1>1, JudgedFacts DEF Judged
<1>5. /\ finished \in Rows /\ finished # None /\ finished.state = "complete"
      /\ finished.error = at[r] /\ ~finished.cached
  <2>1. finished = [row[r] EXCEPT !.state = "complete", !.error = at[r]]
    BY DEF Finished
  <2>2. finished \in Rows /\ finished.state = "complete" /\ finished.error = at[r] /\ ~finished.cached
    BY <1>1, <1>3, <2>1 DEF Rows
  <2>. QED
    BY <2>2, FrontDoorAssumption
<1>. HIDE DEF finished
<1>6. ASSUME NEW what, Answer(r, what), row' = row \/ row' = [row EXCEPT ![r] = finished], RInv(r)'
      PROVE  Shapes' /\ (\A x \in Requests : RInv(x))'
  <2>1. /\ DOMAIN at' = Requests /\ DOMAIN reply' = Requests
        /\ \A x \in Requests \ {r} : at'[x] = at[x] /\ reply'[x] = reply[x]
    BY <1>2, <1>6, Answered
  <2>2. DOMAIN row' = Requests /\ \A x \in Requests \ {r} : row'[x] = row[x]
    BY <1>2, <1>6 DEF Shapes
  <2>3. \A x \in Requests \ {r} : RInv(x)'
    BY <1>1, <2>1, <2>2, SameKeeps DEF IInv, Same
  <2>. QED
    BY <1>1, <1>2, <1>6, <2>1, <2>2, <2>3 DEF Shapes
<1>7. ASSUME row' = [row EXCEPT ![r] = finished], Answer(r, at[r])
      PROVE  RInv(r)'
  <2>1. /\ at'[r] = "done" /\ reply'[r].what = at[r] /\ reply'[r].back = {} /\ reply'[r].left = {}
        /\ DOMAIN reply'[r] = {"what", "back", "left"} /\ row'[r] = finished
    BY <1>2, <1>3, <1>7, Answered, NotYet DEF Shapes
  <2>2. at[r] \notin OwnFault
    BY <1>1 DEF Refused, OwnFault
  <2>3. Early(r)' /\ OnTheWire(r)' /\ InCache(r)' /\ Refusing(r)' /\ OnRecord(r)' /\ ToCaller(r)'
    BY <1>1, <1>3, <1>5, <2>1, <2>2
    DEF Early, OnTheWire, InCache, Refusing, Refused, OnRecord, ToCaller
  <2>4. at[r] = "policy_refused" => ~Verdict(r).allowed /\ Aimed(r)
    BY <1>2, <1>3 DEF RInv, Ruled, Refusing, Refused
  <2>5. (Ruled(r)' => Aimed(r)') /\ (reply'[r].what = "policy_refused" => ~Verdict(r)'.allowed)
    BY <1>1, <1>3, <1>4, <1>5, <2>1, <2>4 DEF Ruled
  <2>. QED
    BY <1>1, <1>3, <1>5, <2>1, <2>3, <2>5 DEF RInv, Places
<1>8. ASSUME row' = row, Answer(r, "failed")
      PROVE  RInv(r)'
  <2>1. /\ at'[r] = "done" /\ reply'[r].what = "failed" /\ reply'[r].back = {} /\ reply'[r].left = {}
        /\ DOMAIN reply'[r] = {"what", "back", "left"}
    BY <1>2, <1>3, <1>8, Answered, NotYet
  <2>2. /\ Early(r)' /\ ~Ruled(r)' /\ OnTheWire(r)' /\ InCache(r)' /\ Refusing(r)' /\ OnRecord(r)'
        /\ ToCaller(r)'
    BY <1>1, <1>3, <1>8, <2>1
    DEF Early, Ruled, OnTheWire, InCache, Refusing, Refused, OnRecord, OwnFault, ToCaller
  <2>. QED
    BY <1>1, <1>3, <1>8, <2>1, <2>2 DEF RInv, Places
<1>. QED
  BY <1>1, <1>6, <1>7, <1>8

LEMMA ReturnStep ==
  ASSUME IInv, NEW r \in Requests, Return(r)
  PROVE  Shapes' /\ (\A x \in Requests : RInv(x))'
<1>1. /\ at[r] = "sent" /\ at' = [at EXCEPT ![r] = "done"]
      /\ UNCHANGED <<scene, ask, target, masked, sent>>
      /\ \/ /\ row' = [row EXCEPT ![r].state = "complete"]
            /\ \E mentions \in Mentions(r) : reply' = [reply EXCEPT ![r] = Given(r, mentions)]
         \/ /\ row' = [row EXCEPT ![r].state = "complete", ![r].error = "http"]
            /\ reply' = [reply EXCEPT ![r].what = "upstream"]
  BY DEF Return, quotaVars
<1>2. RInv(r) /\ Shapes
  BY DEF IInv
<1>3. /\ Aimed(r) /\ reply[r] = NoReply /\ masked[r] \in BOOLEAN /\ row[r] \in Rows
      /\ Verdict(r).allowed /\ row[r].redacted = masked[r] /\ row[r].error = None /\ ~row[r].cached
      /\ OnTheWire(r) /\ sent[r] # None
  BY <1>1, <1>2 DEF RInv, Early, Ruled
<1>4. Verdict(r)' = Verdict(r) /\ (Aimed(r)' <=> Aimed(r)) /\ Rules' = Rules
  BY <1>1, JudgedFacts DEF Judged
<1>5. /\ row'[r] \in Rows /\ row'[r].redacted = row[r].redacted /\ row'[r].cached = row[r].cached
      /\ row'[r].error \in {None, "http"} /\ DOMAIN row' = Requests
      /\ \A x \in Requests \ {r} : row'[x] = row[x]
  <2>1. CASE row' = [row EXCEPT ![r].state = "complete"]
    <3>1. row'[r] = [row[r] EXCEPT !.state = "complete"]
      BY <1>2, <2>1 DEF Shapes
    <3>. QED
      BY <1>2, <1>3, <2>1, <3>1 DEF Shapes, Rows
  <2>2. CASE row' = [row EXCEPT ![r].state = "complete", ![r].error = "http"]
    <3>1. row'[r] = [row[r] EXCEPT !.state = "complete", !.error = "http"]
      BY <1>2, <2>2 DEF Shapes
    <3>. QED
      BY <1>2, <1>3, <2>2, <3>1 DEF Shapes, Rows
  <2>. QED
    BY <1>1, <2>1, <2>2
<1>6. /\ at'[r] = "done" /\ DOMAIN at' = Requests /\ DOMAIN reply' = Requests
      /\ \A x \in Requests \ {r} : at'[x] = at[x] /\ reply'[x] = reply[x]
      /\ reply'[r].what \in {"answer", "upstream"} /\ DOMAIN reply'[r] = {"what", "back", "left"}
  BY <1>1, <1>2, <1>3, NotYet DEF Shapes, Given
<1>7. row'[r] # None /\ row'[r].error \notin Refused
  BY <1>5, FrontDoorAssumption DEF Refused
<1>8. Early(r)' /\ OnTheWire(r)' /\ InCache(r)' /\ Refusing(r)' /\ OnRecord(r)'
  BY <1>1, <1>3, <1>4, <1>5, <1>6, <1>7
  DEF Early, OnTheWire, InCache, Refusing, OnRecord, Refused, OwnFault
<1>9. ToCaller(r)'
  <2>1. CASE \E mentions \in Mentions(r) : reply' = [reply EXCEPT ![r] = Given(r, mentions)]
    <3>1. PICK mentions \in Mentions(r) : reply'[r] = Given(r, mentions)
      BY <1>2, <2>1 DEF Shapes
    <3>2. masked[r] => AskOK(ask[r]) \/ ask[r].via # "proxy"
      BY <1>3 DEF Aimed, FromProxy
    <3>. QED
      BY <1>1, <1>4, <3>1, <3>2, GivenIsScoped DEF ToCaller, Said
  <2>2. CASE reply' = [reply EXCEPT ![r].what = "upstream"]
    <3>1. reply'[r].back = {} /\ reply'[r].left = {}
      BY <1>2, <1>3, <2>2, NotYet DEF Shapes
    <3>. QED
      BY <3>1 DEF ToCaller
  <2>. QED
    BY <1>1, <2>1, <2>2
<1>10. RInv(r)'
  BY <1>1, <1>3, <1>4, <1>5, <1>6, <1>8, <1>9 DEF RInv, Places
<1>11. \A x \in Requests \ {r} : RInv(x)'
  BY <1>1, <1>5, <1>6, SameKeeps DEF IInv, Same
<1>. QED
  BY <1>1, <1>2, <1>5, <1>6, <1>10, <1>11 DEF Shapes

\* A request that is cut off keeps its row as it is.
LEMMA GoneKeeps ==
  ASSUME NEW x \in Requests, RInv(x), at[x] # "done", at'[x] = "gone",
         UNCHANGED <<scene, ask, target, masked, row, sent, reply>>
  PROVE  RInv(x)'
<1>1. /\ Verdict(x)' = Verdict(x) /\ (Aimed(x)' <=> Aimed(x)) /\ Rules' = Rules
  BY JudgedFacts DEF Judged
<1>2. Early(x)' /\ OnTheWire(x)' /\ InCache(x)' /\ Refusing(x)' /\ OnRecord(x)'
  BY <1>1 DEF RInv, Early, OnTheWire, InCache, Refusing, Refused, OnRecord
<1>3. ToCaller(x)'
  BY <1>1 DEF RInv, ToCaller, Said
<1>4. Ruled(x)' => Aimed(x)'
  BY <1>1 DEF RInv, Ruled
<1>. QED
  BY <1>1, <1>2, <1>3, <1>4 DEF RInv, Places

LEMMA RestartStep ==
  ASSUME IInv, NEW w \in Workers, Restart(w)
  PROVE  Shapes' /\ (\A x \in Requests : RInv(x))'
<1>1. /\ at' = [x \in Requests |-> IF on[x] = w /\ at[x] # "done" THEN "gone" ELSE at[x]]
      /\ UNCHANGED <<scene, ask, target, masked, row, sent, reply>>
  BY DEF Restart, callVars
<1>2. ASSUME NEW x \in Requests
      PROVE  RInv(x)'
  <2>1. CASE at'[x] = at[x]
    BY <1>1, <2>1, SameKeeps DEF Same, IInv
  <2>2. CASE at'[x] # at[x]
    <3>1. at'[x] = "gone" /\ at[x] # "done"
      BY <1>1, <2>2
    <3>. QED
      BY <1>1, <3>1, GoneKeeps DEF IInv
  <2>. QED
    BY <2>1, <2>2
<1>. QED
  BY <1>1, <1>2 DEF Shapes, IInv

LEMMA QuitStep ==
  ASSUME IInv, NEW r \in Requests, Quit(r)
  PROVE  Shapes' /\ (\A x \in Requests : RInv(x))'
<1>1. /\ at' = [at EXCEPT ![r] = "gone"] /\ at[r] # "done"
      /\ UNCHANGED <<scene, ask, target, masked, row, sent, reply>>
  BY DEF Quit, callVars, Refused
<1>2. at'[r] = "gone" /\ \A x \in Requests \ {r} : at'[x] = at[x]
  BY <1>1 DEF IInv, Shapes
<1>3. RInv(r)'
  BY <1>1, <1>2, GoneKeeps DEF IInv
<1>4. \A x \in Requests \ {r} : RInv(x)'
  BY <1>1, <1>2, SameKeeps DEF IInv, Same
<1>. QED
  BY <1>1, <1>3, <1>4 DEF Shapes, IInv

LEMMA WindowsKept ==
  ASSUME IInv, Next
  PROVE  Windows'
<1>1. scene \in Scenarios /\ scene.horizon \in Nat /\ now \in 0 .. scene.horizon /\ window \subseteq passed
      /\ \A e \in passed : e.team \in Teams /\ e.req \in Requests /\ e.time \in 0 .. now
  BY FrontDoorAssumption DEF IInv, Windows
<1>2. CASE UNCHANGED <<scene, now, window, passed>>
  BY <1>1, <1>2 DEF Windows
<1>3. ASSUME NEW r \in Requests, Take(r)
      PROVE  Windows'
  <2>. DEFINE entry == [shelf |-> Shelf(r), team |-> TeamIs(r), req |-> r, time |-> now]
              live  == Live(Shelf(r), TeamIs(r), now)
              rest  == {e \in window : e.shelf # Shelf(r) \/ e.team # TeamIs(r)}
  <2>1. live \subseteq window /\ rest \subseteq window
    BY DEF Live
  <2>2. /\ at[r] = "asking" /\ UNCHANGED <<scene, now>>
        /\ \/ window' = rest \cup live /\ passed' = passed
           \/ window' = rest \cup live \cup {entry} /\ passed' = passed \cup {entry}
    <3>1. CASE Cardinality(live) >= Limit[TeamIs(r)]
      BY <1>3, <3>1 DEF Take
    <3>2. CASE ~(Cardinality(live) >= Limit[TeamIs(r)])
      BY <1>3, <3>2 DEF Take
    <3>. QED
      BY <3>1, <3>2
  <2>3. TeamIs(r) \in Teams
    BY <2>2, FrontDoorAssumption DEF IInv, RInv, Early, FromProxy, TeamIs
  <2>4. entry.team \in Teams /\ entry.req \in Requests /\ entry.time = now
    BY <2>3
  <2>. HIDE DEF entry, live, rest
  <2>. QED
    BY <1>1, <2>1, <2>2, <2>4 DEF Windows
<1>4. ASSUME NEW w \in Workers, Restart(w)
      PROVE  Windows'
  BY <1>1, <1>4 DEF Windows, Restart
<1>5. CASE Tick
  BY <1>1, <1>5 DEF Windows, Tick, quotaVars
<1>6. ASSUME NEW r \in Requests,
             \/ \E w \in Workers, a \in scene.asks : Arrive(r, w, a)
             \/ \E a \in scene.asks : LibraryCall(r, a)
             \/ Handle(r) \/ Call(r) \/ Refuses(r) \/ Return(r) \/ Quit(r)
      PROVE  UNCHANGED <<scene, now, window, passed>>
  BY <1>6 DEF Arrive, LibraryCall, Handle, Call, Refuses, Return, Quit, quotaVars
<1>. QED
  BY <1>2, <1>3, <1>4, <1>5, <1>6 DEF Next

\* Each step keeps the invariant.
LEMMA NextKeeps ==
  ASSUME IInv, [Next]_vars
  PROVE  IInv'
<1>1. CASE Next
  <2>1. Shapes' /\ (\A x \in Requests : RInv(x))'
    <3>1. CASE Tick
      <4>1. \A x \in Requests : Same(x)
        BY <3>1 DEF Tick, callVars, Same
      <4>2. \A x \in Requests : RInv(x)'
        BY <4>1, SameKeeps DEF IInv
      <4>. QED
        BY <3>1, <4>2 DEF Tick, callVars, IInv, Shapes
    <3>. QED
      BY <1>1, <3>1, ArriveStep, LibraryStep, TakeStep, HandleStep, CallStep,
        RefusesStep, ReturnStep, QuitStep, RestartStep
      DEF Next
  <2>. QED
    BY <1>1, <2>1, WindowsKept DEF IInv
<1>2. CASE UNCHANGED vars
  <2>1. \A x \in Requests : Same(x)
    BY <1>2 DEF vars, callVars, Same
  <2>2. \A x \in Requests : RInv(x)'
    BY <2>1, SameKeeps DEF IInv
  <2>. QED
    BY <1>2, <2>2 DEF IInv, Shapes, Windows, vars, callVars, quotaVars
<1>. QED
  BY <1>1, <1>2

LEMMA InitStarts ==
  ASSUME Init
  PROVE  IInv
<1>1. Windows
  <2>1. scene \in Scenarios /\ scene.horizon \in Nat /\ now = 0 /\ window = {} /\ passed = {}
    BY FrontDoorAssumption DEF Init
  <2>2. 0 \in 0 .. scene.horizon
    BY <2>1
  <2>. QED
    BY <2>1, <2>2 DEF Windows
<1>2. Shapes
  BY DEF Init, Shapes
<1>3. ASSUME NEW r \in Requests
      PROVE  RInv(r)
  <2>1. /\ at[r] = "idle" /\ ~masked[r] /\ masked[r] \in BOOLEAN /\ row[r] = None /\ sent[r] = None
        /\ reply[r] = NoReply
    BY DEF Init
  <2>2. /\ Early(r) /\ ~Ruled(r) /\ OnTheWire(r) /\ InCache(r) /\ Refusing(r) /\ OnRecord(r)
        /\ ToCaller(r)
    BY <2>1, NotYet DEF Early, Ruled, OnTheWire, InCache, Refusing, Refused, OnRecord, ToCaller
  <2>. QED
    BY <2>1, <2>2, NotYet DEF RInv, Places
<1>. QED
  BY <1>1, <1>2, <1>3 DEF IInv

LEMMA Invariance == Spec => []IInv
<1>1. Init => IInv
  BY InitStarts
<1>2. IInv /\ [Next]_vars => IInv'
  BY NextKeeps
<1>. QED
  BY <1>1, <1>2, PTL DEF Spec

-----------------------------------------------------------------------------
\* What the policy's file says of a case of the suite is what became of it.
LEMMA SuiteCase ==
  ASSUME IInv, NEW r \in Requests, InSuite(r)
  PROVE  /\ ~SuiteViolation(Outcome(r)) /\ ~SuiteFalseRefusal(Outcome(r))
         /\ ~SuiteUnaudited(Outcome(r))
<1>. DEFINE o == Outcome(r)
<1>1. RInv(r) /\ scene \in Scenarios
  BY DEF IInv, Windows
<1>2. o.refused => o.audited
  <2>1. reply[r].what = "policy_refused" => row[r] # None /\ row[r].error = "policy_refused"
    BY <1>1 DEF RInv, OnRecord, Refused
  <2>. QED
    BY <2>1 DEF Outcome
\* A case that was sent or refused by the policy was judged, and by the class the suite expects.
<1>3. ASSUME Aimed(r)
      PROVE  o.expected <=> Verdict(r).allowed
  <2>1. ClassOf(r) \in Classes /\ DOMAIN Rules \subseteq Classes /\ None \notin Classes
    BY <1>1, <1>3, ClassOfAimed, PolicyFacts
  <2>2. Verdict(r).allowed <=> ClassOf(r) \in DOMAIN Rules /\ Oracle(Effective(r), target[r])
    BY <1>1, <1>3, VerdictByRule
  <2>3. CASE ask[r].via = "library"
    <3>1. ~masked[r]
      BY <1>3, <2>3 DEF Aimed, FromProxy, InSuite
    <3>2. Effective(r) = ClassOf(r)
      BY <3>1 DEF Effective
    <3>3. o.expected <=> Oracle(ask[r].class, target[r])
      BY <2>3 DEF Outcome
    <3>4. Oracle(ask[r].class, target[r]) <=>
            ClassOf(r) \in DOMAIN Rules /\ Oracle(ClassOf(r), target[r])
      <4>1. ask[r].class \in Classes \cup {None}
        BY <1>1, <1>3, ClassOfAimed
      <4>. QED
        BY <2>1, <4>1 DEF Oracle, ClassOf
    <3>. QED
      BY <2>2, <3>2, <3>3, <3>4
  <2>4. CASE ask[r].via = "proxy"
    <3>1. /\ masked[r] <=> Redacts(r)
          /\ ask[r].class \in Classes /\ ask[r].class = ReadClass(ask[r].header)
      BY <1>3, <2>4 DEF Aimed, FromProxy
    <3>2. Door(ask[r].header) = ask[r].class
      BY <3>1, FrontDoorAssumption DEF Door, ReadClass, Plain, Classes
    <3>3. ClassOf(r) = ask[r].class
      BY <2>1, <3>1 DEF ClassOf
    <3>4. ask[r].class \in DOMAIN Rules => JudgedAs(r) = Effective(r)
      BY <3>1, <3>2, <3>3 DEF JudgedAs, Effective, Redacts
    <3>5. ask[r].class \notin DOMAIN Rules => JudgedAs(r) = ask[r].class
      BY <3>2 DEF JudgedAs
    <3>6. ask[r].class \in DOMAIN Rules => JudgedAs(r) \in DOMAIN Rules
      BY <1>1, <1>3, <3>3, <3>4, VerdictByRule
    <3>7. JudgedAs(r) \in Classes
      BY <2>1, <3>1, <3>5, <3>6
    <3>8. JudgedAs(r) # "<invalid>"
      BY <3>7 DEF Classes
    <3>9. o.expected <=> Oracle(JudgedAs(r), target[r])
      BY <2>4, <3>8 DEF Outcome
    <3>10. ask[r].class \notin DOMAIN Rules => ~Oracle(JudgedAs(r), target[r])
      BY <2>1, <3>1, <3>5 DEF Oracle
    <3>. QED
      BY <2>2, <3>3, <3>4, <3>9, <3>10
  <2>. QED
    BY <1>3, <2>3, <2>4 DEF Aimed, FromProxy
<1>4. o.sent => Aimed(r) /\ Verdict(r).allowed
  BY <1>1 DEF Outcome, RInv, Ruled, OnTheWire
<1>5. o.refused => Aimed(r) /\ ~Verdict(r).allowed
  BY <1>1 DEF Outcome, RInv, Ruled
<1>. HIDE DEF o
<1>. QED
  BY <1>2, <1>3, <1>4, <1>5 DEF SuiteViolation, SuiteFalseRefusal, SuiteUnaudited, o

\* For every policy, route table and caller, text leaves only where the rule of its class lets
\* it, redacted where that rule has it redacted, and the policy suite finds nothing
\* (DataPolicy.decide, _prepare, _redact, enforce_eval).
THEOREM PolicyIsKept == Spec => []DataStaysWithinRule
<1>1. ASSUME IInv
      PROVE  DataStaysWithinRule
  <2>1. scene \in Scenarios /\ \A r \in Requests : RInv(r)
    BY <1>1 DEF IInv, Windows
  <2>2. TypeOK
    BY <1>1 DEF IInv, Windows, TypeOK, RInv, Ruled, Aimed, Places
  <2>3. SentWithinRule
    <3>1. ASSUME NEW r \in Requests, sent[r] # None
          PROVE  /\ ClassOf(r) \in DOMAIN Rules
                 /\ \/ Oracle(ClassOf(r), target[r])
                    \/ /\ masked[r] /\ sent[r].clear = {}
                       /\ \E c \in DOMAIN Rules : c = Rules[ClassOf(r)].as /\ Oracle(c, target[r])
      <4>1. Aimed(r) /\ Verdict(r).allowed /\ (masked[r] => sent[r].clear = {})
        BY <2>1, <3>1 DEF RInv, Ruled, OnTheWire
      <4>2. ClassOf(r) \in DOMAIN Rules /\ Effective(r) \in DOMAIN Rules /\ Oracle(Effective(r), target[r])
        BY <2>1, <4>1, VerdictByRule
      <4>3. CASE Effective(r) = ClassOf(r)
        BY <4>2, <4>3
      <4>4. CASE Effective(r) # ClassOf(r)
        <5>1. masked[r] /\ Effective(r) = Rules[ClassOf(r)].as
          BY <4>4 DEF Effective
        <5>. QED
          BY <4>1, <4>2, <5>1
      <4>. QED
        BY <4>3, <4>4
    <3>2. ASSUME NEW r \in Requests, row[r] # None, row[r].cached
          PROVE  ClassOf(r) \in DOMAIN Rules /\ Rules[ClassOf(r)].cache
      <4>1. Aimed(r) /\ Verdict(r).cache
        BY <2>1, <3>2 DEF RInv, Ruled, InCache
      <4>. QED
        BY <2>1, <4>1, VerdictByRule
    <3>. QED
      BY <3>1, <3>2 DEF SentWithinRule
  <2>4. RedactedBeforeItLeaves
    <3>1. ASSUME NEW r \in Requests, sent[r] # None, ask[r].via = "proxy",
                 NEW c \in DOMAIN Rules, c = ask[r].class, Rules[c].as \in Classes
          PROVE  sent[r].clear = {} /\ row[r].redacted
      <4>1. Aimed(r) /\ (masked[r] => sent[r].clear = {}) /\ row[r].redacted = masked[r]
        BY <2>1, <3>1 DEF RInv, Ruled, OnTheWire
      <4>2. Rules[c].as # None
        BY <2>1, <3>1, PolicyFacts
      <4>3. masked[r]
        BY <3>1, <4>1, <4>2 DEF Aimed, Redacts
      <4>. QED
        BY <4>1, <4>3
    <3>. QED
      BY <3>1 DEF RedactedBeforeItLeaves
  <2>5. SuiteIsClean
    BY <1>1, SuiteCase DEF SuiteIsClean
  <2>. QED
    BY <2>2, <2>3, <2>4, <2>5 DEF DataStaysWithinRule
<1>. QED
  BY <1>1, Invariance, PTL

\* Whatever fails or is killed between the two writes of a refusal, it is answered only once its
\* row is completed with it, and no row is completed for a call that was not made without saying
\* why; one that is the caller's own fault has none (record_refusal, _enforce, _refuse).
THEOREM RefusalsRecorded == Spec => []RefusalsAreOnRecord
<1>1. ASSUME IInv
      PROVE  RefusalsAreOnRecord
  BY <1>1 DEF IInv, RInv, OnRecord, OnTheWire, RefusalsAreOnRecord
<1>. QED
  BY <1>1, Invariance, PTL

\* Whatever the texts, each value put back into an answer scoped to its caller stands whole in
\* one of the caller's own messages, the line break keeping two of them apart, and what is left
\* out has a spelling that stands in none (caller_scoped).
THEOREM AnswersScoped == Spec => []AnswerIsTheCallers
<1>1. ASSUME IInv
      PROVE  AnswerIsTheCallers
  BY <1>1 DEF IInv, RInv, ToCaller, AnswerIsTheCallers, Said
<1>. QED
  BY <1>1, Invariance, PTL
-----------------------------------------------------------------------------
(* The quota.  That no minute holds more than the limit does not follow    *)
(* from the window alone, which forgets: what it still holds has to be all *)
(* of what was let through in the last minute, and what a refused caller   *)
(* was told has to stay right while others come after it.                  *)

\* The requests let through up to one time that a window still holds at another.
Held(p, shelf, team, from, to) ==
  {e \in p : e.shelf = shelf /\ e.team = team /\ e.time <= to /\ from < e.time + Window}

\* The window holds everything of the last minute.
Kept == IsFiniteSet(passed) /\ \A e \in passed : now < e.time + Window => e \in window

Bounded ==
  \A shelf : \A team \in Teams, time \in 0 .. now :
    Cardinality(Held(passed, shelf, team, time, time)) <= Limit[team]

ToldRight(t) ==
  /\ t.team \in Teams /\ t.at \in 0 .. now /\ t.wait \in Nat \ {0}
  /\ Cardinality(Held(passed, t.shelf, t.team, t.at + t.wait, t.at)) < Limit[t.team]
  /\ Cardinality(Held(passed, t.shelf, t.team, t.at + t.wait - 1, t.at)) >= Limit[t.team]

QuotaInv == Kept /\ Bounded /\ \A t \in told : ToldRight(t)

\* What is assumed of the numbers.
LEMMA Numbers ==
  /\ Window \in Nat \ {0} /\ \A t \in Teams : Limit[t] \in Nat \ {0}
  /\ \A s \in Scenarios : s.horizon \in Nat
BY FrontDoorAssumption

\* What a window's set is, and that the sets of it are finite.
LEMMA HeldFacts ==
  ASSUME NEW p, IsFiniteSet(p), NEW shelf, NEW team, NEW from, NEW to
  PROVE  /\ IsFiniteSet(Held(p, shelf, team, from, to))
         /\ Cardinality(Held(p, shelf, team, from, to)) \in Nat
<1>1. Held(p, shelf, team, from, to) \subseteq p
  BY DEF Held
<1>2. IsFiniteSet(Held(p, shelf, team, from, to))
  BY <1>1, FS_Subset
<1>. QED
  BY <1>2, FS_CardinalityType

\* What a window has left is all of what was let through in the last minute.
LEMMA LiveIsHeld ==
  ASSUME Windows, Kept, NEW shelf, NEW team
  PROVE  /\ Live(shelf, team, now) = Held(passed, shelf, team, now, now)
         /\ IsFiniteSet(Live(shelf, team, now)) /\ Cardinality(Live(shelf, team, now)) \in Nat
<1>1. /\ window \subseteq passed /\ now \in Nat /\ Window \in Nat
      /\ \A e \in passed : e.time \in 0 .. now
  BY Numbers DEF Windows
<1>2. ASSUME NEW e \in Live(shelf, team, now)
      PROVE  e \in Held(passed, shelf, team, now, now)
  <2>1. e \in window /\ e.shelf = shelf /\ e.team = team /\ e.time + Window > now
    BY DEF Live
  <2>2. e \in passed /\ e.time <= now /\ now < e.time + Window
    BY <1>1, <2>1
  <2>. QED
    BY <2>1, <2>2 DEF Held
<1>3. ASSUME NEW e \in Held(passed, shelf, team, now, now)
      PROVE  e \in Live(shelf, team, now)
  <2>1. e \in passed /\ e.shelf = shelf /\ e.team = team /\ now < e.time + Window
    BY DEF Held
  <2>2. e \in window /\ e.time + Window > now
    BY <1>1, <2>1 DEF Kept
  <2>. QED
    BY <2>1, <2>2 DEF Live
<1>4. Live(shelf, team, now) = Held(passed, shelf, team, now, now)
  BY <1>2, <1>3
<1>. QED
  BY <1>4, HeldFacts DEF Kept

\* Who is let through is not one too many, and none who was refused before is put off by it.
LEMMA LetThrough ==
  ASSUME Windows, QuotaInv, NEW entry, NEW shelf, NEW team \in Teams,
         entry.shelf = shelf, entry.team = team, entry.time = now,
         Cardinality(Live(shelf, team, now)) < Limit[team],
         now' = now, passed' = passed \cup {entry}, told' = told,
         entry \in window',
         \A e \in window : e.shelf # shelf \/ e.team # team \/ now < e.time + Window => e \in window'
  PROVE  QuotaInv'
<1>1. /\ now \in Nat /\ Window \in Nat \ {0} /\ IsFiniteSet(passed) /\ \A t \in Teams : Limit[t] \in Nat
      /\ \A e \in passed : e.time \in 0 .. now
  BY Numbers DEF Windows, QuotaInv, Kept
<1>2. IsFiniteSet(passed \cup {entry})
  BY <1>1, FS_AddElement
<1>3. Kept'
  <2>1. ASSUME NEW e \in passed', now' < e.time + Window
        PROVE  e \in window'
    <3>1. CASE e = entry
      BY <3>1
    <3>2. CASE e \in passed
      <4>1. e \in window /\ now < e.time + Window
        BY <2>1, <3>2 DEF QuotaInv, Kept
      <4>. QED
        BY <4>1
    <3>. QED
      BY <3>1, <3>2
  <2>. QED
    BY <1>2, <2>1 DEF Kept
\* A set of a time that is past, or of another window, is as it was.
<1>4. ASSUME NEW s, NEW t, NEW from \in Nat, NEW to \in Nat, s # shelf \/ t # team \/ to < now
      PROVE  Held(passed', s, t, from, to) = Held(passed, s, t, from, to)
  <2>1. ~(entry.shelf = s /\ entry.team = t /\ entry.time <= to)
    BY <1>1, <1>4
  <2>. QED
    BY <2>1 DEF Held
<1>5. Live(shelf, team, now) = Held(passed, shelf, team, now, now)
  BY LiveIsHeld DEF QuotaInv
<1>6. Bounded'
  <2>1. ASSUME NEW s, NEW t \in Teams, NEW time \in 0 .. now
        PROVE  Cardinality(Held(passed', s, t, time, time)) <= Limit[t]
    <3>1. Cardinality(Held(passed, s, t, time, time)) <= Limit[t]
      BY DEF QuotaInv, Bounded
    <3>2. CASE s # shelf \/ t # team \/ time < now
      <4>1. time \in Nat
        BY <1>1
      <4>2. Held(passed', s, t, time, time) = Held(passed, s, t, time, time)
        BY <1>4, <3>2, <4>1
      <4>. QED
        BY <3>1, <4>2
    <3>3. CASE s = shelf /\ t = team /\ time = now
      <4>. DEFINE old == Held(passed, shelf, team, now, now)
                  new == Held(passed', shelf, team, now, now)
      <4>1. new = old \cup {entry}
        <5>1. entry \in new
          BY <1>1 DEF Held
        <5>. QED
          BY <5>1 DEF Held
      <4>2. IsFiniteSet(old) /\ Cardinality(old) \in Nat /\ Cardinality(old) < Limit[team]
        BY <1>1, <1>5, HeldFacts
      <4>. HIDE DEF old, new
      <4>3. Cardinality(new) = Cardinality(old) \/ Cardinality(new) = Cardinality(old) + 1
        BY <4>1, <4>2, FS_AddElement
      <4>4. Cardinality(new) <= Limit[team]
        BY <1>1, <4>2, <4>3
      <4>. QED
        BY <3>3, <4>4 DEF new
    <3>. QED
      BY <1>1, <3>2, <3>3
  <2>. QED
    BY <2>1 DEF Bounded
<1>7. ASSUME NEW t \in told
      PROVE  ToldRight(t)'
  <2>1. ToldRight(t)
    BY DEF QuotaInv
  <2>2. t.at \in Nat /\ t.at <= now /\ t.wait \in Nat \ {0} /\ t.team \in Teams
    BY <1>1, <2>1 DEF ToldRight
  <2>3. t.shelf # shelf \/ t.team # team \/ t.at < now
    <3>1. SUFFICES ASSUME t.shelf = shelf, t.team = team, t.at = now
                   PROVE  FALSE
      BY <1>1, <2>2
    <3>. DEFINE old  == Held(passed, shelf, team, now, now)
                then == Held(passed, shelf, team, now + t.wait - 1, now)
    <3>2. then \subseteq old
      <4>1. ASSUME NEW e \in passed, now + t.wait - 1 < e.time + Window
            PROVE  now < e.time + Window
        <5>1. e.time \in Nat
          BY <1>1
        <5>. QED
          BY <1>1, <2>2, <4>1, <5>1
      <4>. QED
        BY <4>1 DEF Held
    <3>3. IsFiniteSet(old) /\ Cardinality(old) < Limit[team]
      BY <1>1, <1>5, HeldFacts
    <3>4. Cardinality(then) >= Limit[team]
      BY <2>1, <3>1 DEF ToldRight
    <3>. HIDE DEF old, then
    <3>5. Cardinality(then) <= Cardinality(old) /\ Cardinality(then) \in Nat /\ Cardinality(old) \in Nat
      BY <3>2, <3>3, Fewer
    <3>. QED
      BY <1>1, <3>3, <3>4, <3>5
  <2>4. t.at + t.wait \in Nat /\ t.at + t.wait - 1 \in Nat
    BY <2>2
  <2>5. /\ Held(passed', t.shelf, t.team, t.at + t.wait, t.at)
             = Held(passed, t.shelf, t.team, t.at + t.wait, t.at)
        /\ Held(passed', t.shelf, t.team, t.at + t.wait - 1, t.at)
             = Held(passed, t.shelf, t.team, t.at + t.wait - 1, t.at)
    BY ZenonT(40), <1>4, <2>2, <2>3, <2>4
  <2>. QED
    BY <2>1, <2>5 DEF ToldRight
<1>. QED
  BY <1>3, <1>6, <1>7 DEF QuotaInv

\* Who is refused is told the time until the oldest of the requests that fill the window leaves it.
LEMMA WaitFits ==
  ASSUME Windows, QuotaInv, NEW shelf, NEW team \in Teams, NEW wait,
         Cardinality(Live(shelf, team, now)) >= Limit[team], wait = Wait(Live(shelf, team, now))
  PROVE  /\ wait \in Nat \ {0}
         /\ Cardinality(Held(passed, shelf, team, now + wait, now)) < Limit[team]
         /\ Cardinality(Held(passed, shelf, team, now + wait - 1, now)) >= Limit[team]
<1>. DEFINE live  == Live(shelf, team, now)
            times == {e.time : e \in live}
            later(time) == Held(passed, shelf, team, time, now)
<1>1. /\ now \in Nat /\ Window \in Nat \ {0} /\ Limit[team] \in Nat \ {0}
      /\ \A e \in passed : e.time \in 0 .. now
  BY Numbers DEF Windows
<1>2. live = later(now) /\ IsFiniteSet(live) /\ Cardinality(live) \in Nat
  BY LiveIsHeld DEF QuotaInv
<1>3. Cardinality(live) <= Limit[team] /\ Cardinality(live) >= Limit[team]
  <2>1. now \in 0 .. now
    BY <1>1
  <2>. QED
    BY <1>2, <2>1 DEF QuotaInv, Bounded
<1>4. live # {}
  <2>1. Cardinality(live) # 0
    BY <1>1, <1>2, <1>3
  <2>. QED
    BY <2>1, FS_EmptySet
<1>5. \A e \in live : e.time \in Nat /\ e.time <= now /\ now < e.time + Window
  BY <1>1, <1>2 DEF Held
<1>6. times \in SUBSET Nat /\ times # {}
  BY <1>4, <1>5
<1>. DEFINE least == Min(times)
<1>7. least \in times /\ \A x \in times : least <= x
  BY <1>6, LeastOf
<1>8. PICK oldest \in live : oldest.time = least
  BY <1>7
<1>9. \A e \in live : least <= e.time
  BY <1>7
<1>10. wait = least + Window - now
  BY DEF Wait
<1>11. least \in Nat /\ least <= now /\ now < least + Window
  BY <1>5, <1>8
<1>12. wait \in Nat \ {0} /\ now + wait = least + Window /\ now + wait - 1 = least + Window - 1
  <2>. HIDE DEF least
  <2>. QED
    BY <1>1, <1>10, <1>11
<1>13. later(now + wait) \subseteq live /\ oldest \notin later(now + wait)
  <2>1. ASSUME NEW e \in later(now + wait)
        PROVE  e \in live /\ e # oldest
    <3>1. /\ e \in passed /\ e.shelf = shelf /\ e.team = team /\ e.time <= now
          /\ now + wait < e.time + Window
      BY DEF Held
    <3>2. e.time \in Nat
      BY <1>1, <3>1
    <3>3. now < e.time + Window
      <4>. HIDE DEF least
      <4>. QED
        BY <1>1, <1>12, <3>1, <3>2
    <3>4. e \in live
      BY <1>2, <3>1, <3>3 DEF Held
    <3>5. e.time # least
      <4>. HIDE DEF least
      <4>. QED
        BY <1>1, <1>11, <1>12, <3>1, <3>2
    <3>. QED
      BY <1>8, <3>4, <3>5
  <2>. QED
    BY <2>1
<1>14. live \subseteq later(now + wait - 1)
  <2>1. ASSUME NEW e \in live
        PROVE  e \in later(now + wait - 1)
    <3>1. e \in passed /\ e.shelf = shelf /\ e.team = team /\ e.time <= now
      BY <1>2 DEF Held
    <3>2. least <= e.time /\ e.time \in Nat
      BY <1>5, <1>9
    <3>3. now + wait - 1 < e.time + Window
      <4>. HIDE DEF least
      <4>. QED
        BY <1>1, <1>11, <1>12, <3>2
    <3>. QED
      BY <3>1, <3>3 DEF Held
  <2>. QED
    BY <2>1
<1>15. IsFiniteSet(later(now + wait - 1))
  BY HeldFacts DEF QuotaInv, Kept
<1>16. Cardinality(later(now + wait)) < Cardinality(live)
  <2>. HIDE DEF live, later
  <2>1. later(now + wait) # live
    BY <1>13
  <2>. QED
    BY <1>2, <1>13, <2>1, Fewer
<1>17. Cardinality(live) <= Cardinality(later(now + wait - 1))
  <2>. HIDE DEF live, later
  <2>. QED
    BY <1>14, <1>15, Fewer
<1>18. Cardinality(later(now + wait)) \in Nat /\ Cardinality(later(now + wait - 1)) \in Nat
  BY HeldFacts DEF QuotaInv, Kept
<1>19. Cardinality(later(now + wait)) < Limit[team] /\ Cardinality(later(now + wait - 1)) >= Limit[team]
  <2>. HIDE DEF live, later
  <2>. QED
    BY <1>1, <1>2, <1>3, <1>16, <1>17, <1>18
<1>. QED
  BY <1>12, <1>19

\* A request that the quota answers.
LEMMA TakeKeepsQuota ==
  ASSUME IInv, QuotaInv, NEW r \in Requests, Take(r)
  PROVE  QuotaInv'
<1>. DEFINE shelf == Shelf(r)
            team  == TeamIs(r)
            live  == Live(shelf, team, now)
            entry == [shelf |-> shelf, team |-> team, req |-> r, time |-> now]
            rest  == {e \in window : e.shelf # shelf \/ e.team # team}
<1>1. Windows /\ now \in Nat /\ Limit[team] \in Nat /\ team \in Teams
  <2>1. at[r] = "asking"
    BY DEF Take
  <2>2. team \in Teams
    BY <2>1, FrontDoorAssumption DEF IInv, RInv, Early, FromProxy, TeamIs
  <2>. QED
    BY <2>2, Numbers DEF IInv, Windows
<1>2. \A e \in window : e.shelf # shelf \/ e.team # team \/ now < e.time + Window => e \in rest \cup live
  <2>1. ASSUME NEW e \in window, e.shelf = shelf, e.team = team, now < e.time + Window
        PROVE  e \in live
    <3>1. e.time \in Nat
      BY <1>1 DEF Windows
    <3>2. e.time + Window > now
      BY <1>1, <2>1, <3>1, Numbers
    <3>. QED
      BY <2>1, <3>2 DEF Live
  <2>. QED
    BY <2>1
<1>3. Cardinality(live) \in Nat
  BY <1>1, LiveIsHeld DEF QuotaInv
<1>4. CASE Cardinality(live) >= Limit[team]
  <2>. DEFINE t0 == [shelf |-> shelf, team |-> team, at |-> now, wait |-> Wait(live)]
  <2>1. window' = rest \cup live /\ told' = told \cup {t0} /\ passed' = passed /\ now' = now
    BY <1>4 DEF Take
  <2>2. t0.shelf = shelf /\ t0.team = team /\ t0.at = now /\ t0.wait = Wait(live)
    OBVIOUS
  <2>3. /\ t0.wait \in Nat \ {0}
        /\ Cardinality(Held(passed, shelf, team, now + t0.wait, now)) < Limit[team]
        /\ Cardinality(Held(passed, shelf, team, now + t0.wait - 1, now)) >= Limit[team]
    <3>. HIDE DEF t0
    <3>. QED
      BY <1>1, <1>4, <2>2, WaitFits
  <2>. HIDE DEF t0
  <2>4. ToldRight(t0)
    BY <1>1, <2>2, <2>3 DEF ToldRight
  <2>. HIDE DEF live, rest, shelf, team
  <2>5. ASSUME NEW t \in told'
        PROVE  ToldRight(t)'
    <3>1. ToldRight(t)
      BY <2>1, <2>4 DEF QuotaInv
    <3>. QED
      BY <2>1, <3>1 DEF ToldRight
  <2>6. Kept'
    BY <1>2, <2>1 DEF QuotaInv, Kept
  <2>7. Bounded'
    BY <2>1 DEF QuotaInv, Bounded
  <2>. QED
    BY <2>5, <2>6, <2>7 DEF QuotaInv
<1>5. CASE ~(Cardinality(live) >= Limit[team])
  <2>1. /\ window' = rest \cup live \cup {entry} /\ passed' = passed \cup {entry}
        /\ now' = now /\ told' = told
    BY <1>5 DEF Take
  <2>2. entry.shelf = shelf /\ entry.team = team /\ entry.time = now
    OBVIOUS
  <2>3. Cardinality(live) < Limit[team]
    BY <1>1, <1>3, <1>5
  <2>4. /\ entry \in window'
        /\ \A e \in window : e.shelf # shelf \/ e.team # team \/ now < e.time + Window => e \in window'
    BY <1>2, <2>1
  <2>. HIDE DEF entry, rest, shelf, team
  <2>. QED
    BY <1>1, <2>1, <2>2, <2>3, <2>4, LetThrough
<1>. QED
  BY <1>4, <1>5

\* Time only lets requests out of the windows.
LEMMA TickKeepsQuota ==
  ASSUME IInv, QuotaInv, Tick
  PROVE  QuotaInv'
<1>1. /\ now \in Nat /\ Window \in Nat /\ \A t \in Teams : Limit[t] \in Nat
      /\ \A e \in passed : e.time \in 0 .. now
      /\ now' = now + 1 /\ window' = window /\ passed' = passed /\ told' = told /\ IsFiniteSet(passed)
  BY Numbers DEF IInv, Windows, QuotaInv, Kept, Tick, quotaVars
<1>2. ASSUME NEW e \in passed, now + 1 < e.time + Window
      PROVE  now < e.time + Window
  <2>1. e.time \in Nat
    BY <1>1
  <2>. QED
    BY <1>1, <1>2, <2>1
<1>3. Kept'
  BY <1>1, <1>2 DEF QuotaInv, Kept
<1>4. Bounded'
  <2>1. ASSUME NEW s, NEW t \in Teams, NEW time \in 0 .. now + 1
        PROVE  Cardinality(Held(passed, s, t, time, time)) <= Limit[t]
    <3>1. CASE time \in 0 .. now
      BY <3>1 DEF QuotaInv, Bounded
    <3>2. CASE time = now + 1
      <4>1. Held(passed, s, t, now + 1, now + 1) \subseteq Held(passed, s, t, now, now)
        <5>1. \A e \in passed : e.time <= now
          BY <1>1
        <5>. QED
          BY <1>2, <5>1 DEF Held
      <4>2. IsFiniteSet(Held(passed, s, t, now, now))
        BY <1>1, HeldFacts
      <4>3. Cardinality(Held(passed, s, t, now, now)) <= Limit[t]
        <5>1. now \in 0 .. now
          BY <1>1
        <5>. QED
          BY <5>1 DEF QuotaInv, Bounded
      <4>. DEFINE old == Held(passed, s, t, now, now)
                  new == Held(passed, s, t, now + 1, now + 1)
      <4>4. Cardinality(new) <= Cardinality(old) /\ Cardinality(new) \in Nat /\ Cardinality(old) \in Nat
        <5>. HIDE DEF old, new
        <5>. QED
          BY <4>1, <4>2, Fewer DEF old, new
      <4>5. Limit[t] \in Nat
        BY <1>1
      <4>6. Cardinality(new) <= Limit[t]
        <5>1. Cardinality(old) <= Limit[t]
          BY <4>3
        <5>. HIDE DEF old, new
        <5>. QED
          BY <4>4, <4>5, <5>1
      <4>. QED
        BY <3>2, <4>6
    <3>. QED
      BY <1>1, <3>1, <3>2
  <2>. QED
    BY <1>1, <2>1 DEF Bounded
<1>5. ASSUME NEW t \in told
      PROVE  ToldRight(t)'
  <2>1. ToldRight(t)
    BY DEF QuotaInv
  <2>2. t.at \in 0 .. now'
    BY <1>1, <2>1 DEF ToldRight
  <2>. QED
    BY <1>1, <2>1, <2>2 DEF ToldRight
<1>. QED
  BY <1>1, <1>3, <1>4, <1>5 DEF QuotaInv

\* A worker that starts again knows nothing of its window; the other windows are as they were.
LEMMA RestartKeepsQuota ==
  ASSUME IInv, QuotaInv, NEW w \in Workers, Restart(w)
  PROVE  QuotaInv'
<1>1. /\ window' = {e \in window : e.shelf # w} /\ passed' = {e \in passed : e.shelf # w}
      /\ told' = {e \in told : e.shelf # w} /\ now' = now
  BY DEF Restart
<1>2. IsFiniteSet(passed')
  <2>1. passed' \subseteq passed
    BY <1>1
  <2>. QED
    BY <2>1, FS_Subset DEF QuotaInv, Kept
<1>3. Kept'
  BY <1>1, <1>2 DEF QuotaInv, Kept
<1>4. ASSUME NEW s, s # w, NEW t, NEW from, NEW to
      PROVE  Held(passed', s, t, from, to) = Held(passed, s, t, from, to)
  BY <1>1, <1>4 DEF Held
<1>5. ASSUME NEW t, NEW from, NEW to
      PROVE  Held(passed', w, t, from, to) = {}
  BY <1>1 DEF Held
<1>6. Bounded'
  <2>1. ASSUME NEW s, NEW t \in Teams, NEW time \in 0 .. now
        PROVE  Cardinality(Held(passed', s, t, time, time)) <= Limit[t]
    <3>1. CASE s = w
      <4>1. Cardinality(Held(passed', s, t, time, time)) = 0
        BY <1>5, <3>1, FS_EmptySet
      <4>. QED
        BY <4>1, Numbers
    <3>2. CASE s # w
      BY <1>4, <3>2 DEF QuotaInv, Bounded
    <3>. QED
      BY <3>1, <3>2
  <2>. QED
    BY <1>1, <2>1 DEF Bounded
<1>7. ASSUME NEW t \in told'
      PROVE  ToldRight(t)'
  <2>1. t \in told /\ t.shelf # w
    BY <1>1
  <2>2. ToldRight(t)
    BY <2>1 DEF QuotaInv
  <2>. QED
    BY <1>1, <1>4, <2>1, <2>2 DEF ToldRight
<1>. QED
  BY <1>3, <1>6, <1>7 DEF QuotaInv

LEMMA QuotaInvariance == Spec => []QuotaInv
<1>1. Init => QuotaInv
  <2>1. SUFFICES ASSUME Init
                 PROVE  QuotaInv
    OBVIOUS
  <2>2. now = 0 /\ passed = {} /\ told = {}
    BY <2>1 DEF Init
  <2>3. Kept
    BY <2>2, FS_EmptySet DEF Kept
  <2>4. ASSUME NEW s, NEW t \in Teams, NEW time \in 0 .. now
        PROVE  Cardinality(Held(passed, s, t, time, time)) <= Limit[t]
    <3>1. Held(passed, s, t, time, time) = {}
      BY <2>2 DEF Held
    <3>2. Cardinality(Held(passed, s, t, time, time)) = 0
      BY <3>1, FS_EmptySet
    <3>. QED
      BY <3>2, Numbers
  <2>. QED
    BY <2>2, <2>3, <2>4 DEF QuotaInv, Bounded
<1>2. IInv /\ QuotaInv /\ [Next]_vars => QuotaInv'
  <2>1. SUFFICES ASSUME IInv, QuotaInv, [Next]_vars
                 PROVE  QuotaInv'
    OBVIOUS
  <2>2. CASE UNCHANGED <<now, window, passed, told>>
    BY <2>1, <2>2 DEF QuotaInv, Kept, Bounded, ToldRight
  <2>3. ASSUME NEW r \in Requests,
               \/ \E w \in Workers, a \in scene.asks : Arrive(r, w, a)
               \/ \E a \in scene.asks : LibraryCall(r, a)
               \/ Handle(r) \/ Call(r) \/ Refuses(r) \/ Return(r) \/ Quit(r)
        PROVE  UNCHANGED <<now, window, passed, told>>
    BY <2>3 DEF Arrive, LibraryCall, Handle, Call, Refuses, Return, Quit, quotaVars
  <2>4. UNCHANGED vars => UNCHANGED <<now, window, passed, told>>
    BY DEF vars, quotaVars
  <2>. QED
    BY <2>1, <2>2, <2>3, <2>4, TakeKeepsQuota, TickKeepsQuota, RestartKeepsQuota DEF Next
<1>. QED
  BY <1>1, <1>2, Invariance, PTL DEF Spec

\* For every window, limit, number of requests and of workers: no sixty seconds hold more than
\* the limit, and who is refused is told the shortest wait that would do, whoever comes after
\* (RequestQuota.take, and the script Redis runs).
THEOREM QuotaExact == Spec => []QuotaIsExact
<1>1. ASSUME IInv, QuotaInv
      PROVE  QuotaIsExact
  <2>1. MinuteIsBounded
    <3>1. ASSUME NEW shelf \in Workers \cup {Shared}, NEW team \in Teams, NEW time \in 0 .. now
          PROVE  Cardinality({e \in passed : /\ e.shelf = shelf /\ e.team = team
                                             /\ time < e.time + Window /\ e.time <= time}) <= Limit[team]
      <4>1. {e \in passed : /\ e.shelf = shelf /\ e.team = team
                            /\ time < e.time + Window /\ e.time <= time}
              = Held(passed, shelf, team, time, time)
        BY DEF Held
      <4>2. Cardinality(Held(passed, shelf, team, time, time)) <= Limit[team]
        BY <1>1 DEF QuotaInv, Bounded
      <4>. QED
        BY <4>1, <4>2
    <3>. QED
      BY <3>1 DEF MinuteIsBounded
  <2>2. WaitIsRight
    <3>1. ASSUME NEW t \in told
          PROVE  LET held(time) == {e \in passed : /\ e.shelf = t.shelf /\ e.team = t.team
                                                   /\ e.time <= t.at /\ time < e.time + Window}
                 IN  /\ Cardinality(held(t.at + t.wait)) < Limit[t.team]
                     /\ t.wait > 0 /\ Cardinality(held(t.at + t.wait - 1)) >= Limit[t.team]
      <4>1. ToldRight(t)
        BY <1>1 DEF QuotaInv
      <4>2. t.wait > 0
        BY <4>1 DEF ToldRight
      <4>. QED
        BY <4>1, <4>2 DEF ToldRight, Held
    <3>. QED
      BY <3>1 DEF WaitIsRight
  <2>. QED
    BY <2>1, <2>2 DEF QuotaIsExact
<1>. QED
  BY <1>1, Invariance, QuotaInvariance, PTL

-----------------------------------------------------------------------------
(* The residency report.  It is read from the rows and not from what was   *)
(* sent: that the row of a call that went out still says where it went,    *)
(* and that no cache answered it, is what the report rests on.             *)

Placed(r) == sent[r] # None => ~row[r].cached /\ row[r].provider = target[r].provider

AllPlaced == \A r \in Requests : Placed(r)

\* A request that a step leaves as it was is placed as it was.
LEMMA SamePlaced ==
  ASSUME NEW x \in Requests, Placed(x), row'[x] = row[x], sent'[x] = sent[x], target'[x] = target[x]
  PROVE  Placed(x)'
BY DEF Placed

\* Each step keeps the rows of what was sent as they have to be.
LEMMA PlacedKept ==
  ASSUME IInv, AllPlaced, [Next]_vars
  PROVE  AllPlaced'
<1>1. Shapes /\ \A r \in Requests : RInv(r) /\ Placed(r)
  BY DEF IInv, AllPlaced
<1>2. CASE UNCHANGED <<row, sent, target>>
  BY <1>2 DEF AllPlaced, Placed
\* Before a call is made nothing of it has gone out.
<1>3. ASSUME NEW r \in Requests, at[r] \in {"idle", "asking", "through"}, sent' = sent,
             \A x \in Requests \ {r} : row'[x] = row[x] /\ target'[x] = target[x]
      PROVE  AllPlaced'
  <2>1. sent'[r] = None
    BY <1>1, <1>3 DEF RInv, Early
  <2>2. Placed(r)'
    BY <2>1 DEF Placed
  <2>3. \A x \in Requests \ {r} : Placed(x)'
    BY <1>1, <1>3, SamePlaced
  <2>. QED
    BY <2>2, <2>3 DEF AllPlaced
<1>4. ASSUME NEW r \in Requests, NEW w \in Workers, NEW a \in scene.asks, Arrive(r, w, a)
      PROVE  AllPlaced'
  BY <1>2, <1>4 DEF Arrive
<1>5. ASSUME NEW r \in Requests, NEW a \in scene.asks, LibraryCall(r, a)
      PROVE  AllPlaced'
  BY <1>1, <1>3, <1>5 DEF LibraryCall, Shapes
<1>6. ASSUME NEW r \in Requests, Take(r)
      PROVE  AllPlaced'
  BY <1>2, <1>6 DEF Take, callVars
<1>7. ASSUME NEW r \in Requests, Handle(r)
      PROVE  AllPlaced'
  <2>1. at[r] = "through" /\ sent' = sent /\ \A x \in Requests \ {r} : target'[x] = target[x]
    BY <1>1, <1>7 DEF Handle, Shapes
  <2>2. \A x \in Requests \ {r} : row'[x] = row[x]
    BY <1>1, <1>7 DEF Handle, Refuse, Shapes
  <2>. QED
    BY <1>3, <2>1, <2>2
<1>8. ASSUME NEW r \in Requests, Call(r)
      PROVE  AllPlaced'
  <2>1. at[r] = "calling" /\ target' = target
    BY <1>8 DEF Call
  <2>2. sent[r] = None
    BY <1>1, <2>1 DEF RInv, Early
  <2>3. \/ sent' = sent /\ \A x \in Requests \ {r} : row'[x] = row[x]
        \/ /\ row' = [row EXCEPT ![r] = Begun(r)]
           /\ \A x \in Requests \ {r} : row'[x] = row[x] /\ sent'[x] = sent[x]
    BY <1>1, <1>8 DEF Call, Refuse, Shapes
  <2>4. Placed(r)'
    <3>1. CASE sent' = sent
      BY <2>2, <3>1 DEF Placed
    <3>2. CASE row' = [row EXCEPT ![r] = Begun(r)]
      <4>1. row'[r] = Begun(r)
        BY <1>1, <3>2 DEF Shapes
      <4>2. ~Begun(r).cached /\ Begun(r).provider = target[r].provider
        BY DEF Begun
      <4>. QED
        BY <2>1, <4>1, <4>2 DEF Placed
    <3>. QED
      BY <2>3, <3>1, <3>2
  <2>5. \A x \in Requests \ {r} : Placed(x)'
    BY <1>1, <2>1, <2>3, SamePlaced
  <2>. QED
    BY <2>4, <2>5 DEF AllPlaced
<1>9. ASSUME NEW r \in Requests, Return(r)
      PROVE  AllPlaced'
  <2>1. /\ at[r] = "sent" /\ target' = target /\ sent' = sent
        /\ \/ row' = [row EXCEPT ![r].state = "complete"]
           \/ row' = [row EXCEPT ![r].state = "complete", ![r].error = "http"]
    BY <1>9 DEF Return
  <2>2. row[r] \in Rows
    BY <1>1, <2>1 DEF RInv
  <2>3. row'[r].cached = row[r].cached /\ row'[r].provider = row[r].provider
    <3>1. CASE row' = [row EXCEPT ![r].state = "complete"]
      <4>1. row'[r] = [row[r] EXCEPT !.state = "complete"]
        BY <1>1, <3>1 DEF Shapes
      <4>. QED
        BY <2>2, <4>1 DEF Rows
    <3>2. CASE row' = [row EXCEPT ![r].state = "complete", ![r].error = "http"]
      <4>1. row'[r] = [row[r] EXCEPT !.state = "complete", !.error = "http"]
        BY <1>1, <3>2 DEF Shapes
      <4>. QED
        BY <2>2, <4>1 DEF Rows
    <3>. QED
      BY <2>1, <3>1, <3>2
  <2>4. Placed(r)'
    BY <1>1, <2>1, <2>3 DEF Placed
  <2>5. \A x \in Requests \ {r} : row'[x] = row[x]
    BY <1>1, <2>1 DEF Shapes
  <2>6. \A x \in Requests \ {r} : Placed(x)'
    BY <1>1, <2>1, <2>5, SamePlaced
  <2>. QED
    BY <2>4, <2>6 DEF AllPlaced
<1>10. ASSUME NEW w \in Workers, Restart(w)
       PROVE  AllPlaced'
  BY <1>2, <1>10 DEF Restart, callVars
<1>11. CASE Tick
  BY <1>2, <1>11 DEF Tick, callVars
<1>12. CASE UNCHANGED vars
  BY <1>2, <1>12 DEF vars, callVars
<1>13. ASSUME NEW r \in Requests, Quit(r)
       PROVE  AllPlaced'
  BY <1>2, <1>13 DEF Quit, callVars
<1>14. ASSUME NEW r \in Requests, Refuses(r)
       PROVE  AllPlaced'
  <2>1. /\ sent[r] = None /\ sent' = sent /\ target' = target
        /\ \A x \in Requests \ {r} : row'[x] = row[x]
    BY <1>1, <1>14 DEF Refuses, RInv, Refusing, Shapes
  <2>2. Placed(r)'
    BY <2>1 DEF Placed
  <2>3. \A x \in Requests \ {r} : Placed(x)'
    BY <1>1, <2>1, SamePlaced
  <2>. QED
    BY <2>2, <2>3 DEF AllPlaced
<1>. QED
  BY <1>4, <1>5, <1>6, <1>7, <1>8, <1>9, <1>10, <1>11, <1>12, <1>13, <1>14 DEF Next

LEMMA PlacedInvariance == Spec => []AllPlaced
<1>1. Init => AllPlaced
  BY DEF Init, AllPlaced, Placed
<1>2. IInv /\ AllPlaced /\ [Next]_vars => AllPlaced'
  BY PlacedKept
<1>. QED
  BY <1>1, <1>2, Invariance, PTL DEF Spec

\* What is undeclared, or declared in a word not known, reaches further than any limit.
LEMMA ReachFacts ==
  /\ \A x : x \notin Known => Reach(x) = 3
  /\ \A x \in Known : Reach(x) \in 0 .. 2
<1>1. \A x : x \notin Known => Reach(x) = 3
  BY DEF Known, Reach
<1>2. Reach("single-region") = 0 /\ Reach("geo") = 1 /\ Reach("global") = 2
  BY DEF Reach
<1>. QED
  BY <1>1, <1>2 DEF Known

\* The group of a call that was sent has more calls than the cache answered.
LEMMA GroupHasSent ==
  ASSUME IInv, AllPlaced, NEW r \in Requests, sent[r] # None
  PROVE  \E g \in Summarise(row[r].class) : g.of = GroupOf(r) /\ SentOf(g) > 0
<1>. DEFINE in     == {k \in Matching(row[r].class) : GroupOf(k) = GroupOf(r)}
            cached == {k \in in : row[k].cached}
            g      == [of |-> GroupOf(r), calls |-> Cardinality(in), cached |-> Cardinality(cached)]
<1>1. r \in Matching(row[r].class) /\ ~row[r].cached
  BY DEF IInv, RInv, OnTheWire, AllPlaced, Placed, Matching
<1>2. g \in Summarise(row[r].class)
  BY <1>1 DEF Summarise
<1>3. IsFiniteSet(in)
  <2>1. in \subseteq Requests /\ IsFiniteSet(Requests)
    BY FrontDoorAssumption DEF Matching
  <2>. QED
    BY <2>1, FS_Subset
<1>4. cached \subseteq in /\ cached # in
  BY <1>1
<1>5. g.of = GroupOf(r) /\ g.calls = Cardinality(in) /\ g.cached = Cardinality(cached)
  OBVIOUS
<1>6. SentOf(g) > 0
  <2>. HIDE DEF in, cached, g
  <2>1. /\ Cardinality(in) \in Nat /\ Cardinality(cached) \in Nat
        /\ Cardinality(cached) < Cardinality(in)
    BY <1>3, <1>4, Fewer
  <2>. QED
    BY <1>5, <2>1 DEF SentOf
<1>. HIDE DEF g
<1>. QED
  BY <1>2, <1>5, <1>6

\* For every map of providers and every number of calls, a call that was sent further than a
\* limit is in a group that the limit's check names (ResidencyReport.violations, reach).
THEOREM ReportIsComplete == Spec => []ReportMissesNothing
<1>1. ASSUME IInv, AllPlaced
      PROVE  ReportMissesNothing
  <2>1. ASSUME NEW r \in Requests, sent[r] # None, NEW limit \in Known,
               ~(/\ Providers[target[r].provider].residency \in Known
                 /\ Reach(Providers[target[r].provider].residency) <= Reach(limit))
        PROVE  \E g \in Violations(Summarise(row[r].class), limit) : g.of = GroupOf(r)
    <3>. DEFINE residency == Providers[target[r].provider].residency
    <3>1. PICK g \in Summarise(row[r].class) : g.of = GroupOf(r) /\ SentOf(g) > 0
      BY <1>1, <2>1, GroupHasSent
    <3>2. row[r].provider = target[r].provider
      BY <1>1, <2>1 DEF AllPlaced, Placed
    <3>3. g.of[3] = residency
      BY <3>1, <3>2 DEF GroupOf
    <3>4. Reach(residency) > Reach(limit)
      <4>1. ~(residency \in Known /\ Reach(residency) <= Reach(limit))
        BY <2>1
      <4>. HIDE DEF residency
      <4>2. Reach(limit) \in 0 .. 2
        BY ReachFacts
      <4>3. CASE residency \in Known
        <5>1. Reach(residency) \in 0 .. 2
          BY <4>3, ReachFacts
        <5>2. ~(Reach(residency) <= Reach(limit))
          BY <4>1, <4>3
        <5>. QED
          BY <4>2, <5>1, <5>2
      <4>4. CASE residency \notin Known
        BY <4>2, <4>4, ReachFacts
      <4>. QED
        BY <4>3, <4>4
    <3>. HIDE DEF residency
    <3>5. Reach(g.of[3]) > Reach(limit)
      BY <3>3, <3>4
    <3>. QED
      BY <3>1, <3>5 DEF Violations
  <2>. QED
    BY <2>1 DEF ReportMissesNothing
<1>. QED
  BY <1>1, Invariance, PlacedInvariance, PTL
=============================================================================
