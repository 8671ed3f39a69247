------------------------ MODULE GatewayLedgerProofs ------------------------
(***************************************************************************)
(* Theorems about GatewayLedger for every value of its constants.  The     *)
(* inductive invariant is IInv: what the call that holds the admission     *)
(* lock has already checked stays true until its row is written, because   *)
(* no one else can reserve and the others only settle.  SumsInv says the   *)
(* same of the caps that are sums over rows.                               *)
(***************************************************************************)
EXTENDS GatewayLedger, SetTheorems, TLAPS

\* The steps between taking the admission lock and letting it go.
Inside == Scopes \cup {"insert"}

\* Where a call is decides what it is and what of it has been set.
Progress ==
  \A c \in Calls :
    /\ pc[c] # "new" => stamp[c] \in Days /\ stamp[c] <= today
    /\ pc[c] \in {"queued"} \cup Inside => asked[c] \in Days /\ stamp[c] <= asked[c]
                                             /\ asked[c] <= today
    /\ pc[c] \in {"stamped"} \cup Inside => req[c].kind # "local"
    /\ pc[c] = "queued" => req[c].kind = "chat"
    /\ pc[c] \in {"new", "stamped", "queued", "local", "denied"} \cup Inside => row[c] = NoRow
    /\ pc[c] = "closing" => row[c] = [state |-> "in_flight", cost |-> 0]
    /\ c \in sent => pc[c] \in {"sent", "done", "lost"}
    /\ row[c].state # "none" => stamp[c] \in Days /\ stamp[c] <= today

\* A chat is between the lock and its release exactly when it is the one holder.
Exclusive ==
  /\ \A c \in holder : pc[c] \in Inside /\ req[c].kind = "chat"
  /\ \A c \in Calls : pc[c] \in Inside /\ req[c].kind = "chat" => c \in holder
  /\ \A c, o \in holder : c = o

\* What the holder's first check established still holds.
Room ==
  \A c \in holder :
    pc[c] # "project" =>
      ledgerSpend[AskedAccount(c)] + Estimate(c)
        <= ProjectCap[Project(c)] + unreserved[AskedAccount(c)]

IInv == TypeOK /\ Progress /\ Exclusive /\ Room /\ ProjectCapHolds /\ NothingEscapes
-----------------------------------------------------------------------------
\* What the types say of the parts of one call.
LEMMA Facts ==
  ASSUME TypeOK, NEW c \in Calls
  PROVE  /\ req[c].kind \in {"chat", "raw", "local"}
         /\ Project(c) \in Projects
         /\ Estimate(c) \in Nat
         /\ Reserve(c) \in Nat \cup {NoCost}
         /\ req[c].kind = "chat" => Estimate(c) = Coalesce(Reserve(c))
         /\ stamp[c] \in Days => Account(c) \in Projects \X Months
         /\ asked[c] \in Days => AskedAccount(c) \in Projects \X Months
<1>1. req[c] \in AllRequests
  BY ConstantsAssumption DEF TypeOK
<1>2. req[c].estimate \in Nat
  BY <1>1, ConstantsAssumption DEF AllRequests
<1>. QED
  BY <1>1, <1>2 DEF AllRequests, Project, Estimate, Reserve, Coalesce, NoCost,
                    Account, AskedAccount, Month, Months

LEMMA InitInv == Init => IInv
<1>. SUFFICES ASSUME Init PROVE IInv
  OBVIOUS
<1>. USE ConstantsAssumption DEF Init
<1>1. TypeOK
  BY DEF TypeOK, Days, PCs, NoRow, RowStates, NoDay, NoCost
<1>2. Progress
  BY DEF Progress, Inside, Scopes, NoRow
<1>3. Exclusive
  BY DEF Exclusive, Inside, Scopes
<1>4. Room
  BY DEF Room
<1>5. ProjectCapHolds
  BY DEF ProjectCapHolds
<1>6. NothingEscapes
  BY DEF NothingEscapes
<1>. QED
  BY <1>1, <1>2, <1>3, <1>4, <1>5, <1>6 DEF IInv

\* A step that writes no row and takes no lock keeps everything said about the accounts.
LEMMA StampInv ==
  ASSUME IInv, NEW c \in Calls, Stamp(c)
  PROVE  IInv'
<1>. USE DEF Stamp, Goto, IInv
<1>1. TypeOK'
  BY DEF TypeOK, PCs, Settled
<1>2. Progress'
  BY DEF Progress, TypeOK, Inside, Scopes, NoRow, Days
<1>3. Exclusive'
  BY DEF Exclusive, Inside, Scopes, TypeOK
<1>4. Room'
  BY DEF Room, Project, AskedAccount, Estimate, TypeOK, Exclusive, Inside, Scopes
<1>5. ProjectCapHolds'
  BY DEF ProjectCapHolds
<1>6. NothingEscapes'
  BY DEF NothingEscapes, Reserve, TypeOK
<1>. QED
  BY <1>1, <1>2, <1>3, <1>4, <1>5, <1>6

LEMMA ReadClockInv ==
  ASSUME IInv, NEW c \in Calls, ReadClock(c)
  PROVE  IInv'
<1>. USE DEF ReadClock, Goto, IInv
<1>1. TypeOK'
  BY DEF TypeOK, PCs, Settled, Scopes, After
<1>2. Progress'
  BY Facts DEF Progress, TypeOK, Inside, Scopes, NoRow, After, Days
<1>3. Exclusive'
  BY DEF Exclusive, Inside, Scopes, TypeOK, After, Progress
<1>4. Room'
  BY Facts DEF Room, Project, AskedAccount, Estimate, TypeOK, Exclusive, Inside, Scopes, After, Progress
<1>5. ProjectCapHolds'
  BY DEF ProjectCapHolds
<1>6. NothingEscapes'
  BY DEF NothingEscapes, Reserve, TypeOK, Progress, Inside, Scopes, After, NoRow
<1>. QED
  BY <1>1, <1>2, <1>3, <1>4, <1>5, <1>6

LEMMA AcquireInv ==
  ASSUME IInv, NEW c \in Calls, Acquire(c)
  PROVE  IInv'
<1>. USE DEF Acquire, Goto, IInv
<1>1. TypeOK'
  BY DEF TypeOK, PCs, Settled, Scopes, After
<1>2. Progress'
  BY DEF Progress, TypeOK, Inside, Scopes, NoRow, After, Days
<1>3. Exclusive'
  BY DEF Exclusive, Inside, Scopes, TypeOK, After, Progress
<1>4. Room'
  BY DEF Room, Project, AskedAccount, Estimate, TypeOK, Exclusive, Inside, Scopes, After, Progress
<1>5. ProjectCapHolds'
  BY DEF ProjectCapHolds
<1>6. NothingEscapes'
  BY DEF NothingEscapes, Reserve, TypeOK, Progress, Inside, Scopes, After, NoRow
<1>. QED
  BY <1>1, <1>2, <1>3, <1>4, <1>5, <1>6

LEMMA CheckCapInv ==
  ASSUME IInv, NEW c \in Calls, CheckCap(c)
  PROVE  IInv'
<1>. USE DEF CheckCap, Goto, IInv
<1>1. TypeOK'
  BY DEF TypeOK, PCs, Settled, Scopes, After
<1>2. Progress'
  BY DEF Progress, TypeOK, Inside, Scopes, NoRow, After, Days
<1>3. Exclusive'
  BY DEF Exclusive, Inside, Scopes, TypeOK, After, Progress
<1>4. Room'
  <2>. SUFFICES ASSUME NEW h \in holder, pc'[h] # "project"
                PROVE  ledgerSpend[AskedAccount(h)] + Estimate(h)
                         <= ProjectCap[Project(h)] + unreserved[AskedAccount(h)]
    BY DEF Room, AskedAccount, Estimate, Project
  <2>1. CASE h = c /\ pc[c] = "project"
    <3>1. ledgerSpend[AskedAccount(c)] + Estimate(c) <= ProjectCap[Project(c)]
      BY <2>1 DEF Fits, SpendUsd, CapUsd
    <3>2. AskedAccount(c) \in Projects \X Months
      BY <2>1, Facts DEF Progress, Inside, Scopes, AskedAccount
    <3>. QED
      BY <2>1, <3>1, <3>2, Facts, ConstantsAssumption DEF TypeOK
  <2>2. CASE ~ (h = c /\ pc[c] = "project")
    BY <2>2 DEF Room, TypeOK
  <2>. QED
    BY <2>1, <2>2
<1>5. ProjectCapHolds'
  BY DEF ProjectCapHolds
<1>6. NothingEscapes'
  BY DEF NothingEscapes, Reserve, TypeOK, Progress, Inside, Scopes, After, NoRow
<1>. QED
  BY <1>1, <1>2, <1>3, <1>4, <1>5, <1>6

LEMMA DenyInv ==
  ASSUME IInv, NEW c \in Calls, Deny(c)
  PROVE  IInv'
<1>. USE DEF Deny, Goto, IInv
<1>1. TypeOK'
  BY DEF TypeOK, PCs, Settled, Scopes, After
<1>2. Progress'
  BY DEF Progress, TypeOK, Inside, Scopes, NoRow, After, Days
<1>3. Exclusive'
  BY DEF Exclusive, Inside, Scopes, TypeOK, After, Progress
<1>4. Room'
  BY DEF Room, Project, AskedAccount, Estimate, TypeOK, Exclusive, Inside, Scopes, After, Progress
<1>5. ProjectCapHolds'
  BY DEF ProjectCapHolds
<1>6. NothingEscapes'
  BY DEF NothingEscapes, Reserve, TypeOK, Progress, Inside, Scopes, After, NoRow
<1>. QED
  BY <1>1, <1>2, <1>3, <1>4, <1>5, <1>6

LEMMA SendInv ==
  ASSUME IInv, NEW c \in Calls, Send(c)
  PROVE  IInv'
<1>. USE DEF Send, Goto, IInv
<1>1. TypeOK'
  BY DEF TypeOK, PCs, Settled, Scopes, After
<1>2. Progress'
  BY DEF Progress, TypeOK, Inside, Scopes, NoRow, After, Days
<1>3. Exclusive'
  BY DEF Exclusive, Inside, Scopes, TypeOK, After, Progress
<1>4. Room'
  BY DEF Room, Project, AskedAccount, Estimate, TypeOK, Exclusive, Inside, Scopes, After, Progress
<1>5. ProjectCapHolds'
  BY DEF ProjectCapHolds
<1>6. NothingEscapes'
  BY DEF NothingEscapes, Reserve, TypeOK, Progress, Inside, Scopes, After, NoRow
<1>. QED
  BY <1>1, <1>2, <1>3, <1>4, <1>5, <1>6

LEMMA AbandonInv ==
  ASSUME IInv, NEW c \in Calls, Abandon(c)
  PROVE  IInv'
<1>. USE DEF Abandon, Goto, IInv
<1>1. TypeOK'
  BY DEF TypeOK, PCs, Settled, Scopes, After
<1>2. Progress'
  BY DEF Progress, TypeOK, Inside, Scopes, NoRow, After, Days
<1>3. Exclusive'
  BY DEF Exclusive, Inside, Scopes, TypeOK, After, Progress
<1>4. Room'
  BY DEF Room, Project, AskedAccount, Estimate, TypeOK, Exclusive, Inside, Scopes, After, Progress
<1>5. ProjectCapHolds'
  BY DEF ProjectCapHolds
<1>6. NothingEscapes'
  BY DEF NothingEscapes, Reserve, TypeOK, Progress, Inside, Scopes, After, NoRow
<1>. QED
  BY <1>1, <1>2, <1>3, <1>4, <1>5, <1>6

\* A row's cost may move an account by no more than it adds to what no check covered:
\* then the holder's room, and the cap, survive.
LEMMA Covered ==
  ASSUME IInv, TypeOK',
         UNCHANGED <<req, asked>>, holder' \subseteq holder,
         \A h \in holder' : pc'[h] = pc[h],
         NEW k \in Projects \X Months, NEW d \in Int, NEW u \in Nat, d <= u,
         ledgerSpend' = [ledgerSpend EXCEPT ![k] = @ + d],
         unreserved' = [unreserved EXCEPT ![k] = @ + u]
  PROVE  Room' /\ ProjectCapHolds'
<1>1. \A j \in Projects \X Months :
        /\ ledgerSpend[j] \in Int /\ ledgerSpend'[j] \in Int
        /\ unreserved[j] \in Nat /\ unreserved'[j] \in Nat
        /\ ledgerSpend'[j] - unreserved'[j] <= ledgerSpend[j] - unreserved[j]
  BY DEF IInv, TypeOK
<1>2. ASSUME NEW h \in holder', pc'[h] # "project"
      PROVE  (ledgerSpend[AskedAccount(h)] + Estimate(h)
               <= ProjectCap[Project(h)] + unreserved[AskedAccount(h)])'
  <2>1. /\ ledgerSpend[AskedAccount(h)] + Estimate(h)
             <= ProjectCap[Project(h)] + unreserved[AskedAccount(h)]
        /\ asked[h] \in Days
        /\ h \in Calls
    BY <1>2 DEF IInv, Room, Progress, Exclusive, TypeOK
  <2>2. /\ AskedAccount(h) \in Projects \X Months
        /\ Estimate(h) \in Nat /\ ProjectCap[Project(h)] \in Nat
    BY <2>1, Facts, ConstantsAssumption DEF IInv
  <2>3. /\ AskedAccount(h)' = AskedAccount(h) /\ Estimate(h)' = Estimate(h)
        /\ Project(h)' = Project(h)
    BY DEF AskedAccount, Estimate, Project
  <2>. QED
    BY <1>1, <2>1, <2>2, <2>3
<1>3. ASSUME NEW p \in Projects, NEW m \in Months
      PROVE  ledgerSpend'[<<p, m>>] <= ProjectCap[p] + unreserved'[<<p, m>>]
  <2>1. <<p, m>> \in Projects \X Months /\ ProjectCap[p] \in Nat
    BY ConstantsAssumption
  <2>. QED
    BY <1>1, <2>1 DEF IInv, ProjectCapHolds
<1>. QED
  BY <1>2, <1>3 DEF Room, ProjectCapHolds

LEMMA LocalBeginInv ==
  ASSUME IInv, NEW c \in Calls, LocalBegin(c)
  PROVE  IInv'
<1>. USE DEF LocalBegin, Goto, IInv
<1>0. Account(c) \in Projects \X Months
  BY Facts DEF Progress, Inside, Scopes, NoRow
<1>1. TypeOK'
  BY <1>0, Facts, ConstantsAssumption
     DEF TypeOK, PCs, Settled, BeginRow, Trigger, Coalesce, RowStates, NoCost, Uncovered
<1>2. Progress'
  BY <1>1 DEF Progress, TypeOK, Inside, Scopes, NoRow, BeginRow
<1>3. Exclusive'
  BY DEF Exclusive, Inside, Scopes, TypeOK
<1>4. Room' /\ ProjectCapHolds'
  <2>1. \A h \in holder' : pc'[h] = pc[h]
    BY DEF Exclusive, Inside, Scopes, TypeOK
  <2>2. /\ ledgerSpend' = [ledgerSpend EXCEPT ![Account(c)] = @ + (0)]
        /\ unreserved' = [unreserved EXCEPT ![Account(c)] = @ + 0]
    BY <1>0, Facts DEF BeginRow, Trigger, Coalesce, NoCost, TypeOK, Uncovered
  <2>3. (0) \in Int /\ (0) <= 0
    BY DEF TypeOK, Coalesce, NoCost
  <2>. QED
    BY <1>0, <1>1, <2>1, <2>2, <2>3, Covered
<1>5. NothingEscapes'
  BY Facts DEF NothingEscapes, Reserve, TypeOK, Progress, Inside, Scopes, NoRow, BeginRow
<1>. QED
  BY <1>1, <1>2, <1>3, <1>4, <1>5

LEMMA LocalCompleteInv ==
  ASSUME IInv, NEW c \in Calls, LocalComplete(c)
  PROVE  IInv'
<1>. USE DEF LocalComplete, Goto, IInv
<1>0. Account(c) \in Projects \X Months
  BY Facts DEF Progress, Inside, Scopes, NoRow
<1>1. TypeOK'
  BY <1>0, Facts, ConstantsAssumption
     DEF TypeOK, PCs, Settled, CompleteRow, Trigger, Coalesce, RowStates, NoCost, Uncovered
<1>2. Progress'
  BY <1>1 DEF Progress, TypeOK, Inside, Scopes, NoRow, CompleteRow
<1>3. Exclusive'
  BY DEF Exclusive, Inside, Scopes, TypeOK
<1>4. Room' /\ ProjectCapHolds'
  <2>1. \A h \in holder' : pc'[h] = pc[h]
    BY DEF Exclusive, Inside, Scopes, TypeOK
  <2>2. /\ ledgerSpend' = [ledgerSpend EXCEPT ![Account(c)] = @ + (0 - Coalesce(row[c].cost))]
        /\ unreserved' = [unreserved EXCEPT ![Account(c)] = @ + 0]
    BY <1>0, Facts DEF CompleteRow, Trigger, Coalesce, NoCost, TypeOK, Uncovered
  <2>3. (0 - Coalesce(row[c].cost)) \in Int /\ (0 - Coalesce(row[c].cost)) <= 0
    BY DEF TypeOK, Coalesce, NoCost
  <2>. QED
    BY <1>0, <1>1, <2>1, <2>2, <2>3, Covered
<1>5. NothingEscapes'
  BY Facts DEF NothingEscapes, Reserve, TypeOK, Progress, Inside, Scopes, NoRow, CompleteRow
<1>. QED
  BY <1>1, <1>2, <1>3, <1>4, <1>5

LEMMA FinishCachedInv ==
  ASSUME IInv, NEW c \in Calls, FinishCached(c)
  PROVE  IInv'
<1>. USE DEF FinishCached, Goto, IInv
<1>0. Account(c) \in Projects \X Months
  BY Facts DEF Progress, Inside, Scopes, NoRow
<1>1. TypeOK'
  BY <1>0, Facts, ConstantsAssumption
     DEF TypeOK, PCs, Settled, CompleteRow, Trigger, Coalesce, RowStates, NoCost, Uncovered
<1>2. Progress'
  BY <1>1 DEF Progress, TypeOK, Inside, Scopes, NoRow, CompleteRow
<1>3. Exclusive'
  BY DEF Exclusive, Inside, Scopes, TypeOK
<1>4. Room' /\ ProjectCapHolds'
  <2>1. \A h \in holder' : pc'[h] = pc[h]
    BY DEF Exclusive, Inside, Scopes, TypeOK
  <2>2. /\ ledgerSpend' = [ledgerSpend EXCEPT ![Account(c)] = @ + (0 - Coalesce(row[c].cost))]
        /\ unreserved' = [unreserved EXCEPT ![Account(c)] = @ + 0]
    BY <1>0, Facts DEF CompleteRow, Trigger, Coalesce, NoCost, TypeOK, Uncovered
  <2>3. (0 - Coalesce(row[c].cost)) \in Int /\ (0 - Coalesce(row[c].cost)) <= 0
    BY DEF TypeOK, Coalesce, NoCost
  <2>. QED
    BY <1>0, <1>1, <2>1, <2>2, <2>3, Covered
<1>5. NothingEscapes'
  BY Facts DEF NothingEscapes, Reserve, TypeOK, Progress, Inside, Scopes, NoRow, CompleteRow
<1>. QED
  BY <1>1, <1>2, <1>3, <1>4, <1>5

LEMMA FinishInv ==
  ASSUME IInv, NEW c \in Calls, Finish(c)
  PROVE  IInv'
<1>. USE DEF Finish, Goto, IInv
<1>. DEFINE over(cost) == Coalesce(cost) - Coalesce(row[c].cost)
            more(cost) == IF over(cost) > 0 THEN over(cost) ELSE 0
<1>a. PICK cost \in 0 .. MaxCost \cup {NoCost} :
        CompleteRow(c, cost) /\ Uncovered(c, more(cost))
  OBVIOUS
<1>b. /\ Account(c) \in Projects \X Months
      /\ cost \in Nat \cup {NoCost}
      /\ over(cost) \in Int /\ more(cost) \in Nat /\ over(cost) <= more(cost)
  BY Facts, ConstantsAssumption DEF Progress, Coalesce, NoCost, TypeOK
<1>. HIDE DEF over, more
<1>c. /\ ledgerSpend' = [ledgerSpend EXCEPT ![Account(c)] = @ + over(cost)]
      /\ unreserved' = [unreserved EXCEPT ![Account(c)] = @ + more(cost)]
  BY <1>a, <1>b DEF CompleteRow, Trigger, Uncovered, TypeOK, over, Coalesce, NoCost
<1>1. TypeOK'
  BY <1>a, <1>b, <1>c DEF TypeOK, PCs, Settled, CompleteRow, RowStates
<1>2. Progress'
  BY <1>1, <1>a DEF Progress, TypeOK, Inside, Scopes, NoRow, CompleteRow
<1>3. Exclusive'
  BY DEF Exclusive, Inside, Scopes, TypeOK
<1>4. Room' /\ ProjectCapHolds'
  <2>1. \A h \in holder' : pc'[h] = pc[h]
    BY DEF Exclusive, Inside, Scopes, TypeOK
  <2>. QED
    BY <1>b, <1>c, <1>1, <2>1, Covered
<1>5. NothingEscapes'
  BY <1>a, Facts DEF NothingEscapes, Reserve, TypeOK, Progress, NoRow, CompleteRow
<1>. QED
  BY <1>1, <1>2, <1>3, <1>4, <1>5

\* The one step that reserves.  A chat is the holder, and leaves: no one else's room is
\* at stake, and its own room is what the cap needs.
LEMMA AdmitInv ==
  ASSUME IInv, NEW c \in Calls, Admit(c)
  PROVE  IInv'
<1>. USE DEF Admit, Goto, IInv
<1>. DEFINE cost == IF req[c].kind = "raw" THEN NoCost ELSE Reserve(c)
            late == IF MonthOf[asked[c]] = Month(c) THEN 0 ELSE Coalesce(cost)
<1>a. BeginRow(c, cost) /\ Uncovered(c, late)
  OBVIOUS
<1>b. /\ stamp[c] \in Days /\ asked[c] \in Days
      /\ Account(c) \in Projects \X Months
      /\ cost \in Nat \cup {NoCost} /\ Coalesce(cost) \in Nat /\ late \in Nat
  BY Facts DEF Progress, Inside, Coalesce, NoCost
<1>c. /\ ledgerSpend' = [ledgerSpend EXCEPT ![Account(c)] = @ + Coalesce(cost)]
      /\ unreserved' = [unreserved EXCEPT ![Account(c)] = @ + late]
  <2>1. ledgerSpend[Account(c)] + Coalesce(cost) - 0 = ledgerSpend[Account(c)] + Coalesce(cost)
    BY <1>b DEF TypeOK
  <2>2. Coalesce(NoCost) = 0
    BY DEF Coalesce
  <2>3. ledgerSpend' = [ledgerSpend EXCEPT ![Account(c)] = @ + Coalesce(cost) - Coalesce(NoCost)]
    BY <1>a DEF BeginRow, Trigger
  <2>. QED
    BY <1>a, <2>1, <2>2, <2>3 DEF Uncovered
<1>d. req[c].kind # "chat" => Coalesce(cost) = 0
  BY Facts DEF Coalesce, Progress, Inside
<1>1. TypeOK'
  BY <1>a, <1>b, <1>c DEF TypeOK, PCs, Settled, BeginRow, RowStates
<1>2. Progress'
  BY <1>1, <1>a, <1>b DEF Progress, TypeOK, Inside, Scopes, NoRow, BeginRow
<1>3. Exclusive'
  BY DEF Exclusive, Inside, Scopes, TypeOK
<1>4. Room' /\ ProjectCapHolds'
  <2>1. CASE req[c].kind = "chat"
    <3>1. holder = {c} /\ holder' = {}
      BY <2>1 DEF Exclusive, Inside
    <3>2. Room'
      BY <3>1 DEF Room
    <3>3. Coalesce(cost) = Estimate(c) /\ Estimate(c) \in Nat
      BY <2>1, Facts
    <3>4. ledgerSpend[AskedAccount(c)] + Estimate(c)
            <= ProjectCap[Project(c)] + unreserved[AskedAccount(c)]
      BY <3>1 DEF Room
    <3>a. /\ ledgerSpend'[Account(c)] = ledgerSpend[Account(c)] + Estimate(c)
          /\ unreserved'[Account(c)] = unreserved[Account(c)] + late
      <4>. HIDE DEF late, cost
      <4>. QED
        BY <1>b, <1>c, <3>3 DEF TypeOK
    <3>5. ASSUME NEW p \in Projects, NEW m \in Months
          PROVE  ledgerSpend'[<<p, m>>] <= ProjectCap[p] + unreserved'[<<p, m>>]
      <4>1. /\ <<p, m>> \in Projects \X Months /\ ProjectCap[p] \in Nat
            /\ ledgerSpend[<<p, m>>] \in Int /\ unreserved[<<p, m>>] \in Nat
            /\ ledgerSpend[<<p, m>>] <= ProjectCap[p] + unreserved[<<p, m>>]
        BY ConstantsAssumption DEF TypeOK, ProjectCapHolds
      <4>2. CASE <<p, m>> # Account(c)
        BY <1>b, <1>c, <4>1, <4>2 DEF TypeOK
      <4>3. CASE <<p, m>> = Account(c) /\ MonthOf[asked[c]] = Month(c)
        <5>1. AskedAccount(c) = Account(c) /\ Project(c) = p
          BY <4>3 DEF Account, AskedAccount
        <5>2. late = 0
          BY <4>3
        <5>. HIDE DEF late, cost
        <5>. QED
          BY <3>a, <3>4, <4>1, <4>3, <5>1, <5>2
      <4>4. CASE <<p, m>> = Account(c) /\ MonthOf[asked[c]] # Month(c)
        <5>1. late = Estimate(c)
          BY <3>3, <4>4
        <5>. HIDE DEF late, cost
        <5>. QED
          BY <3>a, <3>3, <4>1, <4>4, <5>1
      <4>. QED
        BY <4>2, <4>3, <4>4
    <3>. QED
      BY <3>2, <3>5 DEF ProjectCapHolds
  <2>2. CASE req[c].kind # "chat"
    <3>1. \A h \in holder' : pc'[h] = pc[h]
      BY <2>2 DEF Exclusive, TypeOK
    <3>2. Coalesce(cost) = 0 /\ late = 0
      BY <2>2, <1>d
    <3>. HIDE DEF cost, late
    <3>3. /\ ledgerSpend' = [ledgerSpend EXCEPT ![Account(c)] = @ + 0]
          /\ unreserved' = [unreserved EXCEPT ![Account(c)] = @ + 0]
      BY <1>c, <3>2
    <3>4. UNCHANGED <<req, asked>> /\ holder' \subseteq holder
      OBVIOUS
    <3>5. Account(c) \in Projects \X Months
      BY <1>b
    <3>6. 0 \in Int /\ 0 \in Nat /\ 0 <= 0
      OBVIOUS
    <3>. HIDE DEF Admit, Goto, IInv
    <3>. QED
      BY <1>1, <3>1, <3>3, <3>4, <3>5, <3>6, Covered
  <2>. QED
    BY <2>1, <2>2
<1>5. NothingEscapes'
  BY <1>a, Facts DEF NothingEscapes, Reserve, TypeOK, Progress, Inside, Scopes, NoRow, BeginRow
<1>. QED
  BY <1>1, <1>2, <1>3, <1>4, <1>5

LEMMA NextDayInv ==
  ASSUME IInv, NextDay
  PROVE  IInv'
<1>. USE DEF NextDay, IInv
<1>1. TypeOK'
  BY ConstantsAssumption DEF TypeOK, Days
<1>2. Progress'
  BY DEF Progress, TypeOK, Days
<1>3. Exclusive' /\ ProjectCapHolds' /\ NothingEscapes'
  BY DEF Exclusive, ProjectCapHolds, NothingEscapes, Reserve
<1>4. Room'
  BY DEF Room, AskedAccount, Estimate, Project
<1>. QED
  BY <1>1, <1>2, <1>3, <1>4

LEMMA CrashInv ==
  ASSUME IInv, NEW p \in Processes, Crash(p)
  PROVE  IInv'
<1>. USE DEF Crash, IInv
<1>1. TypeOK'
  BY DEF TypeOK, PCs, Settled
<1>2. Progress'
  BY DEF Progress, TypeOK, Inside, Scopes, Serving, Settled
<1>3. Exclusive'
  BY DEF Exclusive, Inside, Scopes, TypeOK, Serving, Settled
<1>4. Room'
  BY DEF Room, AskedAccount, Estimate, Project, TypeOK, Serving
<1>5. ProjectCapHolds'
  BY DEF ProjectCapHolds
<1>6. NothingEscapes'
  BY DEF NothingEscapes, Reserve, Progress, TypeOK, Serving, Settled
<1>. QED
  BY <1>1, <1>2, <1>3, <1>4, <1>5, <1>6

LEMMA NextInv == IInv /\ [Next]_vars => IInv'
<1>. SUFFICES ASSUME IInv, [Next]_vars PROVE IInv'
  OBVIOUS
<1>1. CASE NextDay
  BY <1>1, NextDayInv
<1>2. ASSUME NEW c \in Calls, Stamp(c) \/ Step(c) \/ Abandon(c)
      PROVE  IInv'
  BY <1>2, StampInv, AbandonInv, ReadClockInv, AcquireInv, CheckCapInv, DenyInv, AdmitInv,
     LocalBeginInv, LocalCompleteInv, FinishCachedInv, SendInv, FinishInv DEF Step
<1>3. ASSUME NEW p \in Processes, Crash(p)
      PROVE  IInv'
  BY <1>3, CrashInv
<1>4. CASE UNCHANGED vars
  BY <1>4 DEF vars, IInv, TypeOK, Progress, Exclusive, Room, ProjectCapHolds, NothingEscapes,
              AskedAccount, Estimate, Project, Reserve
<1>. QED
  BY <1>1, <1>2, <1>3, <1>4 DEF Next

\* IInv is inductive.
THEOREM Invariance == Spec => []IInv
  BY InitInv, NextInv, PTL DEF Spec

\* Every variable keeps its type, the history of uncovered spend never negative.
THEOREM TypeCorrect == Spec => []TypeOK
  BY Invariance, PTL DEF IInv

\* For any number of calls, workers, projects and days: a month never holds more than its
\* cap but for what answered calls cost beyond their estimates and for rows dated in
\* another month than the one their check read.
THEOREM CapSafety == Spec => []ProjectCapHolds
  BY Invariance, PTL DEF IInv

\* Nothing is sent without a row in flight at its estimate, a settled call's row is final
\* or waits at its estimate, and a denied call leaves no trace.
THEOREM NoCallEscapes == Spec => []NothingEscapes
  BY Invariance, PTL DEF IInv
-----------------------------------------------------------------------------
\* GatewayLedger implements SpendBudget.  The abstract charge of a call is its row.
charge == [c \in Calls |-> ChargeOf(c)]

LEMMA BudgetInit == Init => Budget!Init
<1>. SUFFICES ASSUME Init PROVE Budget!Init
  OBVIOUS
<1>1. MonthOf[today] \in Months
  <2>1. today \in Days
    BY ConstantsAssumption DEF Init, Days
  <2>. QED
    BY <2>1 DEF Months
<1>2. charge = [c \in Calls |-> [state |-> "none"]]
  BY DEF Init, charge, ChargeOf, NoRow
<1>. QED
  BY <1>1, <1>2 DEF Init, Budget!Init, charge

\* A step that touches no row and no account is a stutter of the budget.
LEMMA BudgetStutter ==
  ASSUME IInv, UNCHANGED <<today, req, row, ledgerSpend, unreserved>>,
         \A c \in Calls : row[c].state # "none" => stamp'[c] = stamp[c]
  PROVE  UNCHANGED Budget!vars
<1>1. \A c \in Calls : ChargeOf(c)' = ChargeOf(c)
  BY DEF ChargeOf, Project, Month
<1>. QED
  BY <1>1 DEF Budget!vars

LEMMA BudgetQuiet ==
  ASSUME IInv, NEW c \in Calls,
         Stamp(c) \/ ReadClock(c) \/ Acquire(c) \/ CheckCap(c) \/ Deny(c) \/ Send(c) \/ Abandon(c)
  PROVE  UNCHANGED Budget!vars
<1>1. UNCHANGED <<today, req, row, ledgerSpend, unreserved>>
  BY DEF Stamp, ReadClock, Acquire, CheckCap, Deny, Send, Abandon
<1>2. \A o \in Calls : row[o].state # "none" => stamp'[o] = stamp[o]
  BY DEF Stamp, ReadClock, Acquire, CheckCap, Deny, Send, Abandon, IInv, Progress, TypeOK, NoRow
<1>. QED
  BY <1>1, <1>2, BudgetStutter

LEMMA BudgetNextDay ==
  ASSUME IInv, NextDay
  PROVE  [Budget!Next]_Budget!vars
<1>1. /\ MonthOf[today'] \in Months /\ MonthOf[today] \in Nat /\ MonthOf[today'] \in Nat
      /\ MonthOf[today'] >= MonthOf[today]
  BY ConstantsAssumption DEF NextDay, IInv, TypeOK, Days, Months
<1>2. charge' = charge
  BY DEF NextDay, charge, ChargeOf, Project, Month
<1>3. CASE MonthOf[today'] = MonthOf[today]
  BY <1>2, <1>3 DEF NextDay, Budget!vars, charge
<1>4. CASE MonthOf[today'] > MonthOf[today]
  BY <1>1, <1>2, <1>4 DEF NextDay, Budget!Next, Budget!NextMonth, charge
<1>. QED
  BY <1>1, <1>3, <1>4

\* Every completion settles the charge, once.
LEMMA BudgetSettle ==
  ASSUME IInv, IInv', NEW c \in Calls, NEW cost \in 0 .. MaxCost \cup {NoCost},
         row[c].state = "in_flight", CompleteRow(c, cost),
         UNCHANGED <<today, req, stamp>>,
         Uncovered(c, IF Coalesce(cost) - Coalesce(row[c].cost) > 0
                      THEN Coalesce(cost) - Coalesce(row[c].cost) ELSE 0)
  PROVE  Budget!Next
<1>1. /\ Account(c) \in Projects \X Months
      /\ charge[c] = [state |-> "open", project |-> Project(c), month |-> Month(c),
                      amount |-> Coalesce(row[c].cost)]
      /\ charge[c].amount \in Int
  BY Facts DEF charge, ChargeOf, IInv, Progress, TypeOK, Coalesce, NoCost
<1>2. Coalesce(cost) \in 0 .. (MaxEstimate + MaxCost)
  BY ConstantsAssumption DEF Coalesce, NoCost
<1>3. charge' = [charge EXCEPT ![c].state = "settled", ![c].amount = Coalesce(cost)]
  BY <1>1 DEF charge, ChargeOf, CompleteRow, Project, Month, IInv, TypeOK
<1>4. Budget!Settle(c, Coalesce(cost))
  <2>. DEFINE over == Coalesce(cost) - Coalesce(row[c].cost)
  <2>1. <<charge[c].project, charge[c].month>> = Account(c) /\ charge[c].state = "open"
        /\ charge[c].amount = Coalesce(row[c].cost)
    BY <1>1 DEF Account
  <2>2. ledgerSpend' = [ledgerSpend EXCEPT ![Account(c)] = @ + over]
    <3>1. ledgerSpend \in [Projects \X Months -> Int] /\ Coalesce(row[c].cost) \in Int
          /\ Coalesce(cost) \in Int
      BY <1>1, <1>2, ConstantsAssumption DEF IInv, TypeOK
    <3>2. ledgerSpend' = [ledgerSpend EXCEPT ![Account(c)] =
                            @ + Coalesce(cost) - Coalesce(row[c].cost)]
      BY DEF CompleteRow, Trigger
    <3>. QED
      BY <1>1, <3>1, <3>2
  <2>3. unreserved' = [unreserved EXCEPT ![Account(c)] = @ + IF over > 0 THEN over ELSE 0]
    BY DEF Uncovered
  <2>4. UNCHANGED MonthOf[today]
    OBVIOUS
  <2>. HIDE DEF over
  <2>. QED
    BY <1>3, <2>1, <2>2, <2>3, <2>4 DEF Budget!Settle, charge, over
<1>. QED
  BY <1>2, <1>4 DEF Budget!Next

\* A row begun is a charge opened.
LEMMA ChargeOpened ==
  ASSUME IInv, NEW c \in Calls, NEW cost \in 0 .. MaxEstimate \cup {NoCost},
         row[c] = NoRow, stamp[c] \in Days, BeginRow(c, cost),
         UNCHANGED <<today, req, stamp>>
  PROVE  /\ charge[c].state = "none"
         /\ charge' = [charge EXCEPT ![c] =
                         Budget!Charge("open", Project(c), Month(c), Coalesce(cost))]
         /\ Coalesce(cost) \in 0 .. (MaxEstimate + MaxCost)
         /\ Month(c) \in Months /\ Project(c) \in Projects
         /\ ledgerSpend' = [ledgerSpend EXCEPT ![Account(c)] = @ + Coalesce(cost)]
<1>1. charge[c].state = "none"
  BY DEF charge, ChargeOf, NoRow
<1>2. row' = [row EXCEPT ![c] = [state |-> "in_flight", cost |-> cost]]
  BY DEF BeginRow
<1>3. charge' = [charge EXCEPT ![c] =
                  Budget!Charge("open", Project(c), Month(c), Coalesce(cost))]
  BY <1>2 DEF charge, ChargeOf, Project, Month, Budget!Charge, IInv, TypeOK
<1>4. Coalesce(cost) \in 0 .. (MaxEstimate + MaxCost)
  BY ConstantsAssumption DEF Coalesce, NoCost
<1>5. Month(c) \in Months /\ Project(c) \in Projects
  BY Facts DEF Month, Months, IInv
<1>6. ledgerSpend' = [ledgerSpend EXCEPT ![Account(c)] = @ + Coalesce(cost)]
  <2>1. Account(c) \in Projects \X Months
    BY <1>5 DEF Account
  <2>2. ledgerSpend[Account(c)] \in Int /\ Coalesce(cost) \in Int
    BY <1>4, <2>1, ConstantsAssumption DEF IInv, TypeOK
  <2>3. Coalesce(NoCost) = 0
    BY DEF Coalesce
  <2>4. ledgerSpend' = [ledgerSpend EXCEPT ![Account(c)] = @ + Coalesce(cost) - Coalesce(NoCost)]
    BY DEF BeginRow, Trigger
  <2>5. ledgerSpend[Account(c)] + Coalesce(cost) - 0 = ledgerSpend[Account(c)] + Coalesce(cost)
    BY <2>2
  <2>. QED
    BY <2>3, <2>4, <2>5
<1>. QED
  BY <1>1, <1>3, <1>4, <1>5, <1>6

LEMMA BudgetAdmit ==
  ASSUME IInv, NEW c \in Calls, Admit(c)
  PROVE  Budget!Next
<1>. DEFINE cost == IF req[c].kind = "raw" THEN NoCost ELSE Reserve(c)
            late == IF MonthOf[asked[c]] = Month(c) THEN 0 ELSE Coalesce(cost)
<1>1. /\ BeginRow(c, cost)
      /\ unreserved' = [unreserved EXCEPT ![Account(c)] = @ + late]
      /\ UNCHANGED <<today, req, stamp>>
  BY DEF Admit, Uncovered
<1>2. /\ row[c] = NoRow /\ stamp[c] \in Days /\ asked[c] \in Days
      /\ stamp[c] <= asked[c] /\ asked[c] <= today /\ today \in Days
      /\ req[c].kind \in {"chat", "raw"}
  BY Facts DEF Admit, IInv, Progress, Inside, TypeOK
<1>3. cost \in 0 .. MaxEstimate \cup {NoCost}
  BY ConstantsAssumption DEF Reserve, IInv, TypeOK, AllRequests
<1>4. Account(c) \in Projects \X Months
  BY <1>2, Facts DEF IInv
<1>5. /\ Month(c) \in Nat /\ MonthOf[asked[c]] \in Nat /\ MonthOf[today] \in Nat
      /\ Month(c) <= MonthOf[asked[c]] /\ MonthOf[asked[c]] <= MonthOf[today]
  BY <1>2, ConstantsAssumption DEF Month
<1>. HIDE DEF cost
<1>6. /\ charge[c].state = "none"
      /\ charge' = [charge EXCEPT ![c] =
                      Budget!Charge("open", Project(c), Month(c), Coalesce(cost))]
      /\ Coalesce(cost) \in 0 .. (MaxEstimate + MaxCost)
      /\ Month(c) \in Months /\ Project(c) \in Projects
      /\ ledgerSpend' = [ledgerSpend EXCEPT ![Account(c)] = @ + Coalesce(cost)]
  BY <1>1, <1>2, <1>3, ChargeOpened
<1>7. CASE req[c].kind = "raw"
  <2>1. Coalesce(cost) = 0
    BY <1>7 DEF cost, Coalesce
  <2>2. ledgerSpend' = ledgerSpend /\ unreserved' = unreserved
    <3>1. ledgerSpend[Account(c)] + 0 = ledgerSpend[Account(c)]
          /\ unreserved[Account(c)] + 0 = unreserved[Account(c)]
      BY <1>4 DEF IInv, TypeOK
    <3>. QED
      BY <1>1, <1>6, <2>1, <3>1 DEF IInv, TypeOK
  <2>3. Budget!Open(c, Project(c), Month(c))
    BY <1>1, <1>6, <2>1, <2>2 DEF Budget!Open, charge
  <2>. QED
    BY <1>6, <2>3 DEF Budget!Next
<1>8. CASE req[c].kind = "chat"
  <2>1. Coalesce(cost) = Estimate(c) /\ Estimate(c) \in Nat
    BY <1>8, Facts DEF cost, IInv
  <2>2. c \in holder /\ pc[c] = "insert"
    BY <1>8 DEF Admit, IInv, Exclusive, Inside
  <2>3. ledgerSpend[AskedAccount(c)] + Coalesce(cost)
          <= ProjectCap[Project(c)] + unreserved[AskedAccount(c)]
    BY <2>1, <2>2 DEF IInv, Room
  <2>4. CASE MonthOf[asked[c]] = Month(c) /\ Month(c) = MonthOf[today]
    <3>1. unreserved' = unreserved
      <4>1. unreserved[Account(c)] + 0 = unreserved[Account(c)]
        BY <1>4 DEF IInv, TypeOK
      <4>. QED
        BY <1>1, <2>4, <4>1 DEF IInv, TypeOK
    <3>2. AskedAccount(c) = <<Project(c), MonthOf[today]>>
          /\ Account(c) = <<Project(c), MonthOf[today]>>
      BY <2>4 DEF AskedAccount, Account
    <3>3. Budget!Reserve(c, Project(c), Coalesce(cost))
      BY <1>1, <1>6, <2>3, <2>4, <3>1, <3>2 DEF Budget!Reserve, charge
    <3>. QED
      BY <1>6, <3>3 DEF Budget!Next
  <2>5. CASE Month(c) < MonthOf[today]
    <3>1. late \in {0, Coalesce(cost)}
      OBVIOUS
    <3>2. late = 0 => ledgerSpend[Account(c)] + Coalesce(cost)
                        <= ProjectCap[Project(c)] + unreserved[Account(c)]
      <4>1. CASE MonthOf[asked[c]] = Month(c)
        BY <2>3, <4>1 DEF AskedAccount, Account
      <4>2. CASE MonthOf[asked[c]] # Month(c) /\ Coalesce(cost) = 0
        <5>1. ledgerSpend[Account(c)] <= ProjectCap[Project(c)] + unreserved[Account(c)]
              /\ ledgerSpend[Account(c)] \in Int
          BY <1>4, <1>6 DEF IInv, ProjectCapHolds, TypeOK, Account
        <5>. QED
          BY <4>2, <5>1
      <4>. QED
        BY <4>1, <4>2
    <3>. HIDE DEF late
    <3>3. Budget!ReserveLate(c, Project(c), Month(c), Coalesce(cost))
      BY <1>1, <1>6, <2>5, <3>1, <3>2 DEF Budget!ReserveLate, charge, Account
    <3>. QED
      BY <1>6, <3>3 DEF Budget!Next
  <2>. QED
    BY <1>5, <2>4, <2>5
<1>. QED
  BY <1>2, <1>7, <1>8

LEMMA BudgetLocalBegin ==
  ASSUME IInv, NEW c \in Calls, LocalBegin(c)
  PROVE  Budget!Next
<1>1. row[c] = NoRow /\ stamp[c] \in Days /\ BeginRow(c, 0)
      /\ UNCHANGED <<today, req, stamp, unreserved>>
  BY DEF LocalBegin, IInv, Progress
<1>2. 0 \in 0 .. MaxEstimate \cup {NoCost} /\ Coalesce(0) = 0
  BY ConstantsAssumption DEF Coalesce, NoCost
<1>3. /\ charge[c].state = "none"
      /\ charge' = [charge EXCEPT ![c] = Budget!Charge("open", Project(c), Month(c), Coalesce(0))]
      /\ Month(c) \in Months /\ Project(c) \in Projects
      /\ ledgerSpend' = [ledgerSpend EXCEPT ![Account(c)] = @ + Coalesce(0)]
  BY <1>1, <1>2, ChargeOpened
<1>4. ledgerSpend' = ledgerSpend
  <2>1. ledgerSpend[Account(c)] + 0 = ledgerSpend[Account(c)]
    BY <1>3 DEF IInv, TypeOK, Account
  <2>. QED
    BY <1>2, <1>3, <2>1 DEF IInv, TypeOK
<1>5. Budget!Open(c, Project(c), Month(c))
  BY <1>1, <1>2, <1>3, <1>4 DEF Budget!Open, charge
<1>. QED
  BY <1>3, <1>5 DEF Budget!Next

\* What a call that is still to be completed has in the ledger.
LEMMA InFlight ==
  ASSUME IInv, NEW c \in Calls, pc[c] \in {"closing", "admitted", "sent"}
  PROVE  row[c].state = "in_flight"
<1>1. CASE pc[c] = "closing"
  BY <1>1 DEF IInv, Progress
<1>2. CASE pc[c] \in {"admitted", "sent"}
  <2>1. \E amount : row[c] = [state |-> "in_flight", cost |-> amount]
    BY <1>2 DEF IInv, NothingEscapes
  <2>. QED
    BY <2>1
<1>. QED
  BY <1>1, <1>2

\* A local row and an answer of the development cache close at no cost.
LEMMA BudgetCloseFree ==
  ASSUME IInv, IInv', NEW c \in Calls, LocalComplete(c) \/ FinishCached(c)
  PROVE  Budget!Next
<1>. DEFINE more == IF Coalesce(0) - Coalesce(row[c].cost) > 0
                    THEN Coalesce(0) - Coalesce(row[c].cost) ELSE 0
<1>1. CompleteRow(c, 0) /\ UNCHANGED <<today, req, stamp, unreserved>>
  BY DEF LocalComplete, FinishCached
<1>2. row[c].state = "in_flight" /\ stamp[c] \in Days
  <2>1. pc[c] \in {"closing", "admitted"}
    BY DEF LocalComplete, FinishCached
  <2>2. row[c].state = "in_flight"
    BY <2>1, InFlight
  <2>. QED
    BY <2>2 DEF IInv, Progress
<1>3. Account(c) \in Projects \X Months
  BY <1>2, Facts DEF IInv
<1>4. more = 0
  BY DEF Coalesce, NoCost, IInv, TypeOK
<1>5. Uncovered(c, more)
  <2>1. unreserved[Account(c)] + 0 = unreserved[Account(c)]
    BY <1>3 DEF IInv, TypeOK
  <2>. QED
    BY <1>1, <1>4, <2>1 DEF Uncovered, IInv, TypeOK
<1>6. 0 \in 0 .. MaxCost \cup {NoCost}
  BY ConstantsAssumption
<1>. QED
  BY <1>1, <1>2, <1>5, <1>6, BudgetSettle

\* The answer of the model, whatever it cost.
LEMMA BudgetFinish ==
  ASSUME IInv, IInv', NEW c \in Calls, Finish(c)
  PROVE  Budget!Next
<1>1. row[c].state = "in_flight"
  BY InFlight DEF Finish
<1>. QED
  BY <1>1, BudgetSettle DEF Finish

LEMMA BudgetCrash ==
  ASSUME IInv, NEW p \in Processes, Crash(p)
  PROVE  UNCHANGED Budget!vars
  BY BudgetStutter DEF Crash

LEMMA BudgetStep == IInv /\ IInv' /\ [Next]_vars => [Budget!Next]_Budget!vars
<1>. SUFFICES ASSUME IInv, IInv', [Next]_vars PROVE [Budget!Next]_Budget!vars
  OBVIOUS
<1>1. CASE NextDay
  BY <1>1, BudgetNextDay
<1>2. ASSUME NEW c \in Calls, Stamp(c) \/ Step(c) \/ Abandon(c)
      PROVE  [Budget!Next]_Budget!vars
  BY <1>2, BudgetQuiet, BudgetAdmit, BudgetLocalBegin, BudgetCloseFree, BudgetFinish DEF Step
<1>3. ASSUME NEW p \in Processes, Crash(p)
      PROVE  [Budget!Next]_Budget!vars
  BY <1>3, BudgetCrash
<1>4. CASE UNCHANGED vars
  BY <1>4, BudgetStutter DEF vars
<1>. QED
  BY <1>1, <1>2, <1>3, <1>4 DEF Next

\* The lock, the four reads and the insert implement the one-step reservation of
\* SpendBudget, and every completion its one settlement, for any number of calls,
\* processes, projects and days.
THEOREM Refinement == Spec => AdmissionIsOneStep
<1>1. Spec => []IInv
  BY Invariance
<1>. QED
  BY <1>1, BudgetInit, BudgetStep, PTL DEF Spec, AdmissionIsOneStep, Budget!Spec
-----------------------------------------------------------------------------
(* The sums: the table the caps read against the rows, and the caps that   *)
(* are sums over rows.  Each of those is kept the way a project's cap is:  *)
(* what the holder has read leaves room for its estimate, and no one else  *)
(* takes that room before its row is in.                                   *)

\* What the holder has found room for, from the check on.
DayRoom ==
  \A c \in holder, p \in Projects, d \in Days :
    pc[c] \in {"run", "portfolio", "insert"} /\ p = Project(c) /\ d = asked[c] =>
      SumReserved(DayRows(p, d)) + Estimate(c) <= DayCap

RunRoom ==
  \A c \in holder, p \in Projects, r \in Runs :
    pc[c] \in {"portfolio", "insert"} /\ p = Project(c) /\ r = req[c].run =>
      SumReserved(RunRows(p, r)) + Estimate(c) <= RunCap

MonthRoom ==
  \A c \in holder, m \in Months :
    pc[c] = "insert" /\ m = MonthOf[asked[c]] =>
      SumReserved(MonthRows(m)) + Estimate(c) <= PortfolioCap

\* Sums are over rows, of which a ledger has finitely many at any time.
FiniteRows == IsFiniteSet(Written)

SumsInv ==
  /\ FiniteRows
  /\ SpendMatchesRows
  /\ RunCapHolds /\ DayCapHolds /\ PortfolioCapHolds
  /\ DayRoom /\ RunRoom /\ MonthRoom

Costs    == [o \in Calls |-> Coalesce(row[o].cost)]
Reserves == [o \in Calls |-> Reserved(o)]
-----------------------------------------------------------------------------
\* A reserve is a part of the cost of its row.
LEMMA ReserveInCost ==
  ASSUME TypeOK, NEW c \in Calls
  PROVE  /\ Coalesce(row[c].cost) \in Nat
         /\ Reserved(c) \in Nat /\ Reserved(c) <= Coalesce(row[c].cost)
         /\ Reserved(c) <= Estimate(c)
         /\ row[c].cost = 0 => Reserved(c) = 0
<1>1. Coalesce(row[c].cost) \in Nat
  BY DEF TypeOK, Coalesce, NoCost
<1>2. Estimate(c) \in Nat
  BY Facts
<1>3. row[c].cost = 0 => Coalesce(row[c].cost) = 0
  BY DEF Coalesce
<1>. QED
  BY <1>1, <1>2, <1>3 DEF Reserved

\* A query over rows that no step has touched gives what it gave.
LEMMA SumsStay ==
  ASSUME IInv, SumsInv, UNCHANGED <<req, row, ledgerSpend>>,
         \A o \in Calls : row[o].state # "none" => stamp'[o] = stamp[o] /\ asked'[o] = asked[o]
  PROVE  /\ FiniteRows' /\ SpendMatchesRows'
         /\ RunCapHolds' /\ DayCapHolds' /\ PortfolioCapHolds'
         /\ \A p \in Projects, d \in Days : SumReserved(DayRows(p, d))' = SumReserved(DayRows(p, d))
         /\ \A p \in Projects, r \in Runs : SumReserved(RunRows(p, r))' = SumReserved(RunRows(p, r))
         /\ \A m \in Months : SumReserved(MonthRows(m))' = SumReserved(MonthRows(m))
<1>1. Written' = Written
  BY DEF Written
<1>2. Reserves' = Reserves /\ Costs' = Costs
  BY DEF Reserves, Reserved, Costs, Estimate
<1>3. \A p, d : DayRows(p, d)' = DayRows(p, d)
  BY <1>1 DEF DayRows, Project, Written
<1>4. \A p, r : RunRows(p, r)' = RunRows(p, r)
  BY <1>1 DEF RunRows, Project, Written
<1>5. \A m : MonthRows(m)' = MonthRows(m)
  BY <1>1 DEF MonthRows, Month, Written
<1>6. \A p, m : AccountRows(p, m)' = AccountRows(p, m)
  BY <1>1 DEF AccountRows, Project, Month, Written
<1>7. /\ \A p, d : SumReserved(DayRows(p, d))' = SumReserved(DayRows(p, d))
      /\ \A p, r : SumReserved(RunRows(p, r))' = SumReserved(RunRows(p, r))
      /\ \A m : SumReserved(MonthRows(m))' = SumReserved(MonthRows(m))
  BY <1>2, <1>3, <1>4, <1>5 DEF SumReserved, Reserves
<1>8. FiniteRows'
  BY <1>1 DEF SumsInv, FiniteRows
<1>9. SpendMatchesRows'
  BY <1>2, <1>6 DEF SumsInv, SpendMatchesRows, SumOfRows, Costs
<1>10. RunCapHolds' /\ DayCapHolds' /\ PortfolioCapHolds'
  BY <1>7 DEF SumsInv, RunCapHolds, DayCapHolds, PortfolioCapHolds
<1>. QED
  BY <1>7, <1>8, <1>9, <1>10

\* The rooms are kept by a step that leaves every sum where it was, or lower, and the
\* holders where they were.
LEMMA RoomsStay ==
  ASSUME IInv, SumsInv, UNCHANGED <<req>>, holder' \subseteq holder,
         \A h \in holder' : pc'[h] = pc[h] /\ asked'[h] = asked[h],
         \A p \in Projects, d \in Days : /\ SumReserved(DayRows(p, d)) \in Int
                                         /\ SumReserved(DayRows(p, d))' \in Int
                                         /\ SumReserved(DayRows(p, d))' <= SumReserved(DayRows(p, d)),
         \A p \in Projects, r \in Runs : /\ SumReserved(RunRows(p, r)) \in Int
                                         /\ SumReserved(RunRows(p, r))' \in Int
                                         /\ SumReserved(RunRows(p, r))' <= SumReserved(RunRows(p, r)),
         \A m \in Months : /\ SumReserved(MonthRows(m)) \in Int
                           /\ SumReserved(MonthRows(m))' \in Int
                           /\ SumReserved(MonthRows(m))' <= SumReserved(MonthRows(m))
  PROVE  DayRoom' /\ RunRoom' /\ MonthRoom'
<1>1. \A h \in holder' : /\ h \in holder /\ h \in Calls
                         /\ Project(h)' = Project(h) /\ Estimate(h)' = Estimate(h)
                         /\ Estimate(h) \in Int
  BY Facts DEF IInv, TypeOK, Project, Estimate
<1>2. DayCap \in Int /\ RunCap \in Int /\ PortfolioCap \in Int
  BY ConstantsAssumption
<1>3. DayRoom'
  BY <1>1, <1>2 DEF SumsInv, DayRoom
<1>4. RunRoom'
  BY <1>1, <1>2 DEF SumsInv, RunRoom
<1>5. MonthRoom'
  BY <1>1, <1>2 DEF SumsInv, MonthRoom
<1>. QED
  BY <1>3, <1>4, <1>5

\* What the sums are, as long as the rows are finitely many.
LEMMA SumsAreNat ==
  ASSUME TypeOK, FiniteRows
  PROVE  /\ \A p \in Projects, d \in Days : SumReserved(DayRows(p, d)) \in Nat
         /\ \A p \in Projects, r \in Runs : SumReserved(RunRows(p, r)) \in Nat
         /\ \A m \in Months : SumReserved(MonthRows(m)) \in Nat
<1>1. ASSUME NEW S \in SUBSET Written
      PROVE  SumReserved(S) \in Nat
  <2>1. IsFiniteSet(S)
    BY FS_Subset DEF FiniteRows
  <2>2. \A o \in S : Reserves[o] \in Nat
    BY ReserveInCost DEF Reserves, Written
  <2>3. SumFunctionOnSet(Reserves, S) \in Nat
    BY <2>1, <2>2, SumNat
  <2>. QED
    BY <2>3 DEF SumReserved, Reserves
<1>. QED
  BY <1>1 DEF DayRows, RunRows, MonthRows

\* A step that writes no row, and leaves the dates of those written and the holders alone.
LEMMA QuietSums ==
  ASSUME IInv, IInv', SumsInv, UNCHANGED <<req, row, ledgerSpend>>, holder' \subseteq holder,
         \A h \in holder' : pc'[h] = pc[h],
         \A o \in Calls : row[o].state # "none" \/ o \in holder' =>
                            stamp'[o] = stamp[o] /\ asked'[o] = asked[o]
  PROVE  SumsInv'
<1>1. /\ FiniteRows' /\ SpendMatchesRows'
      /\ RunCapHolds' /\ DayCapHolds' /\ PortfolioCapHolds'
      /\ \A p \in Projects, d \in Days : SumReserved(DayRows(p, d))' = SumReserved(DayRows(p, d))
      /\ \A p \in Projects, r \in Runs : SumReserved(RunRows(p, r))' = SumReserved(RunRows(p, r))
      /\ \A m \in Months : SumReserved(MonthRows(m))' = SumReserved(MonthRows(m))
  BY SumsStay
<1>2. /\ \A p \in Projects, d \in Days : SumReserved(DayRows(p, d)) \in Nat
      /\ \A p \in Projects, r \in Runs : SumReserved(RunRows(p, r)) \in Nat
      /\ \A m \in Months : SumReserved(MonthRows(m)) \in Nat
  BY SumsAreNat DEF IInv, SumsInv
<1>3. DayRoom' /\ RunRoom' /\ MonthRoom'
  <2>1. \A h \in holder' : asked'[h] = asked[h]
    BY DEF IInv, TypeOK
  <2>2. \A p \in Projects, d \in Days : /\ SumReserved(DayRows(p, d)) \in Int
                                        /\ SumReserved(DayRows(p, d))' \in Int
                                        /\ SumReserved(DayRows(p, d))' <= SumReserved(DayRows(p, d))
    BY <1>1, <1>2
  <2>3. \A p \in Projects, r \in Runs : /\ SumReserved(RunRows(p, r)) \in Int
                                        /\ SumReserved(RunRows(p, r))' \in Int
                                        /\ SumReserved(RunRows(p, r))' <= SumReserved(RunRows(p, r))
    BY <1>1, <1>2
  <2>4. \A m \in Months : /\ SumReserved(MonthRows(m)) \in Int
                          /\ SumReserved(MonthRows(m))' \in Int
                          /\ SumReserved(MonthRows(m))' <= SumReserved(MonthRows(m))
    BY <1>1, <1>2
  <2>. QED
    BY <2>1, <2>2, <2>3, <2>4, RoomsStay
<1>. QED
  BY <1>1, <1>3 DEF SumsInv
-----------------------------------------------------------------------------
\* Writing one row moves a sum by what the row of that call gains.
LEMMA RowMoves ==
  ASSUME TypeOK, TypeOK', FiniteRows, NEW c \in Calls, row'[c].state # "none",
         row[c].state = "none" => row[c].cost = 0,
         \A o \in Calls : o # c => row'[o] = row[o], UNCHANGED req,
         NEW A, NEW B, A \subseteq Written, B \subseteq Calls, A \ {c} = B \ {c},
         c \in A <=> c \in B /\ row[c].state # "none"
  PROVE  /\ SumFunctionOnSet(Costs', B)
              = SumFunctionOnSet(Costs, A) + (IF c \in B THEN Costs'[c] - Costs[c] ELSE 0)
         /\ SumFunctionOnSet(Reserves', B)
              = SumFunctionOnSet(Reserves, A) + (IF c \in B THEN Reserves'[c] - Reserves[c] ELSE 0)
<1>1. IsFiniteSet(A)
  BY FS_Subset DEF FiniteRows
<1>2. \A o \in Calls : /\ Costs[o] \in Int /\ Costs'[o] \in Int
                       /\ Reserves[o] \in Int /\ Reserves'[o] \in Int
  <2>1. \A o \in Calls : Costs[o] \in Nat /\ Reserves[o] \in Nat
    BY ReserveInCost DEF Costs, Reserves
  <2>2. \A o \in Calls : Coalesce(row'[o].cost) \in Nat /\ Estimate(o)' \in Nat
    BY Facts DEF TypeOK, Coalesce, NoCost, Estimate
  <2>3. \A o \in Calls : Costs'[o] \in Nat
    BY <2>2 DEF Costs
  <2>4. \A o \in Calls : Reserves'[o] \in Nat
    BY <2>2 DEF Reserves, Reserved
  <2>. QED
    BY <2>1, <2>3, <2>4
<1>3. \A o \in Calls : o # c => Costs'[o] = Costs[o] /\ Reserves'[o] = Reserves[o]
  BY DEF Costs, Reserves, Reserved, Estimate
<1>4. row[c].state = "none" => Costs[c] = 0 /\ Reserves[c] = 0
  BY ReserveInCost DEF Costs, Reserves, Coalesce, NoCost
<1>5. A \subseteq Calls
  BY DEF Written
<1>6. SumFunctionOnSet(Costs, A) \in Int /\ SumFunctionOnSet(Reserves, A) \in Int
  BY <1>1, <1>2, <1>5, SumType
<1>7. SumFunctionOnSet(Costs', B) = SumFunctionOnSet(Costs, A)
        + (IF c \in B THEN Costs'[c] ELSE 0) - (IF c \in A THEN Costs[c] ELSE 0)
  BY <1>1, <1>2, <1>3, <1>5, SumMoves
<1>8. SumFunctionOnSet(Reserves', B) = SumFunctionOnSet(Reserves, A)
        + (IF c \in B THEN Reserves'[c] ELSE 0) - (IF c \in A THEN Reserves[c] ELSE 0)
  BY <1>1, <1>2, <1>3, <1>5, SumMoves
<1>. DEFINE ca == SumFunctionOnSet(Costs, A)
            ra == SumFunctionOnSet(Reserves, A)
            cb == SumFunctionOnSet(Costs', B)
            rb == SumFunctionOnSet(Reserves', B)
<1>9. /\ ca \in Int /\ ra \in Int
      /\ cb = ca + (IF c \in B THEN Costs'[c] ELSE 0) - (IF c \in A THEN Costs[c] ELSE 0)
      /\ rb = ra + (IF c \in B THEN Reserves'[c] ELSE 0) - (IF c \in A THEN Reserves[c] ELSE 0)
  BY <1>6, <1>7, <1>8
<1>. HIDE DEF ca, ra, cb, rb
<1>10. /\ cb = ca + (IF c \in B THEN Costs'[c] - Costs[c] ELSE 0)
       /\ rb = ra + (IF c \in B THEN Reserves'[c] - Reserves[c] ELSE 0)
  BY <1>2, <1>4, <1>9
<1>. QED
  BY <1>10 DEF ca, ra, cb, rb

\* What the row of c gains counts in every sum its row is in, and in no other.
Gain(c, S) == IF c \in S THEN Reserved(c)' - Reserved(c) ELSE 0

LEMMA SumsMove ==
  ASSUME IInv, IInv', SumsInv, NEW c \in Calls, NEW state \in RowStates \ {"none"}, NEW cost,
         row' = [row EXCEPT ![c] = [state |-> state, cost |-> cost]],
         row[c].state = "none" => row[c].cost = 0,
         ledgerSpend' = [ledgerSpend EXCEPT ![Account(c)] =
                           @ + Coalesce(cost) - Coalesce(row[c].cost)],
         UNCHANGED <<req, stamp, asked>>
  PROVE  /\ FiniteRows' /\ SpendMatchesRows'
         /\ \A p \in Projects, d \in Days :
              SumReserved(DayRows(p, d))' = SumReserved(DayRows(p, d)) + Gain(c, DayRows(p, d)')
         /\ \A p \in Projects, r \in Runs :
              SumReserved(RunRows(p, r))' = SumReserved(RunRows(p, r)) + Gain(c, RunRows(p, r)')
         /\ \A m \in Months :
              SumReserved(MonthRows(m))' = SumReserved(MonthRows(m)) + Gain(c, MonthRows(m)')
<1>1. /\ row'[c] = [state |-> state, cost |-> cost] /\ row'[c].state # "none"
      /\ \A o \in Calls : o # c => row'[o] = row[o]
  BY DEF IInv, TypeOK
<1>2. Written' = Written \cup {c}
  BY <1>1 DEF Written
<1>3. FiniteRows'
  <2>1. IsFiniteSet(Written \cup {c})
    BY FS_AddElement DEF SumsInv, FiniteRows
  <2>. QED
    BY <1>2, <2>1 DEF FiniteRows
<1>4. \A o \in Calls : Costs'[o] = Coalesce(row'[o].cost) /\ Costs[o] = Coalesce(row[o].cost)
                       /\ Reserves'[o] = Reserved(o)' /\ Reserves[o] = Reserved(o)
  BY DEF Costs, Reserves
<1>5. ASSUME NEW A, NEW B, A \subseteq Written, B \subseteq Calls, A \ {c} = B \ {c},
             c \in A <=> c \in B /\ row[c].state # "none"
      PROVE  /\ SumFunctionOnSet(Costs', B)
                  = SumFunctionOnSet(Costs, A) + (IF c \in B THEN Costs'[c] - Costs[c] ELSE 0)
             /\ SumFunctionOnSet(Reserves', B) = SumFunctionOnSet(Reserves, A) + Gain(c, B)
  <2>1. /\ SumFunctionOnSet(Costs', B)
             = SumFunctionOnSet(Costs, A) + (IF c \in B THEN Costs'[c] - Costs[c] ELSE 0)
        /\ SumFunctionOnSet(Reserves', B)
             = SumFunctionOnSet(Reserves, A) + (IF c \in B THEN Reserves'[c] - Reserves[c] ELSE 0)
    BY <1>1, <1>5, RowMoves DEF IInv, SumsInv
  <2>2. Gain(c, B) = IF c \in B THEN Reserves'[c] - Reserves[c] ELSE 0
    BY <1>4 DEF Gain
  <2>. QED
    BY <2>1, <2>2
<1>6. ASSUME NEW p, NEW d
      PROVE  SumReserved(DayRows(p, d))' = SumReserved(DayRows(p, d)) + Gain(c, DayRows(p, d)')
  <2>. DEFINE A == DayRows(p, d)
              B == DayRows(p, d)'
  <2>1. /\ A \subseteq Written /\ B \subseteq Calls /\ A \ {c} = B \ {c}
        /\ c \in A <=> c \in B /\ row[c].state # "none"
    BY <1>2 DEF DayRows, Project, Written
  <2>. HIDE DEF A, B
  <2>2. SumFunctionOnSet(Reserves', B) = SumFunctionOnSet(Reserves, A) + Gain(c, B)
    BY <1>5, <2>1
  <2>. QED
    BY <2>2 DEF SumReserved, Reserves, A, B
<1>7. ASSUME NEW p, NEW r
      PROVE  SumReserved(RunRows(p, r))' = SumReserved(RunRows(p, r)) + Gain(c, RunRows(p, r)')
  <2>. DEFINE A == RunRows(p, r)
              B == RunRows(p, r)'
  <2>1. /\ A \subseteq Written /\ B \subseteq Calls /\ A \ {c} = B \ {c}
        /\ c \in A <=> c \in B /\ row[c].state # "none"
    BY <1>2 DEF RunRows, Project, Written
  <2>. HIDE DEF A, B
  <2>2. SumFunctionOnSet(Reserves', B) = SumFunctionOnSet(Reserves, A) + Gain(c, B)
    BY <1>5, <2>1
  <2>. QED
    BY <2>2 DEF SumReserved, Reserves, A, B
<1>8. ASSUME NEW m
      PROVE  SumReserved(MonthRows(m))' = SumReserved(MonthRows(m)) + Gain(c, MonthRows(m)')
  <2>. DEFINE A == MonthRows(m)
              B == MonthRows(m)'
  <2>1. /\ A \subseteq Written /\ B \subseteq Calls /\ A \ {c} = B \ {c}
        /\ c \in A <=> c \in B /\ row[c].state # "none"
    BY <1>2 DEF MonthRows, Month, Written
  <2>. HIDE DEF A, B
  <2>2. SumFunctionOnSet(Reserves', B) = SumFunctionOnSet(Reserves, A) + Gain(c, B)
    BY <1>5, <2>1
  <2>. QED
    BY <2>2 DEF SumReserved, Reserves, A, B
<1>9. SpendMatchesRows'
  <2>. SUFFICES ASSUME NEW p \in Projects, NEW m \in Months
                PROVE  (ledgerSpend[<<p, m>>] = SumOfRows(AccountRows(p, m)))'
    BY DEF SpendMatchesRows
  <2>. DEFINE A == AccountRows(p, m)
              B == AccountRows(p, m)'
  <2>1. /\ A \subseteq Written /\ B \subseteq Calls /\ A \ {c} = B \ {c}
        /\ c \in A <=> c \in B /\ row[c].state # "none"
        /\ c \in B <=> Account(c) = <<p, m>>
    BY <1>2 DEF AccountRows, Project, Month, Account, Written
  <2>2. ledgerSpend[<<p, m>>] = SumFunctionOnSet(Costs, A)
    BY DEF SumsInv, SpendMatchesRows, SumOfRows, Costs
  <2>. HIDE DEF A, B
  <2>3. SumFunctionOnSet(Costs', B)
          = SumFunctionOnSet(Costs, A) + (IF c \in B THEN Costs'[c] - Costs[c] ELSE 0)
    BY <1>5, <2>1
  <2>4. /\ Costs'[c] = Coalesce(cost) /\ Costs[c] = Coalesce(row[c].cost)
        /\ Costs'[c] \in Int /\ Costs[c] \in Int
    BY <1>1, <1>4 DEF IInv, TypeOK, Coalesce, NoCost
  <2>5. ledgerSpend'[<<p, m>>]
          = IF Account(c) = <<p, m>> THEN ledgerSpend[<<p, m>>] + Costs'[c] - Costs[c]
                                     ELSE ledgerSpend[<<p, m>>]
    BY <2>4 DEF IInv, TypeOK
  <2>6. ledgerSpend[<<p, m>>] \in Int
    BY DEF IInv, TypeOK
  <2>7. ledgerSpend'[<<p, m>>] = SumFunctionOnSet(Costs', B)
    <3>. DEFINE sb == SumFunctionOnSet(Costs', B)
                sa == SumFunctionOnSet(Costs, A)
    <3>1. /\ ledgerSpend[<<p, m>>] = sa
          /\ sb = sa + (IF c \in B THEN Costs'[c] - Costs[c] ELSE 0)
      BY <2>2, <2>3
    <3>. HIDE DEF sa, sb
    <3>2. ledgerSpend'[<<p, m>>] = sb
      BY <2>1, <2>4, <2>5, <2>6, <3>1
    <3>. QED
      BY <3>2 DEF sb
  <2>. QED
    BY <2>7 DEF SumOfRows, Costs, B
<1>. QED
  BY <1>3, <1>6, <1>7, <1>8, <1>9

\* A row completed, or begun with nothing reserved: no sum grows.
LEMMA SumsShrink ==
  ASSUME IInv, IInv', SumsInv, NEW c \in Calls, NEW state \in RowStates \ {"none"}, NEW cost,
         row' = [row EXCEPT ![c] = [state |-> state, cost |-> cost]],
         row[c].state = "none" => row[c].cost = 0,
         ledgerSpend' = [ledgerSpend EXCEPT ![Account(c)] =
                           @ + Coalesce(cost) - Coalesce(row[c].cost)],
         UNCHANGED <<req, stamp, asked>>, Reserved(c)' <= Reserved(c),
         holder' \subseteq holder, \A h \in holder' : pc'[h] = pc[h]
  PROVE  SumsInv'
<1>1. /\ FiniteRows' /\ SpendMatchesRows'
      /\ \A p \in Projects, d \in Days :
           SumReserved(DayRows(p, d))' = SumReserved(DayRows(p, d)) + Gain(c, DayRows(p, d)')
      /\ \A p \in Projects, r \in Runs :
           SumReserved(RunRows(p, r))' = SumReserved(RunRows(p, r)) + Gain(c, RunRows(p, r)')
      /\ \A m \in Months :
           SumReserved(MonthRows(m))' = SumReserved(MonthRows(m)) + Gain(c, MonthRows(m)')
  BY SumsMove
<1>2. \A S : Gain(c, S) \in Int /\ Gain(c, S) <= 0
  <2>1. Reserved(c) \in Int
    BY ReserveInCost DEF IInv
  <2>2. Reserved(c)' \in Int
    <3>1. Coalesce(row'[c].cost) \in Nat /\ Estimate(c)' \in Nat
      BY Facts DEF IInv, TypeOK, Coalesce, NoCost, Estimate
    <3>. QED
      BY <3>1 DEF Reserved
  <2>. QED
    BY <2>1, <2>2 DEF Gain
<1>3. /\ \A p \in Projects, d \in Days : SumReserved(DayRows(p, d)) \in Nat
      /\ \A p \in Projects, r \in Runs : SumReserved(RunRows(p, r)) \in Nat
      /\ \A m \in Months : SumReserved(MonthRows(m)) \in Nat
  BY SumsAreNat DEF IInv, SumsInv
<1>4. \A p \in Projects, d \in Days : /\ SumReserved(DayRows(p, d)) \in Int
                                      /\ SumReserved(DayRows(p, d))' \in Int
                                      /\ SumReserved(DayRows(p, d))' <= SumReserved(DayRows(p, d))
  BY <1>1, <1>2, <1>3
<1>5. \A p \in Projects, r \in Runs : /\ SumReserved(RunRows(p, r)) \in Int
                                      /\ SumReserved(RunRows(p, r))' \in Int
                                      /\ SumReserved(RunRows(p, r))' <= SumReserved(RunRows(p, r))
  BY <1>1, <1>2, <1>3
<1>6. \A m \in Months : /\ SumReserved(MonthRows(m)) \in Int
                        /\ SumReserved(MonthRows(m))' \in Int
                        /\ SumReserved(MonthRows(m))' <= SumReserved(MonthRows(m))
  BY <1>1, <1>2, <1>3
<1>7. DayRoom' /\ RunRoom' /\ MonthRoom'
  BY <1>4, <1>5, <1>6, RoomsStay
<1>8. DayCap \in Int /\ RunCap \in Int /\ PortfolioCap \in Int
  BY ConstantsAssumption
<1>9. RunCapHolds' /\ DayCapHolds' /\ PortfolioCapHolds'
  BY <1>4, <1>5, <1>6, <1>8 DEF SumsInv, RunCapHolds, DayCapHolds, PortfolioCapHolds
<1>. QED
  BY <1>1, <1>7, <1>9 DEF SumsInv
-----------------------------------------------------------------------------
LEMMA SumsInit == Init => SumsInv
<1>. SUFFICES ASSUME Init PROVE SumsInv
  OBVIOUS
<1>1. Written = {}
  BY DEF Init, Written, NoRow
<1>2. /\ \A p, m : AccountRows(p, m) = {}
      /\ \A p, r : RunRows(p, r) = {}
      /\ \A p, d : DayRows(p, d) = {}
      /\ \A m : MonthRows(m) = {}
  BY <1>1 DEF AccountRows, RunRows, DayRows, MonthRows
<1>3. FiniteRows
  BY <1>1, FS_EmptySet DEF FiniteRows
<1>4. SpendMatchesRows
  BY <1>2, SumEmpty DEF SpendMatchesRows, SumOfRows, Init
<1>5. RunCapHolds /\ DayCapHolds /\ PortfolioCapHolds
  <2>1. SumReserved({}) = 0
    BY SumEmpty DEF SumReserved
  <2>2. 0 <= RunCap /\ 0 <= DayCap /\ 0 <= PortfolioCap
    BY ConstantsAssumption
  <2>3. RunCapHolds
    BY <1>2, <2>1, <2>2 DEF RunCapHolds
  <2>4. DayCapHolds
    BY <1>2, <2>1, <2>2 DEF DayCapHolds
  <2>5. PortfolioCapHolds
    BY <1>2, <2>1, <2>2 DEF PortfolioCapHolds
  <2>. QED
    BY <2>3, <2>4, <2>5
<1>6. DayRoom /\ RunRoom /\ MonthRoom
  BY DEF Init, DayRoom, RunRoom, MonthRoom
<1>. QED
  BY <1>3, <1>4, <1>5, <1>6 DEF SumsInv

\* The steps that write nothing and check nothing.
LEMMA SumsQuiet ==
  ASSUME IInv, IInv', SumsInv, NEW c \in Calls,
         Stamp(c) \/ ReadClock(c) \/ Deny(c) \/ Send(c) \/ Abandon(c)
  PROVE  SumsInv'
<1>1. UNCHANGED <<req, row, ledgerSpend>> /\ holder' \subseteq holder
  BY DEF Stamp, ReadClock, Deny, Send, Abandon
<1>2. \A h \in holder' : h \in Calls /\ pc'[h] = pc[h] /\ stamp'[h] = stamp[h] /\ asked'[h] = asked[h]
  BY DEF Stamp, ReadClock, Deny, Send, Abandon, Goto, IInv, TypeOK, Exclusive, Inside, Scopes
<1>3. \A o \in Calls : row[o].state # "none" => stamp'[o] = stamp[o] /\ asked'[o] = asked[o]
  BY DEF Stamp, ReadClock, Deny, Send, Abandon, IInv, TypeOK, Progress, NoRow
<1>. QED
  BY <1>1, <1>2, <1>3, QuietSums

LEMMA SumsNextDay ==
  ASSUME IInv, IInv', SumsInv, NextDay
  PROVE  SumsInv'
<1>1. UNCHANGED <<req, row, ledgerSpend, stamp, asked, holder, pc>>
  BY DEF NextDay
<1>. QED
  BY <1>1, QuietSums

LEMMA SumsCrash ==
  ASSUME IInv, IInv', SumsInv, NEW p \in Processes, Crash(p)
  PROVE  SumsInv'
<1>1. UNCHANGED <<req, row, ledgerSpend, stamp, asked>> /\ holder' \subseteq holder
  BY DEF Crash
<1>2. \A h \in holder' : pc'[h] = pc[h]
  BY DEF Crash, IInv, TypeOK
<1>. QED
  BY <1>1, <1>2, QuietSums

\* Taking the lock: nothing has been checked yet.
LEMMA SumsAcquire ==
  ASSUME IInv, IInv', SumsInv, NEW c \in Calls, Acquire(c)
  PROVE  SumsInv'
<1>1. /\ UNCHANGED <<req, row, ledgerSpend, stamp, asked>>
      /\ holder' = {c} /\ pc'[c] = "project"
  BY DEF Acquire, Goto, IInv, TypeOK
<1>2. DayRoom' /\ RunRoom' /\ MonthRoom'
  BY <1>1 DEF DayRoom, RunRoom, MonthRoom
<1>3. /\ FiniteRows' /\ SpendMatchesRows'
      /\ RunCapHolds' /\ DayCapHolds' /\ PortfolioCapHolds'
  BY <1>1, SumsStay
<1>. QED
  BY <1>2, <1>3 DEF SumsInv

\* The reserves of some rows are no more than what a query over them, or over more, gives.
LEMMA ReservesInSpend ==
  ASSUME TypeOK, FiniteRows, NEW S \in SUBSET Written, NEW T \in SUBSET S
  PROVE  SumReserved(T) <= SumOfRows(S) /\ SumReserved(T) \in Nat /\ SumOfRows(S) \in Nat
<1>1. IsFiniteSet(S) /\ IsFiniteSet(T)
  BY FS_Subset DEF FiniteRows
<1>2. \A o \in S : /\ Costs[o] \in Nat /\ Reserves[o] \in Nat
                   /\ Reserves[o] <= Costs[o]
  BY ReserveInCost DEF Costs, Reserves, Written
<1>. DEFINE rt == SumFunctionOnSet(Reserves, T)
            rs == SumFunctionOnSet(Reserves, S)
            cs == SumFunctionOnSet(Costs, S)
<1>3. rt \in Nat /\ rs \in Nat /\ cs \in Nat
  BY <1>1, <1>2, SumNat
<1>4. rt <= rs
  BY <1>1, <1>2, SumSubset
<1>5. rs <= cs
  BY <1>1, <1>2, SumLeq
<1>6. SumReserved(T) = rt /\ SumOfRows(S) = cs
  BY DEF SumReserved, SumOfRows, Reserves, Costs
<1>. HIDE DEF rt, rs, cs
<1>. QED
  BY <1>3, <1>4, <1>5, <1>6

\* What the four queries say: each is at least the reserves its cap is about.
LEMMA DayQuery ==
  ASSUME IInv, SumsInv, NEW c \in Calls
  PROVE  /\ SumReserved(DayRows(Project(c), asked[c])) <= SpendUsd(c, "day")
         /\ SumReserved(DayRows(Project(c), asked[c])) \in Nat /\ SpendUsd(c, "day") \in Nat
<1>. DEFINE S == {o \in Written : Project(o) = Project(c) /\ stamp[o] = asked[c]}
            T == DayRows(Project(c), asked[c])
<1>1. S \in SUBSET Written /\ T \in SUBSET S
  BY DEF DayRows
<1>. HIDE DEF S, T
<1>2. SumReserved(T) <= SumOfRows(S) /\ SumReserved(T) \in Nat /\ SumOfRows(S) \in Nat
  BY <1>1, ReservesInSpend DEF IInv, SumsInv
<1>3. SpendUsd(c, "day") = SumOfRows(S)
  BY DEF SpendUsd, S
<1>. QED
  BY <1>2, <1>3 DEF T

LEMMA RunQuery ==
  ASSUME IInv, SumsInv, NEW c \in Calls
  PROVE  /\ SumReserved(RunRows(Project(c), req[c].run)) <= SpendUsd(c, "run")
         /\ SumReserved(RunRows(Project(c), req[c].run)) \in Nat /\ SpendUsd(c, "run") \in Nat
<1>. DEFINE S == RunRows(Project(c), req[c].run)
<1>1. S \in SUBSET Written
  BY DEF RunRows
<1>2. SpendUsd(c, "run") = SumOfRows(S)
  BY DEF SpendUsd, RunRows
<1>. HIDE DEF S
<1>3. SumReserved(S) <= SumOfRows(S) /\ SumReserved(S) \in Nat /\ SumOfRows(S) \in Nat
  BY <1>1, ReservesInSpend DEF IInv, SumsInv
<1>. QED
  BY <1>2, <1>3 DEF S

\* The portfolio's query is a sum over the projects of the table's sums over rows.
LEMMA PortfolioQuery ==
  ASSUME IInv, SumsInv, NEW c \in Calls, asked[c] \in Days
  PROVE  /\ SumReserved(MonthRows(MonthOf[asked[c]])) <= SpendUsd(c, "portfolio")
         /\ SumReserved(MonthRows(MonthOf[asked[c]])) \in Nat /\ SpendUsd(c, "portfolio") \in Nat
<1>. DEFINE m == MonthOf[asked[c]]
            S == {o \in Written : Month(o) = m}
            T == MonthRows(m)
            k == [o \in Calls |-> Project(o)]
            h == [p \in Projects |-> ledgerSpend[<<p, m>>]]
            C == [p \in Projects |-> AccountRows(p, m)]
<1>0. m \in Months
  BY DEF Months
<1>. HIDE DEF m
<1>1. S \in SUBSET Written /\ T \in SUBSET S
  BY DEF MonthRows
<1>2. IsFiniteSet(S)
  BY <1>1, FS_Subset DEF SumsInv, FiniteRows
<1>3. \A o \in S : Costs[o] \in Int
  BY ReserveInCost DEF IInv, Costs, Written
<1>4. \A p \in Projects : h[p] = SumFunctionOnSet(Costs, C[p])
  BY <1>0 DEF SumsInv, SpendMatchesRows, SumOfRows, Costs
<1>5. /\ \A p \in Projects : \A o : o \in C[p] <=> o \in S /\ k[o] = p
      /\ \A o \in S : k[o] \in Projects
  BY Facts DEF IInv, AccountRows, Written
<1>6. SumFunctionOnSet(h, Projects) = SumFunctionOnSet(Costs, S)
  <2>. HIDE DEF S, k, h, C
  <2>. QED
    BY <1>2, <1>3, <1>4, <1>5, FiniteAssumption, SumByClass
<1>7. SpendUsd(c, "portfolio") = SumOfRows(S)
  <2>1. SpendUsd(c, "portfolio") = SumFunctionOnSet(h, Projects)
    BY DEF SpendUsd, SumFunction, m
  <2>. QED
    BY <1>6, <2>1 DEF SumOfRows, Costs
<1>. HIDE DEF S, T
<1>8. SumReserved(T) <= SumOfRows(S) /\ SumReserved(T) \in Nat /\ SumOfRows(S) \in Nat
  BY <1>1, ReservesInSpend DEF IInv, SumsInv
<1>. QED
  BY <1>7, <1>8 DEF T, m

\* A check that fits leaves the room its cap has for the holder's estimate.
LEMMA SumsCheckCap ==
  ASSUME IInv, IInv', SumsInv, NEW c \in Calls, CheckCap(c)
  PROVE  SumsInv'
<1>1. /\ UNCHANGED <<req, row, ledgerSpend, stamp, asked, holder>>
      /\ pc[c] \in Scopes /\ pc'[c] = After(pc[c])
      /\ Fits(c, pc[c])
      /\ \A o \in Calls : o # c => pc'[o] = pc[o]
  BY DEF CheckCap, Goto, IInv, TypeOK
<1>2. /\ FiniteRows' /\ SpendMatchesRows'
      /\ RunCapHolds' /\ DayCapHolds' /\ PortfolioCapHolds'
      /\ \A p \in Projects, d \in Days : SumReserved(DayRows(p, d))' = SumReserved(DayRows(p, d))
      /\ \A p \in Projects, r \in Runs : SumReserved(RunRows(p, r))' = SumReserved(RunRows(p, r))
      /\ \A m \in Months : SumReserved(MonthRows(m))' = SumReserved(MonthRows(m))
  BY <1>1, SumsStay
<1>3. \A h \in holder : /\ h \in Calls /\ Estimate(h) \in Nat
                        /\ Estimate(h)' = Estimate(h) /\ Project(h)' = Project(h)
  BY <1>1, Facts DEF IInv, TypeOK, Estimate, Project
<1>4. DayCap \in Nat /\ RunCap \in Nat /\ PortfolioCap \in Nat
  BY ConstantsAssumption
<1>5. asked[c] \in Days
  BY <1>1 DEF IInv, Progress, Inside
<1>6. DayRoom'
  <2>. SUFFICES ASSUME NEW h \in holder, NEW p \in Projects, NEW d \in Days,
                       pc'[h] \in {"run", "portfolio", "insert"}, p = Project(h), d = asked[h]
                PROVE  SumReserved(DayRows(p, d)) + Estimate(h) <= DayCap
    BY <1>1, <1>2, <1>3 DEF DayRoom
  <2>1. CASE h = c /\ pc[c] = "day"
    <3>1. SpendUsd(c, "day") + Estimate(c) <= DayCap
      BY <1>1, <2>1 DEF Fits, CapUsd
    <3>. QED
      BY <1>3, <1>4, <2>1, <3>1, DayQuery
  <2>2. CASE ~ (h = c /\ pc[c] = "day")
    <3>1. pc[h] \in {"run", "portfolio", "insert"}
      BY <1>1, <1>3, <2>2 DEF After, Scopes
    <3>. QED
      BY <3>1 DEF SumsInv, DayRoom
  <2>. QED
    BY <2>1, <2>2
<1>7. RunRoom'
  <2>. SUFFICES ASSUME NEW h \in holder, NEW p \in Projects, NEW r \in Runs,
                       pc'[h] \in {"portfolio", "insert"}, p = Project(h), r = req[h].run
                PROVE  SumReserved(RunRows(p, r)) + Estimate(h) <= RunCap
    BY <1>1, <1>2, <1>3 DEF RunRoom
  <2>1. CASE h = c /\ pc[c] = "run"
    <3>1. SpendUsd(c, "run") + Estimate(c) <= RunCap
      BY <1>1, <2>1, ConstantsAssumption DEF Fits, CapUsd
    <3>. QED
      BY <1>3, <1>4, <2>1, <3>1, RunQuery
  <2>2. CASE ~ (h = c /\ pc[c] = "run")
    <3>1. pc[h] \in {"portfolio", "insert"}
      BY <1>1, <1>3, <2>2 DEF After, Scopes
    <3>. QED
      BY <3>1 DEF SumsInv, RunRoom
  <2>. QED
    BY <2>1, <2>2
<1>8. MonthRoom'
  <2>. SUFFICES ASSUME NEW h \in holder, NEW m \in Months,
                       pc'[h] = "insert", m = MonthOf[asked[h]]
                PROVE  SumReserved(MonthRows(m)) + Estimate(h) <= PortfolioCap
    BY <1>1, <1>2, <1>3 DEF MonthRoom
  <2>1. CASE h = c /\ pc[c] = "portfolio"
    <3>1. SpendUsd(c, "portfolio") + Estimate(c) <= PortfolioCap
      BY <1>1, <2>1 DEF Fits, CapUsd
    <3>. QED
      BY <1>3, <1>4, <1>5, <2>1, <3>1, PortfolioQuery
  <2>2. CASE ~ (h = c /\ pc[c] = "portfolio")
    <3>1. pc[h] = "insert"
      BY <1>1, <1>3, <2>2 DEF After, Scopes
    <3>. QED
      BY <3>1 DEF SumsInv, MonthRoom
  <2>. QED
    BY <2>1, <2>2
<1>. QED
  BY <1>2, <1>6, <1>7, <1>8 DEF SumsInv

\* A local row: begun and completed at no cost.
LEMMA SumsLocalBegin ==
  ASSUME IInv, IInv', SumsInv, NEW c \in Calls, LocalBegin(c)
  PROVE  SumsInv'
<1>1. row[c] = NoRow /\ row[c].cost = 0 /\ Account(c) \in Projects \X Months
  BY Facts DEF LocalBegin, IInv, Progress, NoRow
<1>2. /\ row' = [row EXCEPT ![c] = [state |-> "in_flight", cost |-> 0]]
      /\ UNCHANGED <<req, stamp, asked, holder>>
  BY DEF LocalBegin, BeginRow
<1>3. ledgerSpend' = [ledgerSpend EXCEPT ![Account(c)] = @ + Coalesce(0) - Coalesce(row[c].cost)]
  BY <1>1 DEF LocalBegin, BeginRow, Trigger, Coalesce, NoCost
<1>4. \A h \in holder' : pc'[h] = pc[h]
  BY DEF LocalBegin, Goto, IInv, TypeOK, Exclusive, Inside, Scopes
<1>5. Reserved(c)' <= Reserved(c)
  <2>1. row'[c].cost = 0
    BY <1>2 DEF IInv, TypeOK
  <2>2. Reserved(c)' = 0 /\ Reserved(c) = 0
    <3>1. Estimate(c)' = Estimate(c) /\ Estimate(c) \in Nat
      BY <1>2, Facts DEF IInv, Estimate
    <3>. QED
      BY <1>1, <1>2, <2>1, <3>1 DEF Reserved, Coalesce, NoCost
  <2>. QED
    BY <2>2
<1>. QED
  BY <1>1, <1>2, <1>3, <1>4, <1>5, SumsShrink DEF RowStates

\* What a completion leaves reserved is no more than what the row had reserved: an answer
\* that cost more than its estimate took no more than the estimate from the caps.
LEMMA SettledReserve ==
  ASSUME IInv, IInv', NEW c \in Calls, NEW cost, CompleteRow(c, cost), UNCHANGED req,
         pc[c] \in {"admitted", "sent"} \/ cost = 0
  PROVE  Reserved(c)' <= Reserved(c)
<1>1. row'[c].cost = cost
  BY DEF CompleteRow, IInv, TypeOK
<1>2. Coalesce(row'[c].cost) \in Nat /\ Coalesce(row[c].cost) \in Nat
  BY DEF IInv, TypeOK, Coalesce, NoCost
<1>3. Estimate(c)' = Estimate(c) /\ Estimate(c) \in Nat
  BY Facts DEF IInv, Estimate
<1>4. CASE req[c].kind = "chat" /\ pc[c] \in {"admitted", "sent"}
  <2>1. row[c].cost = Reserve(c)
    <3>1. row[c] = [state |-> "in_flight", cost |-> IF req[c].kind = "raw" THEN NoCost ELSE Reserve(c)]
      BY <1>4 DEF IInv, NothingEscapes
    <3>. QED
      BY <1>4, <3>1
  <2>2. Coalesce(row[c].cost) = Estimate(c)
    BY <1>4, <2>1, Facts DEF IInv
  <2>. QED
    BY <1>2, <1>3, <2>2 DEF Reserved
<1>5. CASE req[c].kind # "chat"
  BY <1>5 DEF Reserved
<1>6. CASE cost = 0
  <2>1. Coalesce(row'[c].cost) = 0
    BY <1>1, <1>6 DEF Coalesce, NoCost
  <2>. QED
    BY <1>2, <1>3, <2>1 DEF Reserved
<1>. QED
  BY <1>4, <1>5, <1>6

\* A row completed, whatever it turns out to have cost.
LEMMA SumsComplete ==
  ASSUME IInv, IInv', SumsInv, NEW c \in Calls,
         LocalComplete(c) \/ FinishCached(c) \/ Finish(c)
  PROVE  SumsInv'
<1>1. /\ pc[c] \in {"closing", "admitted", "sent"} /\ Goto(c, "done")
      /\ UNCHANGED <<req, stamp, asked, holder>>
  BY DEF LocalComplete, FinishCached, Finish
<1>2. PICK cost : /\ CompleteRow(c, cost)
                  /\ pc[c] \in {"admitted", "sent"} \/ cost = 0
  BY DEF LocalComplete, FinishCached, Finish
<1>3. row[c].state = "in_flight"
  BY <1>1, InFlight
<1>4. \A h \in holder' : pc'[h] = pc[h]
  BY <1>1 DEF Goto, IInv, TypeOK, Exclusive, Inside, Scopes
<1>5. Reserved(c)' <= Reserved(c)
  BY <1>1, <1>2, SettledReserve
<1>. QED
  BY <1>1, <1>2, <1>3, <1>4, <1>5, SumsShrink DEF CompleteRow, Trigger, RowStates

\* The holder's row goes in: each sum it counts in had room for its estimate, and a raw
\* call's row reserves nothing.
LEMMA SumsAdmit ==
  ASSUME IInv, IInv', SumsInv, NEW c \in Calls, Admit(c)
  PROVE  SumsInv'
<1>. DEFINE cost == IF req[c].kind = "raw" THEN NoCost ELSE Reserve(c)
<1>1. /\ row' = [row EXCEPT ![c] = [state |-> "in_flight", cost |-> cost]]
      /\ ledgerSpend' = [ledgerSpend EXCEPT ![Account(c)] = @ + Coalesce(cost) - Coalesce(NoCost)]
      /\ UNCHANGED <<req, stamp, asked>> /\ holder' = holder \ {c}
      /\ pc[c] = "insert" /\ Goto(c, "admitted")
  BY DEF Admit, BeginRow, Trigger
<1>2. /\ row[c] = NoRow /\ row[c].cost = 0 /\ req[c].kind \in {"chat", "raw"}
      /\ asked[c] \in Days
  BY <1>1, Facts DEF IInv, Progress, Inside, NoRow
<1>3. ledgerSpend' = [ledgerSpend EXCEPT ![Account(c)] = @ + Coalesce(cost) - Coalesce(row[c].cost)]
  <2>1. Coalesce(NoCost) = 0 /\ Coalesce(row[c].cost) = 0
    BY <1>2 DEF Coalesce, NoCost
  <2>. QED
    BY <1>1, <2>1
<1>4. row'[c].cost = cost /\ Coalesce(cost) \in Nat
  BY <1>1 DEF IInv, TypeOK, Coalesce, NoCost
<1>5. /\ Estimate(c)' = Estimate(c) /\ Estimate(c) \in Nat
      /\ Reserved(c) = 0
  BY <1>1, <1>2, Facts, ReserveInCost DEF IInv, Estimate
<1>6. CASE req[c].kind = "raw"
  <2>1. Reserved(c)' <= Reserved(c)
    BY <1>1, <1>5, <1>6 DEF Reserved
  <2>2. \A h \in holder' : pc'[h] = pc[h]
    BY <1>1 DEF Goto, IInv, TypeOK
  <2>. HIDE DEF cost
  <2>. QED
    BY <1>1, <1>2, <1>3, <2>1, <2>2, SumsShrink DEF RowStates
<1>7. CASE req[c].kind = "chat"
  <2>1. c \in holder /\ holder' = {}
    BY <1>1, <1>7 DEF IInv, Exclusive, Inside
  <2>2. Reserved(c)' = Estimate(c)
    <3>1. Coalesce(cost) = Estimate(c)
      BY <1>7, Facts DEF IInv
    <3>. QED
      BY <1>1, <1>4, <1>5, <1>7, <3>1 DEF Reserved
  <2>3. \A S : Gain(c, S) = IF c \in S THEN Estimate(c) ELSE 0
    BY <1>5, <2>2 DEF Gain
  <2>. HIDE DEF cost
  <2>4. /\ FiniteRows' /\ SpendMatchesRows'
        /\ \A p \in Projects, d \in Days :
             SumReserved(DayRows(p, d))' = SumReserved(DayRows(p, d)) + Gain(c, DayRows(p, d)')
        /\ \A p \in Projects, r \in Runs :
             SumReserved(RunRows(p, r))' = SumReserved(RunRows(p, r)) + Gain(c, RunRows(p, r)')
        /\ \A m \in Months :
             SumReserved(MonthRows(m))' = SumReserved(MonthRows(m)) + Gain(c, MonthRows(m)')
    BY <1>1, <1>2, <1>3, SumsMove DEF RowStates
  <2>5. /\ \A p \in Projects, d \in Days : SumReserved(DayRows(p, d)) \in Nat
        /\ \A p \in Projects, r \in Runs : SumReserved(RunRows(p, r)) \in Nat
        /\ \A m \in Months : SumReserved(MonthRows(m)) \in Nat
    BY SumsAreNat DEF IInv, SumsInv
  <2>6. DayCapHolds'
    <3>. SUFFICES ASSUME NEW p \in Projects, NEW d \in Days
                  PROVE  SumReserved(DayRows(p, d))' <= DayCap
      BY DEF DayCapHolds
    <3>1. SumReserved(DayRows(p, d)) <= DayCap
      BY DEF SumsInv, DayCapHolds
    <3>2. CASE c \in DayRows(p, d)'
      <4>1. p = Project(c) /\ d = asked[c]
        BY <1>1, <3>2 DEF DayRows, Project
      <4>2. SumReserved(DayRows(p, d)) + Estimate(c) <= DayCap
        BY <1>1, <2>1, <4>1 DEF SumsInv, DayRoom
      <4>. QED
        BY <2>3, <2>4, <3>2, <4>2
    <3>3. CASE c \notin DayRows(p, d)'
      BY <2>3, <2>4, <2>5, <3>1, <3>3
    <3>. QED
      BY <3>2, <3>3
  <2>7. RunCapHolds'
    <3>. SUFFICES ASSUME NEW p \in Projects, NEW r \in Runs
                  PROVE  SumReserved(RunRows(p, r))' <= RunCap
      BY DEF RunCapHolds
    <3>1. SumReserved(RunRows(p, r)) <= RunCap
      BY DEF SumsInv, RunCapHolds
    <3>2. CASE c \in RunRows(p, r)'
      <4>1. p = Project(c) /\ r = req[c].run
        BY <1>1, <3>2 DEF RunRows, Project
      <4>2. SumReserved(RunRows(p, r)) + Estimate(c) <= RunCap
        BY <1>1, <2>1, <4>1 DEF SumsInv, RunRoom
      <4>. QED
        BY <2>3, <2>4, <3>2, <4>2
    <3>3. CASE c \notin RunRows(p, r)'
      BY <2>3, <2>4, <2>5, <3>1, <3>3
    <3>. QED
      BY <3>2, <3>3
  <2>8. PortfolioCapHolds'
    <3>. SUFFICES ASSUME NEW m \in Months
                  PROVE  SumReserved(MonthRows(m))' <= PortfolioCap
      BY DEF PortfolioCapHolds
    <3>1. SumReserved(MonthRows(m)) <= PortfolioCap
      BY DEF SumsInv, PortfolioCapHolds
    <3>2. CASE c \in MonthRows(m)'
      <4>1. m = MonthOf[asked[c]]
        BY <1>1, <3>2 DEF MonthRows
      <4>2. SumReserved(MonthRows(m)) + Estimate(c) <= PortfolioCap
        BY <1>1, <2>1, <4>1 DEF SumsInv, MonthRoom
      <4>. QED
        BY <2>3, <2>4, <3>2, <4>2
    <3>3. CASE c \notin MonthRows(m)'
      BY <2>3, <2>4, <2>5, <3>1, <3>3
    <3>. QED
      BY <3>2, <3>3
  <2>9. DayRoom' /\ RunRoom' /\ MonthRoom'
    BY <2>1 DEF DayRoom, RunRoom, MonthRoom
  <2>. QED
    BY <2>4, <2>6, <2>7, <2>8, <2>9 DEF SumsInv
<1>. QED
  BY <1>2, <1>6, <1>7

LEMMA SumsNext == IInv /\ IInv' /\ SumsInv /\ [Next]_vars => SumsInv'
<1>. SUFFICES ASSUME IInv, IInv', SumsInv, [Next]_vars PROVE SumsInv'
  OBVIOUS
<1>1. CASE NextDay
  BY <1>1, SumsNextDay
<1>2. ASSUME NEW c \in Calls, Stamp(c) \/ Step(c) \/ Abandon(c)
      PROVE  SumsInv'
  BY <1>2, SumsQuiet, SumsAcquire, SumsCheckCap, SumsAdmit, SumsLocalBegin, SumsComplete DEF Step
<1>3. ASSUME NEW p \in Processes, Crash(p)
      PROVE  SumsInv'
  BY <1>3, SumsCrash
<1>4. CASE UNCHANGED vars
  BY <1>4, QuietSums DEF vars
<1>. QED
  BY <1>1, <1>2, <1>3, <1>4 DEF Next

\* In every state the spend of a ledger is its rows', no cap is exceeded, and what an admission
\* in progress has checked still leaves room for it.
THEOREM SumsInvariance == Spec => []SumsInv
<1>1. Spec => []IInv
  BY Invariance
<1>. QED
  BY <1>1, SumsInit, SumsNext, PTL DEF Spec

\* The table the caps read equals the sum of the rows it stands for, for any number of
\* calls and projects, whatever became of the costs: the triggers of schema.sql lose
\* nothing and count nothing twice.
THEOREM SpendIsTheRows == Spec => []SpendMatchesRows
  BY SumsInvariance, PTL DEF SumsInv

\* The reserves of a run and of a project's day never pass their caps, though each is read
\* from the rows at a moment of its own while other calls complete.
THEOREM RunAndDayCaps == Spec => []RunAndDayCapsHold
  BY SumsInvariance, PTL DEF SumsInv, RunAndDayCapsHold

\* The reserves of all projects' month never pass the portfolio's cap, which is read from
\* the table and not from the rows.
THEOREM PortfolioCapSafety == Spec => []PortfolioCapHolds
  BY SumsInvariance, PTL DEF SumsInv
=============================================================================
