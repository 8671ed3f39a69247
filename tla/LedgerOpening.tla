---------------------------- MODULE LedgerOpening ----------------------------
(***************************************************************************)
(* Opening a ledger file: LedgerStore.__init__ and _migrate of             *)
(* boundary/ledger/store.py, statement by statement, by processes that may *)
(* be killed between any two of them, while a process of the older library *)
(* goes on writing.  A file holds one project's rows of one month, each of *)
(* which costs one.  Every statement is its own transaction                *)
(* (isolation_level=None).                                                 *)
(***************************************************************************)
EXTENDS Naturals, Sequences, FiniteSets, SequencesExt

CONSTANTS
  Processes,   \* processes that open a ledger with this library
  Files,       \* ledger files; at first all are copies of one
  Scenarios,   \* [version, file: Processes -> Files, old: Files an older process writes], for Init
  MaxRows,     \* bound: rows of a file
  None

New == 11      \* SCHEMA_VERSION

\* What a row's call_uid may be: one an earlier version gave, one of its own, or its legacy one.
Uids == ({"first"} \X Nat) \cup ({"uid"} \X Files \X Nat)
          \cup ({"legacy"} \X Nat \X {"call"}) \cup ({"legacy"} \X Nat \X ({"old"} \X Files))

\* What is assumed of the constants; the modules that give them their values check it.  No
\* process of an older version writes to a file that does not exist yet.
OpeningAssumption ==
  /\ MaxRows \in Nat /\ None \notin Nat /\ None \notin Uids
  /\ \A s \in Scenarios : /\ s.version \in Nat /\ s.old \subseteq Files
                          /\ s.version = 0 => s.old = {}
                          /\ s.file \in [Processes -> Files]

VARIABLES
  scene,
  version,   \* [Files -> MAX(version) of schema_version, or None]
  columns,   \* [Files -> the columns that later versions added]
  rows,      \* [Files -> its rows, a sequence: [what, uid, by]; a row's id is its place]
  spend,     \* [Files -> what ledger_spend says, or None for no row]
  counted,   \* [Files -> its triggers are there]
  pc,        \* [Processes -> "closed", "script", "version", "migrate" or "open"]
  plan,      \* [Processes -> the statements still to run]
  todo,      \* [Processes -> ids the backfill has still to give a uid]
  overlap    \* history: the files that two processes were opening at once
fileVars == <<version, columns, rows, spend, counted>>
vars == <<scene, fileVars, pc, plan, todo, overlap>>

File(p) == scene.file[p]

\* The columns a file of a version has: v3 to v8 added one each, of which one stands for all.
ColumnsOf(v) ==
  {c \in {"call_uid", "redacted", "cache_source"} :
     \/ c = "call_uid" /\ v >= 2
     \/ c = "redacted" /\ v >= 8
     \/ c = "cache_source" /\ v >= 11}
Every == ColumnsOf(New)

Step(do, what) == [do |-> do, what |-> what]
Adding(c) == <<Step("look", c), Step("add", c)>>

\* Mutant: the version is recorded before the spend is counted.
StepsRecordedEarly(from) ==
  (IF from < 2 THEN Adding("call_uid") \o <<Step("select", None)>> ELSE <<>>)
  \o (IF from < 8 THEN Adding("redacted") ELSE <<>>)
  \o (IF from < 11 THEN Adding("cache_source") \o <<Step("record", None)>> ELSE <<>>)
  \o (IF from < 9 THEN <<Step("clear", None), Step("refill", None)>> ELSE <<>>)
  \o <<Step("index", None)>>

\* _migrate: one step per version, decided by where the file started.
Steps(from) ==
  (IF from < 2 THEN Adding("call_uid") \o <<Step("select", None)>> ELSE <<>>)
  \o (IF from < 8 THEN Adding("redacted") ELSE <<>>)
  \o (IF from < 9 THEN <<Step("clear", None), Step("refill", None)>> ELSE <<>>)
  \o (IF from < 11 THEN Adding("cache_source") \o <<Step("record", None)>> ELSE <<>>)
  \o <<Step("index", None)>>

\* legacy_call_uid: of the row itself, its id with it.
LegacyUid(f, id) == <<"legacy", id, rows[f][id].what>>

Costed(f) == Len(rows[f])       \* SUM(cost_usd): every row costs one

-----------------------------------------------------------------------------
(* Opening.                                                                *)

StartOpening(p) ==
  /\ pc[p] = "closed" /\ pc' = [pc EXCEPT ![p] = "script"]
  /\ UNCHANGED <<scene, fileVars, plan, todo, overlap>>

\* schema.sql: every statement IF NOT EXISTS.  A file that had no table now has every column.
RunScript(p) ==
  /\ pc[p] = "script" /\ pc' = [pc EXCEPT ![p] = "version"]
  /\ counted' = [counted EXCEPT ![File(p)] = TRUE]
  /\ columns' = [columns EXCEPT ![File(p)] = IF version[File(p)] = None THEN Every ELSE @]
  /\ UNCHANGED <<scene, version, rows, spend, plan, todo, overlap>>

Others(p) == {q \in Processes \ {p} : File(q) = File(p)}

\* The version is read; a newer file is refused, a new one recorded.
ReadVersion(p) ==
  LET held == version[File(p)]
  IN  /\ pc[p] = "version"
      /\ pc' = [pc EXCEPT ![p] = IF held # None /\ held > New THEN "closed" ELSE "migrate"]
      /\ plan' = [plan EXCEPT ![p] = CASE held = None -> <<Step("record", None), Step("index", None)>>
                                       [] held # None /\ held > New -> <<>>
                                       [] OTHER -> Steps(held)]
      /\ overlap' = IF \E q \in Others(p) : pc[q] = "migrate" THEN overlap \cup {File(p)} ELSE overlap
      /\ UNCHANGED <<scene, fileVars, todo>>

\* What is left to do once a statement has run.
Ran(p) == plan' = [plan EXCEPT ![p] = Tail(@)] /\ UNCHANGED <<pc, todo>>

\* A statement that raises: the connection is closed, and the caller has no ledger.
Raises(p) ==
  /\ pc' = [pc EXCEPT ![p] = "closed"] /\ plan' = [plan EXCEPT ![p] = <<>>]
  /\ todo' = [todo EXCEPT ![p] = {}] /\ UNCHANGED fileVars

Is(p, do) == pc[p] = "migrate" /\ plan[p] # <<>> /\ Head(plan[p]).do = do

\* _add_columns: the columns are read, and one that is missing is added.
Look(p) ==
  /\ Is(p, "look")
  /\ plan' = [plan EXCEPT ![p] = IF Head(@).what \in columns[File(p)] THEN Tail(Tail(@)) ELSE Tail(@)]
  /\ UNCHANGED <<scene, fileVars, pc, todo, overlap>>

AddColumn(p) ==
  /\ Is(p, "add")
  /\ \/ /\ Head(plan[p]).what \in columns[File(p)] /\ Raises(p)
     \/ /\ Head(plan[p]).what \notin columns[File(p)]
        /\ columns' = [columns EXCEPT ![File(p)] = @ \cup {Head(plan[p]).what}]
        /\ Ran(p) /\ UNCHANGED <<version, rows, spend, counted>>
  /\ UNCHANGED <<scene, overlap>>

\* _backfill_call_uids: the rows without a uid are selected, then updated one by one.
SelectNulls(p) ==
  /\ Is(p, "select")
  /\ todo' = [todo EXCEPT ![p] = {id \in DOMAIN rows[File(p)] : rows[File(p)][id].uid = None}]
  /\ plan' = [plan EXCEPT ![p] = <<Step("update", None)>> \o Tail(@)]
  /\ UNCHANGED <<scene, fileVars, pc, overlap>>

Update(p) ==
  /\ Is(p, "update")
  /\ \/ /\ todo[p] = {} /\ Ran(p) /\ UNCHANGED rows
     \/ \E id \in todo[p] :
          /\ \A other \in todo[p] : id <= other
          /\ rows' = [rows EXCEPT ![File(p)][id].uid = LegacyUid(File(p), id)]
          /\ todo' = [todo EXCEPT ![p] = @ \ {id}] /\ UNCHANGED <<pc, plan>>
  /\ UNCHANGED <<scene, version, columns, spend, counted, overlap>>

\* _rebuild_spend: two statements.
Clear(p) ==
  /\ Is(p, "clear")
  /\ spend' = [spend EXCEPT ![File(p)] = None]
  /\ Ran(p) /\ UNCHANGED <<scene, version, columns, rows, counted, overlap>>

\* The insert has no conflict clause: a row a trigger made meanwhile is a constraint error.
Refill(p) ==
  /\ Is(p, "refill")
  /\ \/ /\ spend[File(p)] # None /\ Costed(File(p)) > 0 /\ Raises(p)
     \/ /\ spend[File(p)] = None \/ Costed(File(p)) = 0
        /\ spend' = [spend EXCEPT ![File(p)] = IF Costed(File(p)) = 0 THEN @ ELSE Costed(File(p))]
        /\ Ran(p) /\ UNCHANGED <<version, columns, rows, counted>>
  /\ UNCHANGED <<scene, overlap>>

RecordVersion(p) ==
  /\ Is(p, "record")
  /\ version' = [version EXCEPT ![File(p)] = IF @ = None \/ @ < New THEN New ELSE @]
  /\ Ran(p) /\ UNCHANGED <<scene, columns, rows, spend, counted, overlap>>

\* The unique index over call_uid, and the ledger is open.
BuildIndex(p) ==
  /\ Is(p, "index")
  /\ pc' = [pc EXCEPT ![p] = "open"] /\ plan' = [plan EXCEPT ![p] = <<>>]
  /\ UNCHANGED <<scene, fileVars, todo, overlap>>

-----------------------------------------------------------------------------
(* Writing, and dying.                                                     *)

\* A row is inserted, and the trigger counts it.
Insert(f, what, uid, by) ==
  /\ Len(rows[f]) < MaxRows
  /\ rows' = [rows EXCEPT ![f] = Append(@, [what |-> what, uid |-> uid, by |-> by])]
  /\ spend' = [spend EXCEPT ![f] = IF ~counted[f] THEN @ ELSE IF @ = None THEN 1 ELSE @ + 1]

Begin(p) ==
  /\ pc[p] = "open" /\ Every \subseteq columns[File(p)]
  /\ Insert(File(p), "call", <<"uid", File(p), Len(rows[File(p)]) + 1>>, "new")
  /\ UNCHANGED <<scene, version, columns, counted, pc, plan, todo, overlap>>

\* A process of the version the file had, which opened it then and goes on writing.
OldBegin(f) ==
  LET id == Len(rows[f]) + 1
  IN  /\ f \in scene.old
      /\ Insert(f, <<"old", f>>, IF scene.version < 2 THEN None ELSE <<"uid", f, id>>, "old")
      /\ UNCHANGED <<scene, version, columns, counted, pc, plan, todo, overlap>>

\* Killed, or closed.
Stop(p) ==
  /\ pc[p] # "closed"
  /\ pc' = [pc EXCEPT ![p] = "closed"] /\ plan' = [plan EXCEPT ![p] = <<>>]
  /\ todo' = [todo EXCEPT ![p] = {}]
  /\ UNCHANGED <<scene, fileVars, overlap>>

\* A file of an earlier version with two rows that recorded the same, or, at version 0, none.
Init ==
  /\ scene \in Scenarios
  /\ version = [f \in Files |-> IF scene.version = 0 THEN None ELSE scene.version]
  /\ columns = [f \in Files |-> ColumnsOf(scene.version)]
  /\ rows = [f \in Files |-> [id \in 1 .. IF scene.version = 0 THEN 0 ELSE 2 |->
       [what |-> "call", uid |-> IF scene.version < 2 THEN None ELSE <<"first", id>>, by |-> "before"]]]
  /\ spend = [f \in Files |-> IF scene.version < 9 THEN None ELSE 2]
  /\ counted = [f \in Files |-> scene.version >= 9]
  /\ pc = [p \in Processes |-> "closed"] /\ plan = [p \in Processes |-> <<>>]
  /\ todo = [p \in Processes |-> {}] /\ overlap = {}

Next ==
  \/ \E p \in Processes :
       \/ StartOpening(p) \/ RunScript(p) \/ ReadVersion(p) \/ Look(p) \/ AddColumn(p)
       \/ SelectNulls(p) \/ Update(p) \/ Clear(p) \/ Refill(p) \/ RecordVersion(p)
       \/ BuildIndex(p) \/ Begin(p) \/ Stop(p)
  \/ \E f \in Files : OldBegin(f)

Spec == Init /\ [][Next]_vars

-----------------------------------------------------------------------------
TypeOK ==
  /\ scene \in Scenarios
  /\ \A f \in Files :
       /\ version[f] \in Nat \cup {None} /\ columns[f] \subseteq Every
       /\ Len(rows[f]) <= MaxRows /\ spend[f] \in 0 .. 2 * MaxRows \cup {None}
  /\ \A p \in Processes : pc[p] \in {"closed", "script", "version", "migrate", "open"}
  /\ overlap \subseteq Files

Opened(f) == \E p \in Processes : File(p) = f /\ pc[p] = "open"

\* What the caps read is the sum of the rows whenever anyone has the ledger open, however
\* often an earlier opening was killed, and whatever an older process wrote meanwhile: unless
\* two processes were opening the file at once.
SpendIsTheRows ==
  \A f \in Files : Opened(f) /\ f \notin overlap =>
    (IF spend[f] = None THEN 0 ELSE spend[f]) = Len(rows[f])

\* "A process killed part way through leaves a file the next open finishes" (store.py:365):
\* once it is open, and while nobody else is opening it, the caps read the sum of the rows.
NextOpenFinishes ==
  \A f \in Files :
    Opened(f) /\ (\A p \in Processes : File(p) = f => pc[p] \in {"open", "closed"}) =>
      (IF spend[f] = None THEN 0 ELSE spend[f]) = Len(rows[f])

\* A ledger that was opened is of this version, has every column a row is written with, and
\* a uid of its own, which the unique index needs, in every row but those an older process
\* wrote after the rest had been given theirs.
OpenedIsWhole ==
  \A f \in Files : Opened(f) =>
    /\ version[f] = New /\ columns[f] = Every
    /\ \A id \in DOMAIN rows[f] : rows[f][id].uid = None => rows[f][id].by = "old"
    /\ \A i, j \in DOMAIN rows[f] : rows[f][i].uid = rows[f][j].uid => i = j \/ rows[f][i].uid = None

\* Two copies of one old file, each opened where it is and written to, are merged by their
\* uids: a call both copies have has the same in both, and no two calls share one.
CopiesAgree ==
  \A f, g \in Files : \A i \in DOMAIN rows[f], j \in DOMAIN rows[g] :
    LET r == rows[f][i]  s == rows[g][j]
        same == i = j /\ r.by = "before" /\ s.by = "before"
    IN  f # g /\ r.uid # None /\ s.uid # None => (r.uid = s.uid <=> same)

LedgerIsWhole == SpendIsTheRows /\ OpenedIsWhole /\ CopiesAgree
=============================================================================
