------------------------------ MODULE HostedMove ------------------------------
(***************************************************************************)
(* A proxy moved from its SQLite files to Postgres: `boundary db import`   *)
(* (cmd_db_import of boundary/cli.py, boundary/pg.py) copies the ledger,   *)
(* the audit chain and the central ledger, each in transactions of its     *)
(* own.  It may be killed, run again, and run twice at once; the hosted    *)
(* proxy, its sealer and the sources that push to it start once an import  *)
(* got through, and a later import runs beside them.                       *)
(*                                                                         *)
(* The old proxy is stopped while an import runs (docs/deploy.md), and is  *)
(* not started again once the chain was imported.  A row is whether its    *)
(* call is complete; a chain is the calls it seals.                        *)
(***************************************************************************)
EXTENDS Naturals, Sequences, FiniteSets, SequencesExt

CONSTANTS Calls, Importers, MaxLocal   \* bound: the rows a source says it has

HostedMoveAssumption == IsFiniteSet(Calls) /\ IsFiniteSet(Importers) /\ MaxLocal \in Nat

States == {"none", "in_flight", "complete"}
Rows == [Calls -> States]
Rank == [none |-> 0, in_flight |-> 1, complete |-> 2]
Reaches(held, rows) == \A u \in Calls : Rank[held[u]] >= Rank[rows[u]]
Completed(rows) == {u \in Calls : rows[u] = "complete"}

VARIABLES
  old,      \* the files: ledger, chain, central, receipts (ingest_row), local (the
            \* rows ingest_source says its one source has; 0: it is not known)
  hosted,   \* the same, in Postgres
  up,       \* the hosted proxy was started
  anchor,   \* how much of the old chain the last published anchor names, and that part
  imports,  \* of each import: where it is, the records it read, the central rows to go
  pushed    \* history: the rows its source last said it has, to the hosted proxy

vars == <<old, hosted, up, anchor, imports, pushed>>

Empty == [ledger |-> [u \in Calls |-> "none"], chain |-> <<>>,
          central |-> [u \in Calls |-> "none"], receipts |-> {}, local |-> 0]
NoImport == [at |-> "idle", records |-> <<>>, left |-> {}]

\* Whatever an old proxy and its pushes may have left.
Init ==
  /\ old \in [ledger : Rows, chain : SeqOf(Calls, Cardinality(Calls)),
              central : Rows, receipts : SUBSET Calls, local : 0 .. Cardinality(Calls)]
  /\ IsInjective(old.chain) /\ ToSet(old.chain) \subseteq Completed(old.ledger)
  /\ \A u \in old.receipts : old.central[u] # "none"
  /\ old.local = Cardinality(old.receipts)
  /\ \E n \in {0, Len(old.chain)} : anchor = SubSeq(old.chain, 1, n)
  /\ hosted = Empty /\ up = FALSE /\ pushed = 0
  /\ imports = [i \in Importers |-> NoImport]

-----------------------------------------------------------------------------
(* The old proxy, started again before an import got anywhere.             *)

OldRuns ==
  /\ ~up /\ hosted.chain = <<>> /\ \A i \in Importers : imports[i].at = "idle"
  /\ UNCHANGED <<hosted, up, imports, pushed>>
OldCompletes(u) ==
  /\ OldRuns /\ old.ledger[u] = "in_flight"
  /\ old' = [old EXCEPT !.ledger[u] = "complete"]
  /\ UNCHANGED anchor
OldSeals(u) ==
  /\ OldRuns /\ u \in Completed(old.ledger) \ ToSet(old.chain)
  /\ old' = [old EXCEPT !.chain = Append(@, u)]
  /\ anchor' \in {anchor, old'.chain}

-----------------------------------------------------------------------------
(* cmd_db_import.                                                          *)

Goes(i, at) == imports' = [imports EXCEPT ![i].at = at]

Merged(held, row) ==
  IF held = "none" \/ (held = "in_flight" /\ row = "complete") THEN row ELSE held

\* merge_rows of the ledger: one transaction.
ImportLedger(i) ==
  /\ imports[i].at = "idle" /\ Goes(i, "audit")
  /\ hosted' = [hosted EXCEPT !.ledger = [u \in Calls |-> Merged(@[u], old.ledger[u])]]
  /\ UNCHANGED <<old, up, anchor, pushed>>

\* The records are read and the table's head is looked at, outside the transaction.
ReadChain(i) ==
  /\ imports[i].at = "audit"
  /\ imports' = [imports EXCEPT ![i].records = old.chain,
                                ![i].at = IF hosted.chain = <<>> THEN "import" ELSE "central"]
  /\ UNCHANGED <<old, hosted, up, anchor, pushed>>

\* import_records, under the advisory lock: a table that is no longer empty is a ValueError.
ImportChain(i) ==
  /\ imports[i].at = "import"
  /\ IF hosted.chain = <<>>
     THEN hosted' = [hosted EXCEPT !.chain = imports[i].records] /\ Goes(i, "central")
     ELSE UNCHANGED hosted /\ imports' = [imports EXCEPT ![i] = NoImport]
  /\ UNCHANGED <<old, up, anchor, pushed>>

\* The central rows, some at a time, each lot a transaction.
ReadCentral(i) ==
  /\ imports[i].at = "central"
  /\ imports' = [imports EXCEPT ![i].at = "rows",
                                ![i].left = {u \in Calls : old.central[u] # "none"}]
  /\ UNCHANGED <<old, hosted, up, anchor, pushed>>
ImportRow(i, u) ==
  /\ imports[i].at = "rows" /\ u \in imports[i].left
  /\ hosted' = [hosted EXCEPT !.central[u] = Merged(@, old.central[u])]
  /\ imports' = [imports EXCEPT ![i].left = @ \ {u}]
  /\ UNCHANGED <<old, up, anchor, pushed>>

\* import_sources: what each source has delivered, and says it has, unless it is known here.
Sources(i) ==
  /\ imports[i].at = "rows" /\ imports[i].left = {}
  /\ imports' = [imports EXCEPT ![i] = [NoImport EXCEPT !.at = "done"]]
  /\ UNCHANGED <<old, up, anchor, pushed>>
SourcesOver(i) ==
  /\ Sources(i)
  /\ hosted' = [hosted EXCEPT !.receipts = @ \cup old.receipts, !.local = old.local]
ImportSources(i) ==
  /\ Sources(i)
  /\ hosted' = [hosted EXCEPT !.receipts = @ \cup old.receipts,
                              !.local = IF @ = 0 THEN old.local ELSE @]

Kill(i) ==
  /\ imports[i].at \notin {"idle", "done"}
  /\ imports' = [imports EXCEPT ![i] = NoImport]
  /\ UNCHANGED <<old, hosted, up, anchor, pushed>>

\* Run again, whenever.
Again(i) ==
  /\ imports[i].at = "done" /\ up
  /\ imports' = [imports EXCEPT ![i] = NoImport]
  /\ UNCHANGED <<old, hosted, up, anchor, pushed>>

-----------------------------------------------------------------------------
(* The hosted proxy, its sealer (cmd_audit_follow) and a source's pushes.  *)

Start ==
  /\ ~up /\ \E i \in Importers : imports[i].at = "done"
  /\ up' = TRUE /\ UNCHANGED <<old, hosted, anchor, imports, pushed>>

Call(u) ==
  /\ up /\ hosted.ledger[u] # "complete"
  /\ hosted' = [hosted EXCEPT !.ledger[u] = IF @ = "none" THEN "in_flight" ELSE "complete"]
  /\ UNCHANGED <<old, up, anchor, imports, pushed>>

Seal(u) ==
  /\ up /\ u \in Completed(hosted.ledger) \ ToSet(hosted.chain)
  /\ hosted' = [hosted EXCEPT !.chain = Append(@, u)]
  /\ UNCHANGED <<old, up, anchor, imports, pushed>>

\* ingest: rows, then receipts; a source that pushed to the old proxy has at least its rows.
Push(u) ==
  /\ up /\ hosted.local < MaxLocal
  /\ \E row \in {"in_flight", "complete"} :
       hosted' = [hosted EXCEPT !.central[u] = Merged(@, row), !.receipts = @ \cup {u},
                                !.local = @ + 1]
  /\ pushed' = hosted'.local
  /\ UNCHANGED <<old, up, anchor, imports>>

Next ==
  \/ Start
  \/ \E u \in Calls : OldCompletes(u) \/ OldSeals(u) \/ Call(u) \/ Seal(u) \/ Push(u)
  \/ \E i \in Importers :
       \/ ImportLedger(i) \/ ReadChain(i) \/ ImportChain(i) \/ ReadCentral(i)
       \/ ImportSources(i) \/ Kill(i) \/ Again(i)
       \/ \E u \in Calls : ImportRow(i, u)

Spec == Init /\ [][Next]_vars

-----------------------------------------------------------------------------
\* dashboard_rows and union: the copy of a call the page shows, "ledger" or "central".
InLedger(u) == hosted.ledger[u] # "none"
Shown(u) ==
  CHOOSE copy \in {c \in {"ledger", "central"} : hosted[c][u] # "none"} :
    \A c \in {d \in {"ledger", "central"} : hosted[d][u] # "none"} :
      \/ c = copy
      \/ Rank[hosted[copy][u]] > Rank[hosted[c][u]]
      \/ Rank[hosted[copy][u]] = Rank[hosted[c][u]] /\ copy = "ledger"
Union(u) ==
  IF ~InLedger(u) \/ (hosted.ledger[u] = "in_flight" /\ hosted.central[u] = "complete")
  THEN "central" ELSE "ledger"

\* Once an import is through, nothing of the old proxy is missing or behind in the hosted one:
\* rows, receipts, and the record each published anchor names; killed, repeated or doubled,
\* it neither seals a call twice nor puts a receipt before its row, and what a source has said
\* since it was moved is not set back (cmd_db_import, import_records, import_sources).  The
\* page shows a call once, whole where either ledger has it whole.
MoveIsWhole ==
  /\ up \/ (\E i \in Importers : imports[i].at = "done") =>
       /\ Reaches(hosted.ledger, old.ledger) /\ Reaches(hosted.central, old.central)
       /\ old.receipts \subseteq hosted.receipts
       /\ IsPrefix(anchor, hosted.chain)
  /\ IsInjective(hosted.chain) /\ ToSet(hosted.chain) \subseteq Completed(hosted.ledger)
  /\ \A u \in hosted.receipts : hosted.central[u] # "none"
  /\ hosted.local >= pushed
  /\ \A u \in Calls : InLedger(u) \/ hosted.central[u] # "none" => Shown(u) = Union(u)
=============================================================================
