---------------------------- MODULE DashboardPage ----------------------------
(***************************************************************************)
(* The dashboard of boundary/server/app.py: a page rendered in a thread    *)
(* from the proxy's own ledger and the central one, kept by the worker     *)
(* that rendered it, and dropped by a push that worker answers.            *)
(*                                                                         *)
(* A render is under way while pushes, calls and other renders go on, so   *)
(* a page may be put back that a push has just dropped.  A row is how far  *)
(* its call is; the page is what it shows of each call.                    *)
(***************************************************************************)
EXTENDS Naturals

CONSTANTS
  None, Calls, Viewers, Workers,
  Ttl,      \* DASHBOARD_TTL_S, in steps of the clock
  Horizon   \* bound: the clock

DashboardAssumption == Ttl \in Nat \ {0} /\ Horizon \in Nat /\ None \notin Workers

VARIABLES
  tables,   \* one process with its files, or workers on Postgres's tables
  clock,
  rows,     \* own: the proxy's ledger; central: what was pushed
  page,     \* of each worker: state.page, or None
  push,     \* of each call: the push that brings its row, on which worker
  view,     \* of each viewer: its request
  stood,    \* history: what the tables said of each call when the clock became what it is
  answered      \* history: of each worker, the rows whose pushes it has answered

vars == <<tables, clock, rows, page, push, view, stood, answered>>

Rank == [none |-> 0, in_flight |-> 1, complete |-> 2]
Reaches(shown, known) == \A u \in Calls : Rank[shown[u]] >= Rank[known[u]]
Nothing == [u \in Calls |-> "none"]
Further(a, b) == IF Rank[a] < Rank[b] THEN b ELSE a
Known == [u \in Calls |-> Further(rows.own[u], rows.central[u])]

Init ==
  /\ tables \in {"files", "hosted"} /\ clock = 0
  /\ rows = [own |-> Nothing, central |-> Nothing]
  /\ page = [w \in Workers |-> None]
  /\ push = [u \in Calls |-> [at |-> "idle", on |-> None, row |-> "none"]]
  /\ view = [v \in Viewers |-> [at |-> "away"]]
  /\ stood = [t \in {0} |-> Nothing] /\ answered = [w \in Workers |-> Nothing]

-----------------------------------------------------------------------------
(* What changes the tables.                                                *)

Calling(u) ==
  /\ rows.own[u] # "complete"
  /\ rows' = [rows EXCEPT !.own[u] = IF @ = "none" THEN "in_flight" ELSE "complete"]
  /\ UNCHANGED <<tables, clock, page, push, view, stood, answered>>

Serving == IF tables = "files" THEN {CHOOSE w \in Workers : TRUE} ELSE Workers

\* central.ingest in a thread; a row it holds already is completed or left as it is.
PushRows(u, w) ==
  /\ push[u].at = "idle" /\ w \in Serving
  /\ \E row \in {"in_flight", "complete"} :
       /\ push' = [push EXCEPT ![u] = [at |-> "committed", on |-> w, row |-> row]]
       /\ rows' = [rows EXCEPT !.central[u] = Further(@, row)]
  /\ UNCHANGED <<tables, clock, page, view, stood, answered>>

UnderWay(v, w) == view[v].at \in {"asked", "half", "read"} /\ view[v].on = w

\* Back in the handler: the page is dropped, and a render that has begun is not.
AnswerPush(u) ==
  LET w == push[u].on
  IN  /\ push[u].at = "committed"
      /\ page' = [page EXCEPT ![w] = None]
      /\ push' = [push EXCEPT ![u] = [at |-> "answered", on |-> None, row |-> "none"]]
      /\ answered' = [answered EXCEPT ![w][u] = Further(@, push[u].row)]
      /\ view' = [v \in Viewers |->
                    IF UnderWay(v, w) THEN [view[v] EXCEPT !.crossed = TRUE] ELSE view[v]]
      /\ UNCHANGED <<tables, clock, rows, stood>>

-----------------------------------------------------------------------------
(* dashboard_page and _render_dashboard.                                   *)

\* Nothing is kept, or what is kept has outlived DASHBOARD_TTL_S.
Stale(w) == page[w] = None \/ clock - page[w].at > Ttl

Look(v, w) ==
  /\ view[v].at \in {"away", "shown"} /\ w \in Serving
  /\ view' = [view EXCEPT ![v] =
       [at |-> IF Stale(w) THEN "asked" ELSE "shown", on |-> w, time |-> clock, own |-> Nothing,
        must |-> answered[w], crossed |-> FALSE, page |-> page[w]]]
  /\ UNCHANGED <<tables, clock, rows, page, push, stood, answered>>

Union(own, central) ==
  [u \in Calls |-> IF own[u] = "none" \/ (own[u] = "in_flight" /\ central[u] = "complete")
                   THEN central[u] ELSE own[u]]

\* Of files, one ledger after the other.
ReadOwn(v) ==
  /\ view[v].at = "asked" /\ tables = "files"
  /\ view' = [view EXCEPT ![v].at = "half", ![v].own = rows.own]
  /\ UNCHANGED <<tables, clock, rows, page, push, stood, answered>>

Rendered(v, own) ==
  /\ view' = [view EXCEPT ![v].at = "read", ![v].own = Union(own, rows.central)]
  /\ UNCHANGED <<tables, clock, rows, page, push, stood, answered>>
ReadCentral(v) == view[v].at = "half" /\ Rendered(v, view[v].own)
\* dashboard_rows: the same in one query.
ReadBoth(v) == view[v].at = "asked" /\ tables = "hosted" /\ Rendered(v, rows.own)

\* The page is as old as the request that had it rendered.
KeepAs(v, time) ==
  LET made == [at |-> time, rows |-> view[v].own, crossed |-> view[v].crossed]
  IN  /\ view[v].at = "read"
      /\ page' = [page EXCEPT ![view[v].on] = made]
      /\ view' = [view EXCEPT ![v].at = "shown", ![v].own = Nothing, ![v].page = made]
      /\ UNCHANGED <<tables, clock, rows, push, stood, answered>>
KeepLate(v) == KeepAs(v, clock)
Keep(v) == KeepAs(v, view[v].time)

\* The viewer disconnects, or the tables cannot be read: nothing is kept.
Leave(v) ==
  /\ view[v].at \in {"asked", "half", "read"}
  /\ view' = [view EXCEPT ![v] = [at |-> "away"]]
  /\ UNCHANGED <<tables, clock, rows, page, push, stood, answered>>

Restart(w) ==
  /\ page[w] # None
  /\ page' = [page EXCEPT ![w] = None]
  /\ view' = [v \in Viewers |-> IF UnderWay(v, w) THEN [at |-> "away"] ELSE view[v]]
  /\ UNCHANGED <<tables, clock, rows, push, stood, answered>>

Tick ==
  /\ clock < Horizon /\ clock' = clock + 1
  /\ stood' = [t \in 0 .. clock + 1 |-> IF t = clock + 1 THEN Known ELSE stood[t]]
  /\ UNCHANGED <<tables, rows, page, push, view, answered>>

Next ==
  \/ \E u \in Calls : Calling(u) \/ AnswerPush(u) \/ \E w \in Workers : PushRows(u, w)
  \/ \E v \in Viewers : \/ \E w \in Workers : Look(v, w)
                        \/ ReadOwn(v) \/ ReadCentral(v) \/ ReadBoth(v) \/ Keep(v) \/ Leave(v)
  \/ \E w \in Workers : Restart(w)
  \/ Tick

Spec == Init /\ [][Next]_vars

-----------------------------------------------------------------------------
\* "The page is rebuilt at most once a minute, and after every push" (docs/central.md:88), as
\* far as it goes with renders that other steps cross: a viewer sees of every call what the
\* tables said a lifetime of the page before it came, and no more than they say now; and the
\* rows of a push its own worker had answered, unless the page's render began before that.
PageIsRecent ==
  \A v \in Viewers : view[v].at = "shown" =>
    LET shown == view[v].page
    IN  /\ view[v].time >= Ttl => Reaches(shown.rows, stood[view[v].time - Ttl])
        /\ ~shown.crossed => Reaches(shown.rows, view[v].must)
        /\ Reaches(Known, shown.rows)
=============================================================================
