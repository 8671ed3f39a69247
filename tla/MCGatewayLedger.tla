-------------------------- MODULE MCGatewayLedger --------------------------
(* Instances of GatewayLedger small enough for TLC. *)
EXTENDS GatewayLedger, TLC

CONSTANTS c1, c2, c3, w1, w2, tA, tB, r1

\* Two workers, one of them serving two calls at once.
MCProcessOf2 == (c1 :> w1) @@ (c2 :> w2)
MCProcessOf3 == (c1 :> w1) @@ (c2 :> w2) @@ (c3 :> w1)

\* Calendars of one month, and of a month a day.
MCOneMonth  == [d \in Days |-> 1]
MCNewMonth  == [d \in Days |-> d]

MCFourUsd == [p \in Projects |-> 4]
MCOneUsd  == [p \in Projects |-> 1]
MCThreeUsd == [p \in Projects |-> 3]

Ask(kinds, estimates, priced) ==
  [kind : kinds, project : Projects, run : Runs \cup {NoRun},
   estimate : estimates, priced : priced]

\* Chats of two dollars, and of one in a run: two of the larger fill the month's cap, and
\* the day's and the run's take only one.
MCChats == {q \in Ask({"chat"}, {1, 2}, {TRUE}) : q.estimate = 2 \/ q.run # NoRun}

\* Chats of two dollars, of which a month's cap of three takes one.
MCTwoDollarChats == Ask({"chat"}, {2}, {TRUE})

\* Every kind of call, a chat whose model has no price among them.
MCEveryKind == Ask({"chat"}, {1}, BOOLEAN) \cup Ask({"raw", "local"}, {0}, {FALSE})
=============================================================================
