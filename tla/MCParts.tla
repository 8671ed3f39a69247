------------------------------- MODULE MCParts -------------------------------
(***************************************************************************)
(* The parts of SoloParts, each on a small instance.  Two corruptions of a *)
(* chain of two calls; a hosted sealer beside an operator's `boundary      *)
(* audit seal`, with calls served while it opens, ids that become visible  *)
(* out of order, and appends that raise; one batch of up to three requests *)
(* at each kind of vendor; texts of up to six characters, in pieces of up  *)
(* to three, of which the longest that is held is five; and a prompt that  *)
(* is long past four tokens, where up to three are estimated, and twice    *)
(* that counted.                                                           *)
(***************************************************************************)
EXTENDS SoloParts, RedactionCases

CONSTANTS p1, p2, f1, f2

Calls == INSTANCE CallCases WITH Unset <- None

MCCases == Calls!PlaceCases \cup Calls!PriceCases

\* One process after the other, or both at once, on one file of each version; an older process
\* beside them; and two copies of a file, each opened by its own.
MCScenarios ==
  LET Both == [p \in {p1, p2} |-> f1]  Apart == (p1 :> f1) @@ (p2 :> f2)
  IN  [version : {0, 1, 8, 9, 11, 12}, file : {Both}, old : {{}}]
        \cup [version : {1, 8}, file : {Both}, old : {{f1}}]
        \cup [version : {1}, file : {Apart}, old : {{f1, f2}}]
=============================================================================
