----------------------------- MODULE MCCallParts -----------------------------
(***************************************************************************)
(* The parts of CallParts, each on a small instance.  The token's lifetime *)
(* leaves half of it to refresh in, and an attempt may take a third.  The  *)
(* measurement has three answers, two at a time, in chunks of two, up to   *)
(* two dollars a run.  A worker's page has two that look at it, and one    *)
(* call that is made, pushed or both.  One batch is collected twice:       *)
(* everyone may stop, and results are left out, unnamed or both.           *)
(***************************************************************************)
EXTENDS CallParts

\* A model with every rate, and one with neither cache rates nor a batch rate.
MCRates ==
  {[plain |-> 3, read |-> 1, written |-> 5, output |-> 20, batch |-> 2],
   [plain |-> 4, read |-> Unset, written |-> Unset, output |-> 30, batch |-> Unset]}

\* Two capitals that are a common initialism in one order and not in the other.
MCInitialisms == {<<"U", "K">>}
=============================================================================
