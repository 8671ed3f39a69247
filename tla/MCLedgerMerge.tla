--------------------------- MODULE MCLedgerMerge ---------------------------
(* Instances of LedgerMerge for TLC; the values are in the .cfg files.     *)
EXTENDS LedgerMerge, TLC

CONSTANTS u1, u2, s1, s2

\* Both calls are made in the first file; the second holds what is merged into it.
MCHome == (u1 :> s1) @@ (u2 :> s1)

\* The first file is pushed and merged into the second, which is pushed too.
MCFlows == {<<s1, Central>>, <<s1, s2>>, <<s2, Central>>}

\* The commands are alike, and the calls.
MCSymmetry == Permutations(Jobs) \cup Permutations(Calls)
=============================================================================
