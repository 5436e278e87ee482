----------------------------- MODULE MCServerJobs -----------------------------
(***************************************************************************)
(* Two entries, "a" (short) and "aCompleted a" (long): a torn line for the *)
(* second may read like the first, and one for the first that continues a  *)
(* torn one, or a part of one for the second that does, like the second.   *)
(* The map moves its one slot when the second job comes (abseil:           *)
(* capacities 1, 3, 7, ...).                                               *)
(***************************************************************************)
EXTENDS ServerJobs, TLC

CONSTANTS short, long

MCEntries == {short, long}
MCPlain == [e \in MCEntries |-> e]

MCPrefixes == (short :> {short, Junk}) @@ (long :> {short, long, Junk})
MCMerged == [e \in MCEntries |-> {long, Junk}]
MCGrowsAt == {0, 1, 3, 7}

Symmetry == Permutations(JobIds) \cup Permutations(Allow \ Deny)
===============================================================================
