------------------------------- MODULE TreeWalk -------------------------------
(***************************************************************************)
(* What FastCrawler promises to the code that handles its objects, without *)
(* descriptors and queues: every entry is handled at most once and after   *)
(* its directory, and an entry that is not handled has been given up, or a *)
(* directory above it has; what has been given up is not taken up again.   *)
(* NetPull's manager crawls in this way.                                   *)
(***************************************************************************)
EXTENDS Naturals

CONSTANTS Entries,   (* everything under the root                          *)
          Root,      (* the directory that is visited                      *)
          Parent     (* the directory of each entry                        *)

VARIABLES times,     (* how often each entry has been handled              *)
          lost       (* the entries and directories given up               *)

wvars == <<times, lost>>

WInit == times = [e \in Entries |-> 0] /\ lost = {}

Reached(e) == Parent[e] = Root \/ times[Parent[e]] = 1

(* A directory may be handled and its inside given up in one step.         *)
Handle(e) ==
  /\ times[e] = 0 /\ Reached(e)
  /\ {e, Parent[e]} \cap lost = {}
  /\ times' = [times EXCEPT ![e] = 1]
  /\ lost' \in {lost, lost \cup {e}}

(* An entry before it is handled, or the inside of a directory.            *)
GiveUp(d) ==
  /\ lost' = lost \cup {d}
  /\ UNCHANGED times

WNext ==
  \/ \E e \in Entries : Handle(e)
  \/ \E d \in Entries \cup {Root} : GiveUp(d)

WSpec == WInit /\ [][WNext]_wvars
===============================================================================
