------------------------------- MODULE Crawler -------------------------------
(***************************************************************************)
(* FastCrawler of src/netpull/server: a breadth-first walk that keeps, for *)
(* every directory still to be read, a duplicate of its parent's           *)
(* descriptor, and reads one directory at a time with getdents64.          *)
(*                                                                         *)
(* An operator whose comment begins with "Faulty" is not part of the       *)
(* model: it is a plausible bug, kept to show that a property notices it.  *)
(*                                                                         *)
(* getdents64 returns the entries of a directory in any order, each one    *)
(* once; the tree does not change, except that an entry may vanish or be   *)
(* unreadable when its turn comes.  The process has a limit on descriptors *)
(* and other threads take a share of them, which comes and goes.           *)
(***************************************************************************)
EXTENDS Integers, Sequences, FiniteSets

CONSTANTS Dirs,      (* the directories under the root                     *)
          Leaves,    (* the files and symlinks under it                    *)
          Others,    (* devices, pipes and sockets, which are ignored      *)
          Root,      (* the directory that is visited                      *)
          Parent,    (* the directory of each entry                        *)
          None,      (* no directory is open                               *)
          MaxFds,    (* the descriptors the process may have               *)
          MaxFaults  (* bound on calls that fail for their own reasons     *)

Entries == Dirs \cup Leaves \cup Others

ASSUME TreeAssumption ==
  /\ Dirs \cap (Leaves \cup Others) = {}
  /\ Root \notin Entries /\ None \notin Entries \cup {Root}
  /\ Parent \in [Entries -> Dirs \cup {Root}]

ASSUME LimitAssumption == MaxFds \in Nat /\ MaxFaults \in Nat

VARIABLES
  queue,   (* FastCrawler::queue, by the directory to be opened; the front
              stays in it while it is read                                 *)
  open,    (* the directory that PumpDirectoryEntries reads                *)
  unread,  (* the entries that it has not come to yet                      *)
  fds,     (* the descriptors of the crawl that are open                   *)
  taken,   (* the descriptors that the rest of the process has             *)
  times,   (* how often HandleObject was called for each entry             *)
  lost,    (* what an error has been logged for, or a warning              *)
  faults

vars == <<queue, open, unread, fds, taken, times, lost, faults>>

Children(d) == {e \in Entries : Parent[e] = d}

(* Visit begins: the root is opened by its path, before any queue.         *)
Init ==
  /\ queue = <<Root>> /\ open = None /\ unread = {}
  /\ fds = 0 /\ taken \in 0..MaxFds
  /\ times = [e \in Entries |-> 0] /\ lost = {} /\ faults = 0

(* openat and dup need a free descriptor.                                  *)
Free == fds + taken < MaxFds

Fault == faults < MaxFaults /\ faults' = faults + 1

-------------------------------------------------------------------------------
(* Faulty Pop: the duplicate is not closed with the queue's element.       *)
PopLeaking ==
  /\ queue' = Tail(queue)
  /\ fds' = fds - (IF open # None THEN 1 ELSE 0)

(* queue.pop() after PumpDirectoryEntries has returned; the element's      *)
(* ScopedFd closes its descriptor.  There is none for the root.            *)
Pop ==
  /\ queue' = Tail(queue)
  /\ fds' = fds - (IF open # None THEN 1 ELSE 0) - (IF Head(queue) = Root THEN 0 ELSE 1)

(* openat of the next directory.                                           *)
Open ==
  /\ open = None /\ queue # << >> /\ Free
  /\ open' = Head(queue) /\ unread' = Children(Head(queue))
  /\ fds' = fds + 1
  /\ UNCHANGED <<queue, taken, times, lost, faults>>

(* Faulty OpenFails: for want of a descriptor it is tried again.           *)
OpenFailsOtherwise ==
  /\ open = None /\ queue # << >>
  /\ Fault
  /\ lost' = lost \cup {Head(queue)}
  /\ Pop
  /\ UNCHANGED <<open, unread, taken, times>>

(* openat fails, for want of a descriptor or because of the directory, and *)
(* PumpDirectoryEntries returns.                                           *)
OpenFails ==
  /\ open = None /\ queue # << >>
  /\ (~Free /\ UNCHANGED faults) \/ Fault
  /\ lost' = lost \cup {Head(queue)}
  /\ Pop
  /\ UNCHANGED <<open, unread, taken, times>>

(* Faulty Keep: HandleObject queues the directory as well.                 *)
KeepTwice(e) == /\ queue' = queue \o <<e, e>>
                /\ fds' = fds + 2

(* queue.emplace with a duplicate of the open directory.                   *)
Keep(e) == /\ queue' = Append(queue, e)
           /\ fds' = fds + 1

(* Faulty Read: a directory whose dup failed is not handled, nor reported. *)
ReadQuietly(e) ==
  /\ e \in unread /\ e \notin Others
  /\ unread' = unread \ {e}
  /\ \/ /\ e \notin Dirs
        /\ times' = [times EXCEPT ![e] = @ + 1]
        /\ UNCHANGED <<queue, fds>>
     \/ /\ e \in Dirs /\ Free /\ Keep(e)
        /\ times' = [times EXCEPT ![e] = @ + 1]
     \/ e \in Dirs /\ ~Free /\ UNCHANGED <<queue, fds, times>>
  /\ UNCHANGED <<open, taken, lost, faults>>

(* One entry of the buffer is handled; a directory is queued as well,      *)
(* unless its dup fails.  An unknown d_type is resolved by the mode.       *)
Read(e) ==
  /\ e \in unread /\ e \notin Others
  /\ unread' = unread \ {e}
  /\ times' = [times EXCEPT ![e] = @ + 1]
  /\ \/ e \notin Dirs /\ UNCHANGED <<queue, fds, lost>>
     \/ e \in Dirs /\ Free /\ Keep(e) /\ UNCHANGED lost
     \/ e \in Dirs /\ ~Free /\ lost' = lost \cup {e} /\ UNCHANGED <<queue, fds>>
  /\ UNCHANGED <<open, taken, faults>>

(* An entry that cannot be inspected, or is of a type that is ignored, is  *)
(* passed over with a message.                                             *)
Pass(e) ==
  /\ e \in unread
  /\ (e \in Others /\ UNCHANGED faults) \/ Fault
  /\ unread' = unread \ {e} /\ lost' = lost \cup {e}
  /\ UNCHANGED <<queue, open, fds, taken, times>>

(* getdents64 returns 0, and the descriptor of the directory is closed.    *)
Close ==
  /\ open # None /\ unread = {}
  /\ Pop /\ open' = None
  /\ UNCHANGED <<unread, taken, times, lost, faults>>

(* getdents64 fails before the end.                                        *)
ReadFails ==
  /\ open # None /\ Fault
  /\ Pop /\ open' = None /\ unread' = {} /\ lost' = lost \cup {open}
  /\ UNCHANGED <<taken, times>>

(* Connections and files of the other threads come and go.                 *)
Elsewhere ==
  /\ \E n \in 0..MaxFds : n + fds <= MaxFds /\ n # taken /\ taken' = n
  /\ UNCHANGED <<queue, open, unread, fds, times, lost, faults>>

Step == \/ Open \/ OpenFails \/ Close \/ ReadFails
        \/ \E e \in Entries : Read(e) \/ Pass(e)

Next == Step \/ Elsewhere

Spec == Init /\ [][Next]_vars

(* The thread of the crawl is never blocked: every call returns.           *)
FairSpec == Spec /\ WF_vars(Step)

-------------------------------------------------------------------------------
(* Every variable has its type, and the process keeps to its limit.        *)
TypeOK ==
  /\ queue \in Seq(Dirs \cup {Root})
  /\ open \in Dirs \cup {Root, None} /\ unread \subseteq Entries
  /\ fds \in Nat /\ taken \in Nat /\ fds + taken <= MaxFds
  /\ times \in [Entries -> Nat] /\ lost \subseteq Entries \cup {Root}
  /\ faults \in 0..MaxFaults

(* The crawl holds one descriptor for each queued directory and one for    *)
(* the open one, on every path out of PumpDirectoryEntries; in the end it  *)
(* holds none.                                                             *)
FdsAreExact ==
  fds = Len(queue) - (IF queue # << >> /\ Head(queue) = Root THEN 1 ELSE 0)
                   + (IF open # None THEN 1 ELSE 0)

(* When Visit returns, whatever was not handled has a message of its own,  *)
(* or its directory has one, or its directory was not handled either: no   *)
(* part of the tree is left out in silence, though descriptors ran out.    *)
NothingIsSilent ==
  queue = << >> =>
    \A e \in Entries :
      \/ times[e] > 0 \/ e \in lost
      \/ Parent[e] \in lost
      \/ Parent[e] # Root /\ times[Parent[e]] = 0

(* Visit returns, whatever fails.                                          *)
VisitReturns == <>(queue = << >>)

TW == INSTANCE TreeWalk

(* The walk handles every entry at most once, and after its directory.     *)
ImplementsTreeWalk == TW!WSpec
===============================================================================
