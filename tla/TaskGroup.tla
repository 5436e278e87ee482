------------------------------ MODULE TaskGroup ------------------------------
(***************************************************************************)
(* What a SubmissionKey promises, without queue, workers or counter: the   *)
(* tasks holding one key form a group; a thread that waits for the group   *)
(* gets through only when the group is empty, and from then on it stays    *)
(* empty.  WorkerPool implements this (src/netpull/parallel/worker_pool.h, *)
(* the comments on SubmissionKey, Task and WorkerPool::Submit).            *)
(***************************************************************************)
CONSTANTS Tasks,      (* every task that may be submitted                  *)
          Keys,       (* the submission keys                               *)
          KeyOf,      (* the key of a task, outside Keys for nullptr       *)
          FollowUp    (* the task that a task submits while it runs        *)

VARIABLES live,       (* submitted and not yet executed to the end         *)
          over,       (* executed to the end                               *)
          gate        (* where the thread that owns a key stands           *)

gvars == <<live, over, gate>>

GInit ==
  /\ live = {}
  /\ over = {}
  /\ gate = [k \in Keys |-> "submitting"]

(* A task enters its group from the key's owner before it waits, or from a *)
(* member of the group that is still executing.                            *)
Enter(t) ==
  /\ t \notin live \cup over
  /\ \/ KeyOf[t] \notin Keys
     \/ KeyOf[t] \in Keys /\ gate[KeyOf[t]] = "submitting"
     \/ \E p \in live : FollowUp[p] = t /\ KeyOf[p] = KeyOf[t]
  /\ live' = live \cup {t}
  /\ UNCHANGED <<over, gate>>

Leave(t) ==
  /\ t \in live
  /\ live' = live \ {t}
  /\ over' = over \cup {t}
  /\ UNCHANGED gate

(* Another task takes the place of one that is over.  Only tasks outside   *)
(* every group are made anew.                                              *)
Renew(t) ==
  /\ t \in over
  /\ KeyOf[t] \notin Keys
  /\ over' = over \ {t}
  /\ UNCHANGED <<live, gate>>

StartWait(k) ==
  /\ gate[k] = "submitting"
  /\ gate' = [gate EXCEPT ![k] = "waiting"]
  /\ UNCHANGED <<live, over>>

Pass(k) ==
  /\ gate[k] = "waiting"
  /\ \A t \in live : KeyOf[t] # k
  /\ gate' = [gate EXCEPT ![k] = "passed"]
  /\ UNCHANGED <<live, over>>

GNext ==
  \/ \E t \in Tasks : Enter(t) \/ Leave(t) \/ Renew(t)
  \/ \E k \in Keys : StartWait(k) \/ Pass(k)

GSpec == GInit /\ [][GNext]_gvars
==============================================================================
