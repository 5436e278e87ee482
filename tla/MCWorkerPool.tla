----------------------------- MODULE MCWorkerPool -----------------------------
(***************************************************************************)
(* Two keyed groups and a keyless task on two workers, as on the server:   *)
(* the keys are two client managers, the keyless task a FileStreamTask,    *)
(* of which one follows the other.                                         *)
(* In group k1 the task a1 submits a2 while it runs, as on the client.     *)
(***************************************************************************)
EXTENDS WorkerPool

CONSTANTS k1, k2, a1, a2, b1, b2, s1

MCTasks == {a1, a2, b1, b2, s1}
MCKeys == {k1, k2}

MCKeyOf ==
  [t \in MCTasks |-> CASE t \in {a1, a2} -> k1
                       [] t \in {b1, b2} -> k2
                       [] OTHER -> NoKey]

(* kFileStream (1) before kFileIntegrity (0).                              *)
MCPriorityOf == [t \in MCTasks |-> IF t \in {s1, b2} THEN 1 ELSE 0]

MCFollowUp == [t \in MCTasks |-> IF t = a1 THEN a2 ELSE NoTask]
==============================================================================
