------------------------------ MODULE WorkerPool ------------------------------
(***************************************************************************)
(* The worker pool of src/netpull/parallel: a priority queue of tasks, the *)
(* threads that pop and execute them, and the SubmissionKeys that count a  *)
(* submitter's pending tasks.                                              *)
(*                                                                         *)
(* An operator whose comment begins with "Faulty" is not part of the       *)
(* model: it is a plausible bug, kept to show that a property notices it.  *)
(*                                                                         *)
(* Each action is one critical section of the code (a lock/unlock pair of  *)
(* ThreadSafeTaskQueue::mutex or SubmissionKey::mutex) together with the   *)
(* thread-local code around it.  What a task does in Run is left open,     *)
(* except that it may submit one follow-up task under its own key, as the  *)
(* client's FileStreamTask does (netpull_client.cc:253).                   *)
(***************************************************************************)
EXTENDS Integers, FiniteSets

CONSTANTS Workers,     (* the threads that Start creates                   *)
          Tasks,       (* every task that may be submitted                 *)
          Keys,        (* the submission keys, one per waiting thread      *)
          NoKey,       (* a nullptr key                                    *)
          NoTask,      (* no follow-up; a worker without a task            *)
          KeyOf,       (* Task::key_                                       *)
          PriorityOf,  (* Task::priority()                                 *)
          FollowUp     (* the task submitted from within Run               *)

ASSUME KeyAssumption ==
  /\ NoKey \notin Keys
  /\ KeyOf \in [Tasks -> Keys \cup {NoKey}]

ASSUME TaskAssumption ==
  /\ IsFiniteSet(Tasks)
  /\ NoTask \notin Tasks
  /\ PriorityOf \in [Tasks -> Int]
  /\ FollowUp \in [Tasks -> Tasks \cup {NoTask}]

(* FileStreamTask hands its own key on (mutable_key()), and every task     *)
(* object is submitted from one place.                                     *)
ASSUME FollowUpAssumption ==
  \A t, u \in Tasks :
    FollowUp[t] = u =>
      /\ KeyOf[u] = KeyOf[t]
      /\ \A s \in Tasks : FollowUp[s] = u => s = t

(* What a worker holds once its function has returned.                     *)
Exited == "exited"

ASSUME ExitedAssumption == Exited \notin Tasks \cup {NoTask}

VARIABLES
  phase,    (* where each task is: new, prepared (AddPending done), queued,
               running, finished (executed, RemovePending done)            *)
  worker,   (* the task each worker executes, NoTask inside
               WaitForTaskAndPop, "exited" once its function returned      *)
  pending,  (* SubmissionKey::pending                                      *)
  gate,     (* the owner of each key: submitting, waiting in
               WaitForPending, or passed                                   *)
  done,     (* ThreadSafeTaskQueue::done                                   *)
  joined    (* WaitForCompletion has joined every thread                   *)

vars == <<phase, worker, pending, gate, done, joined>>

(* ThreadSafeTaskQueue::queue.  std::priority_queue leaves the order of    *)
(* equal priorities open, so the queue is a set.                           *)
queue == {t \in Tasks : phase[t] = "queued"}

(* The tasks submitted by a thread outside the pool.                       *)
Roots == {t \in Tasks : \A p \in Tasks : FollowUp[p] # t}

(* The state when WorkerPool::Start has returned: every worker is in       *)
(* WaitForTaskAndPop and nothing has been submitted.                       *)
Init ==
  /\ phase = [t \in Tasks |-> "new"]
  /\ worker = [w \in Workers |-> NoTask]
  /\ pending = [k \in Keys |-> 0]
  /\ gate = [k \in Keys |-> "submitting"]
  /\ done = FALSE
  /\ joined = FALSE

-------------------------------------------------------------------------------
(* Faulty AddPending: a flag in place of a counter.                        *)
AddPendingAsFlag(t) ==
  pending' = IF KeyOf[t] = NoKey THEN pending ELSE [pending EXCEPT ![KeyOf[t]] = 1]

(* Faulty RemovePending: Execute without its ScopedDefer.                  *)
RemovePendingForgotten(t) == pending' = pending

(* SubmissionKey::AddPending and RemovePending through Task::Prepare and   *)
(* the ScopedDefer of Task::Execute; a nullptr key is skipped.             *)
AddPending(t) ==
  pending' = IF KeyOf[t] = NoKey THEN pending
             ELSE [pending EXCEPT ![KeyOf[t]] = @ + 1]

RemovePending(t) ==
  pending' = IF KeyOf[t] = NoKey THEN pending
             ELSE [pending EXCEPT ![KeyOf[t]] = @ - 1]

(* Faulty Prepare: the key is not told of the task.                        *)
PrepareUncounted(t) ==
  /\ phase[t] = "new"
  /\ phase' = [phase EXCEPT ![t] = "prepared"]
  /\ UNCHANGED pending

(* First half of WorkerPool::Submit.                                       *)
Prepare(t) ==
  /\ phase[t] = "new"
  /\ AddPending(t)
  /\ phase' = [phase EXCEPT ![t] = "prepared"]

(* Second half of WorkerPool::Submit.  It looks at no flag: a task may be  *)
(* queued after Done, and is then never popped.                            *)
Enqueue(t) ==
  /\ phase[t] = "prepared"
  /\ phase' = [phase EXCEPT ![t] = "queued"]
  /\ UNCHANGED <<worker, pending, gate, done, joined>>

(* A thread outside the pool calls Submit; it is sequential, so it has at  *)
(* most one task between the two halves.                                   *)
Submit(t) ==
  /\ t \in Roots
  /\ \A u \in Roots : KeyOf[u] = KeyOf[t] => phase[u] # "prepared"
  /\ KeyOf[t] # NoKey => gate[KeyOf[t]] = "submitting"
  /\ Prepare(t)
  /\ UNCHANGED <<worker, gate, done, joined>>

(* Faulty SubmitFollowUp: the follow-up enters the queue without Prepare.  *)
SubmitFollowUpUnprepared(w) ==
  /\ worker[w] \in Tasks
  /\ FollowUp[worker[w]] \in Tasks
  /\ PrepareUncounted(FollowUp[worker[w]])
  /\ UNCHANGED <<worker, gate, done, joined>>

(* The Run of the task that w executes calls Submit.                       *)
SubmitFollowUp(w) ==
  /\ worker[w] \in Tasks
  /\ FollowUp[worker[w]] \in Tasks
  /\ Prepare(FollowUp[worker[w]])
  /\ UNCHANGED <<worker, gate, done, joined>>

(* The accept loop makes a task without a key for every file request, for  *)
(* as long as requests come: the name t stands for one such task after the *)
(* other, each made when the last one is over.                             *)
Renew(t) ==
  /\ t \in Roots
  /\ KeyOf[t] = NoKey
  /\ FollowUp[t] = NoTask
  /\ phase[t] = "finished"
  /\ phase' = [phase EXCEPT ![t] = "new"]
  /\ UNCHANGED <<worker, pending, gate, done, joined>>

-------------------------------------------------------------------------------
(* Faulty Pop: tasks of equal priority stand in each other's way.          *)
PopStrictly(w) ==
  /\ worker[w] = NoTask
  /\ ~done
  /\ \E t \in queue :
       /\ \A u \in queue \ {t} : PriorityOf[u] < PriorityOf[t]
       /\ phase' = [phase EXCEPT ![t] = "running"]
       /\ worker' = [worker EXCEPT ![w] = t]
  /\ UNCHANGED <<pending, gate, done, joined>>

(* Faulty exit: a worker that finds tasks in the queue does not end.       *)
ExitWhenEmpty(w) ==
  /\ worker[w] = NoTask
  /\ done /\ queue = {}
  /\ worker' = [worker EXCEPT ![w] = Exited]
  /\ UNCHANGED <<phase, pending, gate, done, joined>>

(* WaitForTaskAndPop: the lock condition is "queue not empty, or done";    *)
(* done is looked at first.                                                *)
Pop(w) ==
  /\ worker[w] = NoTask
  /\ ~done
  /\ \E t \in queue :
       /\ \A u \in queue : PriorityOf[u] <= PriorityOf[t]
       /\ phase' = [phase EXCEPT ![t] = "running"]
       /\ worker' = [worker EXCEPT ![w] = t]
  /\ UNCHANGED <<pending, gate, done, joined>>

ExitWorker(w) ==
  /\ worker[w] = NoTask
  /\ done
  /\ worker' = [worker EXCEPT ![w] = Exited]
  /\ UNCHANGED <<phase, pending, gate, done, joined>>

(* Run returns -- it has submitted its follow-up completely, or returned   *)
(* early without it -- and the ScopedDefer of Execute takes the task off   *)
(* its key.                                                                *)
FinishTask(w) ==
  /\ worker[w] \in Tasks
  /\ FollowUp[worker[w]] \in Tasks => phase[FollowUp[worker[w]]] # "prepared"
  /\ RemovePending(worker[w])
  /\ phase' = [phase EXCEPT ![worker[w]] = "finished"]
  /\ worker' = [worker EXCEPT ![w] = NoTask]
  /\ UNCHANGED <<gate, done, joined>>

-------------------------------------------------------------------------------
(* The owner of k has submitted what it wants and calls WaitForPending.    *)
StartWait(k) ==
  /\ gate[k] = "submitting"
  /\ \A t \in Roots : KeyOf[t] = k => phase[t] # "prepared"
  /\ gate' = [gate EXCEPT ![k] = "waiting"]
  /\ UNCHANGED <<phase, worker, pending, done, joined>>

(* Faulty PassWait: an off-by-one in the lock condition.                   *)
PassWaitEarly(k) ==
  /\ gate[k] = "waiting"
  /\ pending[k] <= 1
  /\ gate' = [gate EXCEPT ![k] = "passed"]
  /\ UNCHANGED <<phase, worker, pending, done, joined>>

(* WaitForPending returns: LockWhen(pending == 0).                         *)
PassWait(k) ==
  /\ gate[k] = "waiting"
  /\ pending[k] = 0
  /\ gate' = [gate EXCEPT ![k] = "passed"]
  /\ UNCHANGED <<phase, worker, pending, done, joined>>

(* WorkerPool::Done, called by itself or as the first statement of         *)
(* WaitForCompletion (which ~WorkerPool also runs).                        *)
Done ==
  /\ ~done
  /\ done' = TRUE
  /\ UNCHANGED <<phase, worker, pending, gate, joined>>

(* Faulty joins: one thread is taken for all.                              *)
JoinOne ==
  /\ done
  /\ ~joined
  /\ \E w \in Workers : worker[w] = Exited
  /\ joined' = TRUE
  /\ UNCHANGED <<phase, worker, pending, gate, done>>

(* The joins of WaitForCompletion.                                         *)
JoinAll ==
  /\ done
  /\ ~joined
  /\ \A w \in Workers : worker[w] = Exited
  /\ joined' = TRUE
  /\ UNCHANGED <<phase, worker, pending, gate, done>>

Next ==
  \/ \E t \in Tasks : Submit(t) \/ Enqueue(t) \/ Renew(t)
  \/ \E w \in Workers : SubmitFollowUp(w) \/ Pop(w) \/ ExitWorker(w) \/ FinishTask(w)
  \/ \E k \in Keys : StartWait(k) \/ PassWait(k)
  \/ Done
  \/ JoinAll

(* The scheduler runs every thread that can run, and Run returns (every    *)
(* blocking call in a Run ends, with an error at the latest).  Nothing     *)
(* makes an owner submit, wait or call Done.                               *)
Fairness ==
  /\ \A t \in Tasks : WF_vars(Enqueue(t))
  /\ \A w \in Workers : WF_vars(Pop(w) \/ ExitWorker(w) \/ FinishTask(w))
  /\ \A k \in Keys : WF_vars(PassWait(k))
  /\ WF_vars(JoinAll)

Spec == Init /\ [][Next]_vars
FairSpec == Spec /\ Fairness

-------------------------------------------------------------------------------
TypeOK ==
  /\ phase \in [Tasks -> {"new", "prepared", "queued", "running", "finished"}]
  /\ worker \in [Workers -> Tasks \cup {NoTask, Exited}]
  /\ pending \in [Keys -> Nat]
  /\ gate \in [Keys -> {"submitting", "waiting", "passed"}]
  /\ done \in BOOLEAN
  /\ joined \in BOOLEAN

(* Submitted and not yet finished, for one key.                            *)
InFlight == {t \in Tasks : phase[t] \in {"prepared", "queued", "running"}}
Live(k) == {t \in InFlight : KeyOf[t] = k}

(* WaitForPending waits for the whole chain: once it has returned for k,   *)
(* no task of k is between Submit and the end of its Run, the follow-ups   *)
(* that its tasks submitted included, and none appears later.  It is what  *)
(* makes it safe for ClientManagerThread and the client's main to let go   *)
(* of the key, the connection and the sets the tasks point to.             *)
PassedMeansQuiet ==
  \A k \in Keys : gate[k] = "passed" => Live(k) = {}

(* The counter is exact in every state: pending counts the tasks of the    *)
(* key in flight, through the window between Prepare and the queue, and    *)
(* through the hand-over from a task to its follow-up.                     *)
PendingIsExact ==
  \A k \in Keys : pending[k] = Cardinality(Live(k))

(* After WaitForCompletion no task executes, nor will: the tasks still in  *)
(* flight sit in the queue that no worker reads any more, or are with a    *)
(* submitter outside the pool.                                             *)
JoinedMeansIdle ==
  joined => \A t \in Tasks :
              /\ phase[t] # "running"
              /\ phase[t] = "prepared" => t \in Roots

(* A waiting owner gets through once the tasks of its key have run.  There *)
(* are two ways for it to be left waiting: Done has dropped a queued task  *)
(* of the key, which stays counted (worker_pool.cc:49), or tasks of others *)
(* are submitted for ever and overtake those of the key.                   *)
WaitReturns ==
  \A k \in Keys :
    \/ gate[k] = "waiting" ~>
         \/ gate[k] = "passed"
         \/ done /\ \E t \in queue : KeyOf[t] = k
    \/ []<>(\E u \in Tasks : KeyOf[u] # k /\ phase[u] = "prepared")

(* A queued task runs, unless the pool is shut down, or tasks of its own   *)
(* or of a higher priority are submitted for ever: a task of a lower       *)
(* priority never stands in its way, nor do finitely many others.          *)
QueuedTaskRuns ==
  \A t \in Tasks :
    \/ phase[t] = "queued" ~> (phase[t] = "finished" \/ done)
    \/ []<>(\E u \in Tasks \ {t} :
              PriorityOf[u] >= PriorityOf[t] /\ phase[u] = "prepared")

(* It does not hold without that condition: with requests for files coming *)
(* in for ever, the streams (kFileStream) starve the hashes of another     *)
(* client (kFileIntegrity) on the server's pool.                           *)
NoTaskIsStarved ==
  \A t \in Tasks : phase[t] = "queued" ~> (phase[t] = "finished" \/ done)

(* Done wakes every worker, whatever is in the queue, and the joins of     *)
(* WaitForCompletion come to an end.                                       *)
ShutdownEnds == done ~> joined

(* The comment on WaitForCompletion says "Wait for all tasks to complete,  *)
(* and shut down the workers" (worker_pool.h:82).  It does not hold: what  *)
(* is still queued is dropped.                                             *)
CompletionWaitsForAll ==
  joined => \A t \in Tasks : phase[t] \in {"new", "finished"}

-------------------------------------------------------------------------------
(* WorkerPool implements TaskGroup.                                        *)
Group == INSTANCE TaskGroup
           WITH live <- InFlight,
                over <- {t \in Tasks : phase[t] = "finished"}

ImplementsTaskGroup == Group!GSpec
==============================================================================
