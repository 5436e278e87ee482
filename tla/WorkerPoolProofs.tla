--------------------------- MODULE WorkerPoolProofs ---------------------------
(***************************************************************************)
(* Proofs about WorkerPool, for any number of workers, keys and tasks.     *)
(*                                                                         *)
(* The inductive invariant IInv adds to the properties of WorkerPool what  *)
(* ties the tasks to the threads: a running task is held by exactly one    *)
(* worker, and a follow-up that is between Prepare and the queue has its   *)
(* parent still running.  From it follow the exactness of the counter, the *)
(* meaning of a returned WaitForPending and of a returned                  *)
(* WaitForCompletion, and the refinement of TaskGroup.                     *)
(***************************************************************************)
EXTENDS WorkerPool, FiniteSetTheorems, TLAPS

(* A worker holds a task exactly while the task runs, and no two workers   *)
(* hold the same one.                                                      *)
OneWorkerPerTask ==
  /\ \A w \in Workers : worker[w] \in Tasks => phase[worker[w]] = "running"
  /\ \A v, w \in Workers : worker[v] \in Tasks /\ worker[v] = worker[w] => v = w
  /\ \A t \in Tasks : phase[t] = "running" => \E w \in Workers : worker[w] = t

(* A follow-up in the middle of Submit is being submitted by its parent.   *)
ParentStillRuns ==
  \A p \in Tasks : FollowUp[p] \in Tasks /\ phase[FollowUp[p]] = "prepared"
                     => phase[p] = "running"

JoinedMeansExited ==
  joined => \A w \in Workers : worker[w] = Exited

IInv ==
  /\ TypeOK
  /\ OneWorkerPerTask
  /\ ParentStillRuns
  /\ PendingIsExact
  /\ PassedMeansQuiet
  /\ JoinedMeansExited

-------------------------------------------------------------------------------
(* The tasks of a key in flight are finitely many.                         *)
LEMMA LiveIsFinite ==
  ASSUME NEW k
  PROVE  IsFiniteSet(Live(k))
<1>1. Live(k) \in SUBSET Tasks
  BY DEF Live, InFlight
<1> QED
  BY <1>1, FS_Subset, TaskAssumption

(* A task that enters the flight is counted under its key and under no     *)
(* other.                                                                  *)
LEMMA EnterLive ==
  ASSUME TypeOK, NEW t \in Tasks, phase[t] = "new",
         phase' = [phase EXCEPT ![t] = "prepared"],
         NEW k \in Keys
  PROVE  /\ KeyOf[t] = k => /\ Live(k)' = Live(k) \cup {t}
                            /\ Cardinality(Live(k)') = Cardinality(Live(k)) + 1
         /\ KeyOf[t] # k => Live(k)' = Live(k)
<1>1. t \notin Live(k)
  BY DEF Live, InFlight
<1>2. KeyOf[t] = k => Live(k)' = Live(k) \cup {t}
  BY DEF Live, InFlight, TypeOK
<1>3. KeyOf[t] # k => Live(k)' = Live(k)
  BY DEF Live, InFlight, TypeOK
<1> QED
  BY <1>1, <1>2, <1>3, LiveIsFinite, FS_AddElement

(* A task that ends leaves the flight of its key only.                     *)
LEMMA LeaveLive ==
  ASSUME TypeOK, NEW t \in Tasks, phase[t] = "running",
         phase' = [phase EXCEPT ![t] = "finished"],
         NEW k \in Keys
  PROVE  /\ KeyOf[t] = k => /\ Live(k)' = Live(k) \ {t}
                            /\ Cardinality(Live(k)') = Cardinality(Live(k)) - 1
         /\ KeyOf[t] # k => Live(k)' = Live(k)
<1>1. KeyOf[t] = k => t \in Live(k)
  BY DEF Live, InFlight
<1>2. KeyOf[t] = k => Live(k)' = Live(k) \ {t}
  BY DEF Live, InFlight, TypeOK
<1>3. KeyOf[t] # k => Live(k)' = Live(k)
  BY DEF Live, InFlight, TypeOK
<1> QED
  BY <1>1, <1>2, <1>3, LiveIsFinite, FS_RemoveElement

(* Moving a task from one phase of the flight to another, or changing no   *)
(* phase, leaves every count alone.                                        *)
LEMMA SameFlight ==
  ASSUME TypeOK, NEW t \in Tasks, NEW ph \in {"queued", "running"},
         phase[t] \in {"prepared", "queued", "running"},
         phase' = [phase EXCEPT ![t] = ph]
  PROVE  InFlight' = InFlight /\ \A k \in Keys : Live(k)' = Live(k)
BY DEF Live, InFlight, TypeOK

(* The counters stay functions into the naturals because they are exact:   *)
(* no RemovePending can take one below zero.                               *)
LEMMA CountersStayNatural ==
  ASSUME NEW t \in Tasks, DOMAIN pending = Keys, AddPending(t) \/ RemovePending(t),
         pending = [k \in Keys |-> pending[k]], PendingIsExact'
  PROVE  pending' \in [Keys -> Nat]
<1>1. pending' = [k \in Keys |-> pending'[k]]
  BY DEF AddPending, RemovePending
<1>2. ASSUME NEW k \in Keys PROVE pending'[k] \in Nat
  <2>1. Live(k)' \in SUBSET Tasks
    BY DEF Live, InFlight
  <2>2. Cardinality(Live(k)') \in Nat
    BY <2>1, FS_Subset, FS_CardinalityType, TaskAssumption
  <2> QED
    BY <2>2 DEF PendingIsExact
<1> QED
  BY <1>1, <1>2

-------------------------------------------------------------------------------
LEMMA InitIInv == Init => IInv
<1> SUFFICES ASSUME Init PROVE IInv
  OBVIOUS
<1>1. TypeOK
  <2>1. pending \in [Keys -> Nat]
    BY DEF Init
  <2> QED
    BY <2>1 DEF Init, TypeOK
<1>2. OneWorkerPerTask /\ ParentStillRuns /\ JoinedMeansExited
  BY TaskAssumption DEF Init, OneWorkerPerTask, ParentStillRuns, JoinedMeansExited
<1>3. \A k \in Keys : Live(k) = {}
  BY DEF Init, Live, InFlight
<1>4. PendingIsExact /\ PassedMeansQuiet
  BY <1>3, FS_EmptySet DEF Init, PendingIsExact, PassedMeansQuiet
<1> QED
  BY <1>1, <1>2, <1>4 DEF IInv

(* Prepare, by whichever thread: the counter and the flight move together. *)
LEMMA PrepareCounts ==
  ASSUME IInv, NEW t \in Tasks, Prepare(t)
  PROVE  PendingIsExact'
<1> SUFFICES ASSUME NEW k \in Keys
             PROVE  pending'[k] = Cardinality(Live(k)')
  BY DEF PendingIsExact
<1>1. pending[k] = Cardinality(Live(k)) /\ pending[k] \in Int
  BY DEF IInv, PendingIsExact, TypeOK
<1>2. CASE KeyOf[t] = k
  <2>1. pending'[k] = pending[k] + 1
    BY <1>2, KeyAssumption DEF Prepare, AddPending, IInv, TypeOK
  <2> QED
    BY <1>1, <1>2, <2>1, EnterLive DEF Prepare, IInv
<1>3. CASE KeyOf[t] # k
  <2>1. pending'[k] = pending[k]
    BY <1>3, KeyAssumption DEF Prepare, AddPending, IInv, TypeOK
  <2> QED
    BY <1>1, <1>3, <2>1, EnterLive DEF Prepare, IInv
<1> QED
  BY <1>2, <1>3

(* Prepare keeps a passed gate quiet if the task's key has not passed.     *)
LEMMA PrepareKeepsQuiet ==
  ASSUME IInv, NEW t \in Tasks, Prepare(t), gate' = gate,
         KeyOf[t] # NoKey => gate[KeyOf[t]] # "passed"
  PROVE  PassedMeansQuiet'
<1> SUFFICES ASSUME NEW k \in Keys, gate[k] = "passed"
             PROVE  Live(k)' = {}
  BY DEF PassedMeansQuiet
<1>1. KeyOf[t] # k
  BY KeyAssumption
<1> QED
  BY <1>1, EnterLive DEF Prepare, IInv, PassedMeansQuiet

-------------------------------------------------------------------------------
(* One lemma per action.                                                   *)
LEMMA SubmitIInv ==
  ASSUME IInv, NEW t \in Tasks, Submit(t)
  PROVE  IInv'
<1>1. TypeOK'
  <2>1. pending' \in [Keys -> Nat]
    BY PrepareCounts, CountersStayNatural DEF IInv, TypeOK, Submit, Prepare
  <2> QED
    BY <2>1 DEF IInv, TypeOK, Submit, Prepare
<1>2. OneWorkerPerTask' /\ JoinedMeansExited'
  BY DEF IInv, TypeOK, Submit, Prepare, OneWorkerPerTask, JoinedMeansExited
<1>3. ParentStillRuns'
  <2>1. \A p \in Tasks : FollowUp[p] # t
    BY DEF Submit, Roots
  <2> QED
    BY <2>1 DEF IInv, TypeOK, Submit, Prepare, ParentStillRuns
<1>4. PendingIsExact'
  BY PrepareCounts DEF Submit
<1>5. PassedMeansQuiet'
  BY PrepareKeepsQuiet DEF Submit
<1> QED
  BY <1>1, <1>2, <1>3, <1>4, <1>5 DEF IInv

LEMMA EnqueueIInv ==
  ASSUME IInv, NEW t \in Tasks, Enqueue(t)
  PROVE  IInv'
<1>1. TypeOK'
  BY DEF IInv, TypeOK, Enqueue
<1>2. OneWorkerPerTask' /\ JoinedMeansExited' /\ ParentStillRuns'
  BY DEF IInv, TypeOK, Enqueue, OneWorkerPerTask, JoinedMeansExited, ParentStillRuns
<1>3. \A k \in Keys : Live(k)' = Live(k)
  BY SameFlight DEF IInv, Enqueue
<1>4. PendingIsExact' /\ PassedMeansQuiet'
  BY <1>3 DEF IInv, Enqueue, PendingIsExact, PassedMeansQuiet
<1> QED
  BY <1>1, <1>2, <1>4 DEF IInv

(* A task made anew is without a key, has no follow-up and is none.        *)
LEMMA RenewIInv ==
  ASSUME IInv, NEW t \in Tasks, Renew(t)
  PROVE  IInv'
<1>1. TypeOK'
  BY DEF IInv, TypeOK, Renew
<1>2. OneWorkerPerTask' /\ JoinedMeansExited'
  BY DEF IInv, TypeOK, Renew, OneWorkerPerTask, JoinedMeansExited
<1>3. ParentStillRuns'
  BY DEF IInv, TypeOK, Renew, ParentStillRuns
<1>4. \A k \in Keys : Live(k)' = Live(k)
  BY DEF IInv, TypeOK, Renew, Live, InFlight
<1>5. PendingIsExact' /\ PassedMeansQuiet'
  BY <1>4 DEF IInv, Renew, PendingIsExact, PassedMeansQuiet
<1> QED
  BY <1>1, <1>2, <1>3, <1>5 DEF IInv

(* The parent is in flight under the same key, so that key has not passed. *)
LEMMA SubmitFollowUpIInv ==
  ASSUME IInv, NEW w \in Workers, SubmitFollowUp(w)
  PROVE  IInv'
<1> DEFINE p == worker[w]
           t == FollowUp[p]
<1>1. p \in Tasks /\ t \in Tasks /\ Prepare(t) /\ KeyOf[t] = KeyOf[p]
  BY FollowUpAssumption DEF SubmitFollowUp
<1>2. phase[p] = "running" /\ phase[t] = "new" /\ p # t
  BY <1>1 DEF IInv, OneWorkerPerTask, Prepare
<1>3. TypeOK'
  <2>1. pending' \in [Keys -> Nat]
    BY <1>1, PrepareCounts, CountersStayNatural DEF IInv, TypeOK, Prepare
  <2> QED
    BY <1>1, <2>1 DEF IInv, TypeOK, SubmitFollowUp, Prepare
<1>4. OneWorkerPerTask' /\ JoinedMeansExited'
  BY <1>1 DEF IInv, TypeOK, SubmitFollowUp, Prepare, OneWorkerPerTask, JoinedMeansExited
<1>5. ParentStillRuns'
  <2> SUFFICES ASSUME NEW q \in Tasks, FollowUp[q] \in Tasks,
                      phase'[FollowUp[q]] = "prepared"
               PROVE  phase'[q] = "running"
    BY DEF ParentStillRuns
  <2>1. CASE FollowUp[q] = t
    <3>1. q = p
      BY <1>1, <2>1, FollowUpAssumption
    <3> QED
      BY <1>1, <1>2, <3>1 DEF IInv, TypeOK, Prepare
  <2>2. CASE FollowUp[q] # t
    BY <1>1, <1>2, <2>2 DEF IInv, TypeOK, Prepare, ParentStillRuns
  <2> QED
    BY <2>1, <2>2
<1>6. PendingIsExact'
  BY <1>1, PrepareCounts
<1>7. PassedMeansQuiet'
  <2>1. ASSUME KeyOf[t] # NoKey, gate[KeyOf[t]] = "passed"
        PROVE  FALSE
    <3>1. KeyOf[p] \in Keys
      BY <1>1, <2>1, KeyAssumption
    <3>2. p \in Live(KeyOf[p])
      BY <1>1, <1>2 DEF Live, InFlight
    <3> QED
      BY <1>1, <2>1, <3>1, <3>2 DEF IInv, PassedMeansQuiet
  <2> QED
    BY <1>1, <2>1, PrepareKeepsQuiet DEF SubmitFollowUp
<1> QED
  BY <1>3, <1>4, <1>5, <1>6, <1>7 DEF IInv

LEMMA PopIInv ==
  ASSUME IInv, NEW w \in Workers, Pop(w)
  PROVE  IInv'
<1>1. PICK t \in queue :
        /\ phase' = [phase EXCEPT ![t] = "running"]
        /\ worker' = [worker EXCEPT ![w] = t]
  BY DEF Pop
<1>2. t \in Tasks /\ phase[t] = "queued"
  BY DEF queue
<1>3. TypeOK'
  BY <1>1, <1>2 DEF IInv, TypeOK, Pop
<1>4. OneWorkerPerTask'
  BY <1>1, <1>2, TaskAssumption DEF IInv, TypeOK, Pop, OneWorkerPerTask
<1>5. ParentStillRuns'
  BY <1>1, <1>2 DEF IInv, TypeOK, ParentStillRuns
<1>6. JoinedMeansExited'
  BY <1>1, ExitedAssumption DEF IInv, Pop, JoinedMeansExited
<1>7. \A k \in Keys : Live(k)' = Live(k)
  BY <1>1, <1>2, SameFlight DEF IInv
<1>8. PendingIsExact' /\ PassedMeansQuiet'
  BY <1>7 DEF IInv, Pop, PendingIsExact, PassedMeansQuiet
<1> QED
  BY <1>3, <1>4, <1>5, <1>6, <1>8 DEF IInv

LEMMA ExitWorkerIInv ==
  ASSUME IInv, NEW w \in Workers, ExitWorker(w)
  PROVE  IInv'
<1>1. TypeOK'
  BY DEF IInv, TypeOK, ExitWorker
<1>2. OneWorkerPerTask'
  BY ExitedAssumption, TaskAssumption DEF IInv, TypeOK, ExitWorker, OneWorkerPerTask
<1>3. ParentStillRuns' /\ JoinedMeansExited'
  BY DEF IInv, TypeOK, ExitWorker, ParentStillRuns, JoinedMeansExited
<1>4. PendingIsExact' /\ PassedMeansQuiet'
  BY DEF IInv, ExitWorker, PendingIsExact, PassedMeansQuiet, Live, InFlight
<1> QED
  BY <1>1, <1>2, <1>3, <1>4 DEF IInv

LEMMA FinishTaskIInv ==
  ASSUME IInv, NEW w \in Workers, FinishTask(w)
  PROVE  IInv'
<1> DEFINE t == worker[w]
<1>1. t \in Tasks /\ phase[t] = "running"
  BY DEF IInv, OneWorkerPerTask, FinishTask
<1>2. PendingIsExact'
  <2> SUFFICES ASSUME NEW k \in Keys
               PROVE  pending'[k] = Cardinality(Live(k)')
    BY DEF PendingIsExact
  <2>1. pending[k] = Cardinality(Live(k)) /\ pending[k] \in Int
    BY DEF IInv, PendingIsExact, TypeOK
  <2>2. CASE KeyOf[t] = k
    <3>1. pending'[k] = pending[k] - 1
      BY <2>2, KeyAssumption DEF FinishTask, RemovePending, IInv, TypeOK
    <3> QED
      BY <1>1, <2>1, <2>2, <3>1, LeaveLive DEF FinishTask, IInv
  <2>3. CASE KeyOf[t] # k
    <3>1. pending'[k] = pending[k]
      BY <1>1, <2>3, KeyAssumption DEF FinishTask, RemovePending, IInv, TypeOK
    <3> QED
      BY <1>1, <2>1, <2>3, <3>1, LeaveLive DEF FinishTask, IInv
  <2> QED
    BY <2>2, <2>3
<1>3. TypeOK'
  <2>1. pending' \in [Keys -> Nat]
    BY <1>1, <1>2, CountersStayNatural DEF IInv, TypeOK, FinishTask
  <2> QED
    BY <1>1, <2>1 DEF IInv, TypeOK, FinishTask
<1>4. OneWorkerPerTask'
  BY <1>1, TaskAssumption DEF IInv, TypeOK, FinishTask, OneWorkerPerTask
<1>5. ParentStillRuns'
  BY <1>1 DEF IInv, TypeOK, FinishTask, ParentStillRuns
<1>6. JoinedMeansExited'
  BY <1>1, ExitedAssumption DEF IInv, FinishTask, JoinedMeansExited
<1>7. PassedMeansQuiet'
  <2> SUFFICES ASSUME NEW k \in Keys, gate[k] = "passed"
               PROVE  Live(k)' = {}
    BY DEF PassedMeansQuiet, FinishTask
  <2>1. Live(k) = {}
    BY DEF IInv, PassedMeansQuiet
  <2> QED
    BY <1>1, <2>1, LeaveLive DEF FinishTask, IInv
<1> QED
  BY <1>2, <1>3, <1>4, <1>5, <1>6, <1>7 DEF IInv

LEMMA StartWaitIInv ==
  ASSUME IInv, NEW k \in Keys, StartWait(k)
  PROVE  IInv'
<1>1. TypeOK' /\ OneWorkerPerTask' /\ ParentStillRuns' /\ JoinedMeansExited'
  BY DEF IInv, TypeOK, StartWait, OneWorkerPerTask, ParentStillRuns, JoinedMeansExited
<1>2. PendingIsExact' /\ PassedMeansQuiet'
  BY DEF IInv, TypeOK, StartWait, PendingIsExact, PassedMeansQuiet, Live, InFlight
<1> QED
  BY <1>1, <1>2 DEF IInv

(* pending = 0 and an exact counter mean that nothing is in flight.        *)
LEMMA PassWaitIInv ==
  ASSUME IInv, NEW k \in Keys, PassWait(k)
  PROVE  IInv'
<1>1. TypeOK' /\ OneWorkerPerTask' /\ ParentStillRuns' /\ JoinedMeansExited'
  BY DEF IInv, TypeOK, PassWait, OneWorkerPerTask, ParentStillRuns, JoinedMeansExited
<1>2. PendingIsExact'
  BY DEF IInv, PassWait, PendingIsExact, Live, InFlight
<1>3. Live(k) = {}
  BY LiveIsFinite, FS_EmptySet DEF IInv, PendingIsExact, PassWait
<1>4. PassedMeansQuiet'
  BY <1>3 DEF IInv, TypeOK, PassWait, PassedMeansQuiet, Live, InFlight
<1> QED
  BY <1>1, <1>2, <1>4 DEF IInv

LEMMA ShutdownIInv ==
  ASSUME IInv, Done \/ JoinAll \/ UNCHANGED vars
  PROVE  IInv'
<1>1. TypeOK'
  BY DEF IInv, TypeOK, Done, JoinAll, vars
<1>2. OneWorkerPerTask' /\ ParentStillRuns'
  BY DEF IInv, Done, JoinAll, vars, OneWorkerPerTask, ParentStillRuns
<1>3. JoinedMeansExited'
  BY DEF IInv, Done, JoinAll, vars, JoinedMeansExited
<1>4. PendingIsExact' /\ PassedMeansQuiet'
  BY DEF IInv, Done, JoinAll, vars, PendingIsExact, PassedMeansQuiet, Live, InFlight
<1> QED
  BY <1>1, <1>2, <1>3, <1>4 DEF IInv

LEMMA NextIInv == IInv /\ [Next]_vars => IInv'
<1> SUFFICES ASSUME IInv, [Next]_vars PROVE IInv'
  OBVIOUS
<1>1. CASE \E t \in Tasks : Submit(t) \/ Enqueue(t) \/ Renew(t)
  BY <1>1, SubmitIInv, EnqueueIInv, RenewIInv
<1>2. CASE \E w \in Workers : SubmitFollowUp(w) \/ Pop(w) \/ ExitWorker(w) \/ FinishTask(w)
  BY <1>2, SubmitFollowUpIInv, PopIInv, ExitWorkerIInv, FinishTaskIInv
<1>3. CASE \E k \in Keys : StartWait(k) \/ PassWait(k)
  BY <1>3, StartWaitIInv, PassWaitIInv
<1>4. CASE Done \/ JoinAll \/ UNCHANGED vars
  BY <1>4, ShutdownIInv
<1> QED
  BY <1>1, <1>2, <1>3, <1>4 DEF Next

THEOREM Invariance == Spec => []IInv
BY InitIInv, NextIInv, PTL DEF Spec

-------------------------------------------------------------------------------
(* The counters, the phases and the threads keep their types.              *)
THEOREM TypeCorrect == Spec => []TypeOK
<1>1. IInv => TypeOK
  BY DEF IInv
<1> QED
  BY <1>1, Invariance, PTL

(* SubmissionKey::pending counts the key's tasks in flight, in every state.*)
THEOREM CounterIsExact == Spec => []PendingIsExact
<1>1. IInv => PendingIsExact
  BY DEF IInv
<1> QED
  BY <1>1, Invariance, PTL

(* Once WaitForPending has returned for a key, nothing of the key is in    *)
(* flight, whatever follow-ups its tasks submitted.                        *)
THEOREM WaitIsComplete == Spec => []PassedMeansQuiet
<1>1. IInv => PassedMeansQuiet
  BY DEF IInv
<1> QED
  BY <1>1, Invariance, PTL

(* Once WaitForCompletion has joined the threads, no task executes.        *)
THEOREM JoinIsFinal == Spec => []JoinedMeansIdle
<1>1. IInv => JoinedMeansIdle
  <2> SUFFICES ASSUME IInv, joined, NEW t \in Tasks
               PROVE  phase[t] # "running" /\ (phase[t] = "prepared" => t \in Roots)
    BY DEF JoinedMeansIdle
  <2>1. \A u \in Tasks : phase[u] # "running"
    BY ExitedAssumption DEF IInv, OneWorkerPerTask, JoinedMeansExited
  <2>2. phase[t] = "prepared" => t \in Roots
    BY <2>1 DEF IInv, ParentStillRuns, Roots
  <2> QED
    BY <2>1, <2>2
<1> QED
  BY <1>1, Invariance, PTL

-------------------------------------------------------------------------------
(* The refinement of TaskGroup.                                            *)
Over == {t \in Tasks : phase[t] = "finished"}

LEMMA RefineInit == Init => Group!GInit
BY DEF Init, Group!GInit, InFlight

(* A task of a live parent, or one of an owner that still submits, enters. *)
LEMMA RefineEnter ==
  ASSUME IInv, NEW t \in Tasks, Prepare(t), gate' = gate,
         \/ KeyOf[t] # NoKey => gate[KeyOf[t]] = "submitting"
         \/ \E p \in InFlight : FollowUp[p] = t /\ KeyOf[p] = KeyOf[t]
  PROVE  Group!Enter(t)
<1>1. t \notin InFlight \cup Over
  BY DEF Prepare, InFlight, Over
<1>2. InFlight' = InFlight \cup {t} /\ Over' = Over
  BY DEF IInv, TypeOK, Prepare, InFlight, Over
<1>3. \/ KeyOf[t] \notin Keys
      \/ KeyOf[t] \in Keys /\ gate[KeyOf[t]] = "submitting"
      \/ \E p \in InFlight : FollowUp[p] = t /\ KeyOf[p] = KeyOf[t]
  BY KeyAssumption
<1> QED
  BY <1>1, <1>2, <1>3 DEF Group!Enter, Over

LEMMA RefineTasks ==
  ASSUME IInv, NEW t \in Tasks, Submit(t) \/ Enqueue(t) \/ Renew(t)
  PROVE  [Group!GNext]_(Group!gvars)
<1>1. CASE Submit(t)
  BY <1>1, RefineEnter DEF Submit, Group!GNext
<1>2. CASE Enqueue(t)
  <2>1. InFlight' = InFlight
    BY <1>2, SameFlight DEF IInv, Enqueue
  <2>2. Over' = Over
    BY <1>2 DEF IInv, TypeOK, Enqueue, Over
  <2> QED
    BY <1>2, <2>1, <2>2 DEF Enqueue, Group!gvars, Over
<1>3. CASE Renew(t)
  <2>1. InFlight' = InFlight
    BY <1>3 DEF IInv, TypeOK, Renew, InFlight
  <2>2. t \in Over /\ Over' = Over \ {t}
    BY <1>3 DEF IInv, TypeOK, Renew, Over
  <2>3. KeyOf[t] \notin Keys
    BY <1>3, KeyAssumption DEF Renew
  <2>4. Group!Renew(t)
    BY <1>3, <2>1, <2>2, <2>3 DEF Renew, Group!Renew, Over
  <2> QED
    BY <2>4 DEF Group!GNext
<1> QED
  BY <1>1, <1>2, <1>3

LEMMA RefineWorkers ==
  ASSUME IInv, NEW w \in Workers,
         SubmitFollowUp(w) \/ Pop(w) \/ ExitWorker(w) \/ FinishTask(w)
  PROVE  [Group!GNext]_(Group!gvars)
<1>1. CASE SubmitFollowUp(w)
  <2>1. worker[w] \in InFlight /\ FollowUp[worker[w]] \in Tasks
    BY <1>1 DEF SubmitFollowUp, IInv, OneWorkerPerTask, InFlight
  <2>2. worker[w] \in Tasks /\ KeyOf[worker[w]] = KeyOf[FollowUp[worker[w]]]
    BY <1>1, FollowUpAssumption DEF SubmitFollowUp
  <2>3. Group!Enter(FollowUp[worker[w]])
    BY <1>1, <2>1, <2>2, RefineEnter DEF SubmitFollowUp
  <2> QED
    BY <2>1, <2>3 DEF Group!GNext
<1>2. CASE Pop(w)
  <2>1. PICK t \in queue : phase' = [phase EXCEPT ![t] = "running"]
    BY <1>2 DEF Pop
  <2>2. InFlight' = InFlight
    BY <2>1, SameFlight DEF IInv, queue
  <2>3. Over' = Over
    BY <2>1 DEF IInv, TypeOK, queue, Over
  <2> QED
    BY <1>2, <2>2, <2>3 DEF Pop, Group!gvars, Over
<1>3. CASE ExitWorker(w)
  BY <1>3 DEF ExitWorker, Group!gvars, InFlight
<1>4. CASE FinishTask(w)
  <2>1. worker[w] \in Tasks /\ phase[worker[w]] = "running"
    BY <1>4 DEF IInv, OneWorkerPerTask, FinishTask
  <2>2. /\ worker[w] \in InFlight
        /\ InFlight' = InFlight \ {worker[w]}
        /\ Over' = Over \cup {worker[w]}
    BY <1>4, <2>1 DEF IInv, TypeOK, FinishTask, InFlight, Over
  <2>3. \E t \in Tasks : Group!Leave(t)
    BY <1>4, <2>1, <2>2 DEF FinishTask, Group!Leave, Over
  <2> QED
    BY <2>3 DEF Group!GNext
<1> QED
  BY <1>1, <1>2, <1>3, <1>4

LEMMA RefineOwners ==
  ASSUME IInv, NEW k \in Keys, StartWait(k) \/ PassWait(k)
  PROVE  [Group!GNext]_(Group!gvars)
<1>1. InFlight' = InFlight /\ Over' = Over
  BY DEF StartWait, PassWait, InFlight, Over
<1>2. CASE StartWait(k)
  <2>1. Group!StartWait(k)
    BY <1>1, <1>2 DEF StartWait, Group!StartWait, Over
  <2> QED
    BY <2>1 DEF Group!GNext
<1>3. CASE PassWait(k)
  <2>1. Live(k) = {}
    BY <1>3, LiveIsFinite, FS_EmptySet DEF IInv, PendingIsExact, PassWait
  <2>2. \A t \in InFlight : KeyOf[t] # k
    BY <2>1 DEF Live, InFlight
  <2>3. Group!Pass(k)
    BY <1>1, <1>3, <2>2 DEF PassWait, Group!Pass, Over
  <2> QED
    BY <2>3 DEF Group!GNext
<1> QED
  BY <1>2, <1>3

LEMMA RefineNext == IInv /\ [Next]_vars => [Group!GNext]_(Group!gvars)
<1> SUFFICES ASSUME IInv, [Next]_vars PROVE [Group!GNext]_(Group!gvars)
  OBVIOUS
<1>1. CASE Done \/ JoinAll \/ UNCHANGED vars
  BY <1>1 DEF Done, JoinAll, vars, Group!gvars, InFlight
<1>2. CASE Next /\ ~(Done \/ JoinAll)
  BY <1>2, RefineTasks, RefineWorkers, RefineOwners DEF Next
<1> QED
  BY <1>1, <1>2 DEF Next

(* The pool implements the abstract task groups: what a key promises holds *)
(* of queue, workers and counter together, for any number of them.         *)
THEOREM Refinement == Spec => ImplementsTaskGroup
BY Invariance, RefineInit, RefineNext, PTL DEF Spec, ImplementsTaskGroup, Group!GSpec
==============================================================================
