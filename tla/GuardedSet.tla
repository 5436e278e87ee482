------------------------------ MODULE GuardedSet ------------------------------
(***************************************************************************)
(* The GuardedSet of src/netpull/parallel/guarded_set.h: a flat_hash_set   *)
(* and a mutex that Insert and Contains hold and Erase does not.           *)
(*                                                                         *)
(* As long as nobody calls Erase it is the server's Job::completed_paths,  *)
(* with Erase the client's to_complete, from which the main thread and the *)
(* pool's workers erase while the main thread inserts.                     *)
(*                                                                         *)
(* The hash table comes down to what a concurrent access can see of it:    *)
(* which values its slots hold, the size that insertions and erasures read *)
(* and write back, and a growth, which begins with an empty array and then *)
(* moves the old slots over.                                               *)
(*                                                                         *)
(* An operator whose comment begins with "Faulty" is not part of the       *)
(* model: it is a plausible bug, kept to show that a property notices it.  *)
(***************************************************************************)
EXTENDS Integers, FiniteSets

CONSTANTS Values,                        (* paths                          *)
          Inserters, Readers, Erasers,   (* the threads that call Insert,  *)
                                         (* Contains and Erase             *)
          Nobody                         (* the mutex is free              *)

Threads == Inserters \cup Readers \cup Erasers

ASSUME ThreadAssumption == Nobody \notin Threads

ASSUME ValueAssumption == IsFiniteSet(Values) /\ Values # {}

VARIABLES
  lock,      (* GuardedSet::mutex                                          *)
  slots,     (* the values in the table's slots                            *)
  size,      (* the table's size, which empty() compares with zero         *)
  old,       (* the slots of the array that a growth replaces              *)
  pc,        (* where each thread is: idle, insert, moving, counting,      *)
             (* contains, erase, uncounting, dangling                      *)
  arg,       (* the argument of its call                                   *)
  reg,       (* the size it has read                                       *)
  inserted,  (* values whose Insert has returned                           *)
  erased,    (* values whose Erase has been called                         *)
  answer,    (* what each thread's last Contains has returned              *)
  dangled    (* an erasure has used an iterator that a growth has left     *)
             (* behind (only for the properties)                           *)

table == <<slots, size, old>>
history == <<inserted, erased, answer, dangled>>
vars == <<lock, table, pc, arg, reg, history>>

Init ==
  /\ lock = Nobody
  /\ slots = {} /\ size = 0 /\ old = {}
  /\ pc = [t \in Threads |-> "idle"]
  /\ arg \in [Threads -> Values]
  /\ reg = [t \in Threads |-> 0]
  /\ inserted = {} /\ erased = {}
  /\ answer = [t \in Threads |-> [value |-> arg[t], found |-> FALSE]]
  /\ dangled = FALSE

-------------------------------------------------------------------------------
(* MutexLock and its end.                                                  *)
Acquire(t) == lock = Nobody /\ lock' = t
Release(t) == lock' = Nobody

Goto(t, place) == pc' = [pc EXCEPT ![t] = place]

(* Faulty Insert: no MutexLock.                                            *)
InsertUnlocked(t, v) ==
  /\ t \in Inserters /\ pc[t] = "idle"
  /\ v \notin erased
  /\ lock' = t
  /\ Goto(t, "insert")
  /\ arg' = [arg EXCEPT ![t] = v]
  /\ UNCHANGED <<table, reg, history>>

(* Insert.  No caller puts a path back that it has erased.                 *)
Insert(t, v) ==
  /\ t \in Inserters /\ pc[t] = "idle"
  /\ v \notin erased
  /\ Acquire(t)
  /\ Goto(t, "insert")
  /\ arg' = [arg EXCEPT ![t] = v]
  /\ UNCHANGED <<table, reg, history>>

InsertPresent(t) ==
  /\ pc[t] = "insert" /\ arg[t] \in slots
  /\ Release(t)
  /\ Goto(t, "idle")
  /\ inserted' = inserted \cup {arg[t]}
  /\ UNCHANGED <<table, arg, reg, erased, answer, dangled>>

(* The table may be full, of deleted slots too: the slots move, to another *)
(* array or within it.  The iterator of an eraser that has found its slot  *)
(* no longer points to it.                                                 *)
InsertGrow(t) ==
  /\ pc[t] = "insert" /\ arg[t] \notin slots
  /\ old' = slots /\ slots' = {}
  /\ pc' = [u \in Threads |-> IF u = t THEN "moving"
                              ELSE IF pc[u] = "uncounting" THEN "dangling" ELSE pc[u]]
  /\ UNCHANGED <<lock, size, arg, reg, history>>

InsertMove(t) ==
  /\ pc[t] = "moving"
  /\ slots' = slots \cup old /\ old' = {}
  /\ reg' = [reg EXCEPT ![t] = size]
  /\ Goto(t, "counting")
  /\ UNCHANGED <<lock, size, arg, history>>

InsertNew(t) ==
  /\ pc[t] = "insert" /\ arg[t] \notin slots
  /\ reg' = [reg EXCEPT ![t] = size]
  /\ Goto(t, "counting")
  /\ UNCHANGED <<lock, table, arg, history>>

InsertCount(t) ==
  /\ pc[t] = "counting"
  /\ size' = reg[t] + 1
  /\ slots' = slots \cup {arg[t]}
  /\ Release(t)
  /\ Goto(t, "idle")
  /\ inserted' = inserted \cup {arg[t]}
  /\ UNCHANGED <<old, arg, reg, erased, answer, dangled>>

-------------------------------------------------------------------------------
(* Faulty Contains: no MutexLock, as in Erase.                             *)
ContainsUnlocked(t, v) ==
  /\ t \in Readers /\ pc[t] = "idle"
  /\ Goto(t, "contains")
  /\ arg' = [arg EXCEPT ![t] = v]
  /\ UNCHANGED <<lock, table, reg, history>>

Contains(t, v) ==
  /\ t \in Readers /\ pc[t] = "idle"
  /\ Acquire(t)
  /\ Goto(t, "contains")
  /\ arg' = [arg EXCEPT ![t] = v]
  /\ UNCHANGED <<table, reg, history>>

ContainsReturns(t) ==
  /\ pc[t] = "contains"
  /\ answer' = [answer EXCEPT ![t] = [value |-> arg[t], found |-> arg[t] \in slots]]
  /\ Release(t)
  /\ Goto(t, "idle")
  /\ UNCHANGED <<table, arg, reg, inserted, erased, dangled>>

-------------------------------------------------------------------------------
(* Erase.  A path is erased once, by the task that is submitted for it     *)
(* when its Insert has returned.                                           *)
Erase(t, v) ==
  /\ t \in Erasers /\ pc[t] = "idle"
  /\ v \in inserted \ erased
  /\ \A u \in Inserters : pc[u] \in {"insert", "moving", "counting"} => arg[u] # v
  /\ erased' = erased \cup {v}
  /\ Goto(t, "erase")
  /\ arg' = [arg EXCEPT ![t] = v]
  /\ UNCHANGED <<lock, table, reg, inserted, answer, dangled>>

EraseFinds(t) ==
  /\ pc[t] = "erase" /\ arg[t] \in slots
  /\ reg' = [reg EXCEPT ![t] = size]
  /\ Goto(t, "uncounting")
  /\ UNCHANGED <<lock, table, arg, history>>

EraseMisses(t) ==
  /\ pc[t] = "erase" /\ arg[t] \notin slots
  /\ Goto(t, "idle")
  /\ UNCHANGED <<lock, table, arg, reg, history>>

(* The iterator is still good: its slot is cleared.                        *)
EraseCounts(t) ==
  /\ pc[t] = "uncounting"
  /\ size' = reg[t] - 1
  /\ slots' = slots \ {arg[t]}
  /\ Goto(t, "idle")
  /\ UNCHANGED <<lock, old, arg, reg, history>>

(* The iterator points into the old array, and the control byte is cleared *)
(* at its distance from the new one: the byte of the path in the old array *)
(* and that of any slot in the new one may go, or neither.                 *)
EraseDangling(t) ==
  /\ pc[t] = "dangling"
  /\ size' = reg[t] - 1
  /\ \E v \in Values : \E gone \in SUBSET {arg[t], v} :
       /\ slots' = slots \ gone
       /\ old' = old \ gone
  /\ dangled' = TRUE
  /\ Goto(t, "idle")
  /\ UNCHANGED <<lock, arg, reg, inserted, erased, answer>>

-------------------------------------------------------------------------------
Next ==
  \/ \E t \in Threads, v \in Values : Insert(t, v) \/ Contains(t, v) \/ Erase(t, v)
  \/ \E t \in Threads :
       \/ InsertPresent(t) \/ InsertGrow(t) \/ InsertMove(t) \/ InsertNew(t)
       \/ InsertCount(t)
       \/ ContainsReturns(t)
       \/ EraseFinds(t) \/ EraseMisses(t) \/ EraseCounts(t) \/ EraseDangling(t)

Spec == Init /\ [][Next]_vars

-------------------------------------------------------------------------------
(* Types, and the mutex belongs to a thread that is inside Insert or       *)
(* Contains (guarded_set.h:27, :38).                                       *)
TypeOK ==
  /\ lock \in Threads \cup {Nobody}
  /\ lock # Nobody => pc[lock] \in {"insert", "moving", "counting", "contains"}
  /\ slots \subseteq Values /\ old \subseteq Values
  /\ size \in Int
  /\ pc \in [Threads -> {"idle", "insert", "moving", "counting", "contains", "erase",
                         "uncounting", "dangling"}]
  /\ arg \in [Threads -> Values]
  /\ reg \in [Threads -> Int]
  /\ inserted \subseteq Values /\ erased \subseteq Values
  /\ answer \in [Threads -> [value : Values, found : BOOLEAN]]
  /\ dangled \in BOOLEAN

(* Until Erase is first called, which the server never does, the set holds *)
(* between calls what has been inserted, and its size says how much that   *)
(* is: no growth drops a path, and no count is overtaken by another.       *)
QuietIsExact ==
  erased = {} /\ (\A t \in Threads : pc[t] = "idle") =>
    slots = inserted /\ size = Cardinality(slots)

(* Of the client's use, the comment on GuardedSet, "A thread-safe wrapper  *)
(* over a flat_hash_set" (guarded_set.h:12), says the same: when all       *)
(* workers are joined, empty() (netpull_client.cc:505) tells whether every *)
(* path has been erased.                                                   *)
EmptyMeansComplete ==
  (\A t \in Threads : pc[t] = "idle") => (size = 0 <=> erased = inserted)

(* What Erase can do to other paths without the mutex, it does through an  *)
(* iterator that a growth has left behind: before such an erasure no path  *)
(* that has been inserted and not erased is lost, whatever insertions,     *)
(* growths and erasures run at a time.                                     *)
NothingForgotten == ~dangled => inserted \ erased \subseteq slots \cup old

(* It does not hold afterwards: a file that is still to be transferred may *)
(* be gone from to_complete, and the set be taken for empty without it.    *)
NothingEverForgotten == inserted \ erased \subseteq slots \cup old

Atomic == INSTANCE AtomicSet WITH members <- inserted \ erased

(* Until Erase is first called Insert and Contains are atomic: no reader   *)
(* sees a growth half way or misses a path whose Insert has returned.      *)
ImplementsAtomicSet ==
  Atomic!AInit /\ [][erased' = {} => Atomic!ANext]_(Atomic!avars)
==============================================================================
