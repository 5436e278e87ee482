--------------------------- MODULE GuardedSetProofs ---------------------------
(***************************************************************************)
(* Proofs about GuardedSet, for any paths and threads.  What the mutex     *)
(* gives with every use of the set is that inserters and readers exclude   *)
(* each other, so that no path is lost before an erasure is left behind by *)
(* a growth (Safe); what it has only until the first Erase is an exact     *)
(* table (Exact), from which atomicity follows.                            *)
(***************************************************************************)
EXTENDS GuardedSet, FiniteSetTheorems, TLAPS

Inside == {"insert", "moving", "counting", "contains"}

MutualExclusion == \A t \in Threads : pc[t] \in Inside => lock = t

(* The old array is in use only while a growth moves it.                   *)
OldIsMoved == old # {} => \E t \in Threads : pc[t] = "moving"

(* An erasure under way is of a path whose Erase has been called.          *)
ErasesErased ==
  \A t \in Threads : pc[t] \in {"erase", "uncounting", "dangling"} => arg[t] \in erased

Safe ==
  /\ TypeOK
  /\ MutualExclusion
  /\ OldIsMoved
  /\ ErasesErased
  /\ NothingForgotten

(* Before any Erase the table is what has been inserted, but for the value *)
(* that is being placed, and a size read under the mutex stays current.    *)
Exact ==
  /\ slots \cup old = inserted
  /\ size = Cardinality(inserted)
  /\ \A t \in Threads :
       /\ pc[t] \in {"idle", "insert", "moving", "counting", "contains"}
       /\ pc[t] = "moving" => arg[t] \notin inserted
       /\ pc[t] = "counting" => arg[t] \notin inserted /\ reg[t] = size

ExactUntilErase == erased = {} => Exact

-------------------------------------------------------------------------------
(* Safe holds initially, with every thread outside.                        *)
LEMMA InitSafe == Init => Safe
<1> SUFFICES ASSUME Init PROVE Safe
  OBVIOUS
<1>1. TypeOK
  <2>1. answer \in [Threads -> [value : Values, found : BOOLEAN]]
    BY DEF Init
  <2>2. dangled \in BOOLEAN
    BY DEF Init
  <2> QED
    BY <2>1, <2>2 DEF Init, TypeOK
<1>2. MutualExclusion /\ OldIsMoved /\ ErasesErased /\ NothingForgotten
  BY DEF Init, MutualExclusion, OldIsMoved, ErasesErased, NothingForgotten, Inside
<1> QED
  BY <1>1, <1>2 DEF Safe

(* Every step of every call keeps Safe.  A path leaves the table only by   *)
(* being moved to the old array, by its own erasure, when it is in         *)
(* "erased", or by one left behind, which sets "dangled".                  *)
LEMMA NextSafe == Safe /\ [Next]_vars => Safe'
<1> SUFFICES ASSUME Safe, [Next]_vars PROVE Safe'
  OBVIOUS
<1> USE ThreadAssumption DEF Safe, TypeOK, table, history
<1>1. ASSUME NEW t \in Threads, NEW v \in Values, Insert(t, v) PROVE Safe'
  <2> USE <1>1 DEF Insert, Goto, Acquire, Release
  <2>1. TypeOK'
    BY DEF MutualExclusion, Inside
  <2>2. MutualExclusion'
    BY DEF MutualExclusion, Inside
  <2>3. OldIsMoved'
    BY DEF OldIsMoved, MutualExclusion, Inside
  <2>4. ErasesErased'
    BY DEF ErasesErased
  <2>5. NothingForgotten'
    BY DEF NothingForgotten, OldIsMoved, MutualExclusion, ErasesErased, Inside
  <2> QED
    BY <2>1, <2>2, <2>3, <2>4, <2>5
<1>2. ASSUME NEW t \in Threads, NEW v \in Values, Contains(t, v) PROVE Safe'
  <2> USE <1>2 DEF Contains, Goto, Acquire, Release
  <2>1. TypeOK'
    BY DEF MutualExclusion, Inside
  <2>2. MutualExclusion'
    BY DEF MutualExclusion, Inside
  <2>3. OldIsMoved'
    BY DEF OldIsMoved, MutualExclusion, Inside
  <2>4. ErasesErased'
    BY DEF ErasesErased
  <2>5. NothingForgotten'
    BY DEF NothingForgotten, OldIsMoved, MutualExclusion, ErasesErased, Inside
  <2> QED
    BY <2>1, <2>2, <2>3, <2>4, <2>5
<1>3. ASSUME NEW t \in Threads, NEW v \in Values, Erase(t, v) PROVE Safe'
  <2> USE <1>3 DEF Erase, Goto, Acquire, Release
  <2>1. TypeOK'
    BY DEF MutualExclusion, Inside
  <2>2. MutualExclusion'
    BY DEF MutualExclusion, Inside
  <2>3. OldIsMoved'
    BY DEF OldIsMoved, MutualExclusion, Inside
  <2>4. ErasesErased'
    BY DEF ErasesErased
  <2>5. NothingForgotten'
    BY DEF NothingForgotten, OldIsMoved, MutualExclusion, ErasesErased, Inside
  <2> QED
    BY <2>1, <2>2, <2>3, <2>4, <2>5
<1>4. ASSUME NEW t \in Threads, InsertPresent(t) PROVE Safe'
  <2> USE <1>4 DEF InsertPresent, Goto, Acquire, Release
  <2>1. TypeOK'
    BY DEF MutualExclusion, Inside
  <2>2. MutualExclusion'
    BY DEF MutualExclusion, Inside
  <2>3. OldIsMoved'
    BY DEF OldIsMoved, MutualExclusion, Inside
  <2>4. ErasesErased'
    BY DEF ErasesErased
  <2>5. NothingForgotten'
    BY DEF NothingForgotten, OldIsMoved, MutualExclusion, ErasesErased, Inside
  <2> QED
    BY <2>1, <2>2, <2>3, <2>4, <2>5
<1>5. ASSUME NEW t \in Threads, InsertGrow(t) PROVE Safe'
  <2> USE <1>5 DEF InsertGrow, Goto, Acquire, Release
  <2>1. TypeOK'
    BY DEF MutualExclusion, Inside
  <2>2. MutualExclusion'
    BY DEF MutualExclusion, Inside
  <2>3. OldIsMoved'
    BY DEF OldIsMoved, MutualExclusion, Inside
  <2>4. ErasesErased'
    BY DEF ErasesErased
  <2>5. NothingForgotten'
    BY DEF NothingForgotten, OldIsMoved, MutualExclusion, ErasesErased, Inside
  <2> QED
    BY <2>1, <2>2, <2>3, <2>4, <2>5
<1>6. ASSUME NEW t \in Threads, InsertMove(t) PROVE Safe'
  <2> USE <1>6 DEF InsertMove, Goto, Acquire, Release
  <2>1. TypeOK'
    BY DEF MutualExclusion, Inside
  <2>2. MutualExclusion'
    BY DEF MutualExclusion, Inside
  <2>3. OldIsMoved'
    BY DEF OldIsMoved, MutualExclusion, Inside
  <2>4. ErasesErased'
    BY DEF ErasesErased
  <2>5. NothingForgotten'
    BY DEF NothingForgotten, OldIsMoved, MutualExclusion, ErasesErased, Inside
  <2> QED
    BY <2>1, <2>2, <2>3, <2>4, <2>5
<1>7. ASSUME NEW t \in Threads, InsertNew(t) PROVE Safe'
  <2> USE <1>7 DEF InsertNew, Goto, Acquire, Release
  <2>1. TypeOK'
    BY DEF MutualExclusion, Inside
  <2>2. MutualExclusion'
    BY DEF MutualExclusion, Inside
  <2>3. OldIsMoved'
    BY DEF OldIsMoved, MutualExclusion, Inside
  <2>4. ErasesErased'
    BY DEF ErasesErased
  <2>5. NothingForgotten'
    BY DEF NothingForgotten, OldIsMoved, MutualExclusion, ErasesErased, Inside
  <2> QED
    BY <2>1, <2>2, <2>3, <2>4, <2>5
<1>8. ASSUME NEW t \in Threads, InsertCount(t) PROVE Safe'
  <2> USE <1>8 DEF InsertCount, Goto, Acquire, Release
  <2>1. TypeOK'
    BY DEF MutualExclusion, Inside
  <2>2. MutualExclusion'
    BY DEF MutualExclusion, Inside
  <2>3. OldIsMoved'
    BY DEF OldIsMoved, MutualExclusion, Inside
  <2>4. ErasesErased'
    BY DEF ErasesErased
  <2>5. NothingForgotten'
    BY DEF NothingForgotten, OldIsMoved, MutualExclusion, ErasesErased, Inside
  <2> QED
    BY <2>1, <2>2, <2>3, <2>4, <2>5
<1>9. ASSUME NEW t \in Threads, ContainsReturns(t) PROVE Safe'
  <2> USE <1>9 DEF ContainsReturns, Goto, Acquire, Release
  <2>1. TypeOK'
    BY DEF MutualExclusion, Inside
  <2>2. MutualExclusion'
    BY DEF MutualExclusion, Inside
  <2>3. OldIsMoved'
    BY DEF OldIsMoved, MutualExclusion, Inside
  <2>4. ErasesErased'
    BY DEF ErasesErased
  <2>5. NothingForgotten'
    BY DEF NothingForgotten, OldIsMoved, MutualExclusion, ErasesErased, Inside
  <2> QED
    BY <2>1, <2>2, <2>3, <2>4, <2>5
<1>10. ASSUME NEW t \in Threads, EraseFinds(t) PROVE Safe'
  <2> USE <1>10 DEF EraseFinds, Goto, Acquire, Release
  <2>1. TypeOK'
    BY DEF MutualExclusion, Inside
  <2>2. MutualExclusion'
    BY DEF MutualExclusion, Inside
  <2>3. OldIsMoved'
    BY DEF OldIsMoved, MutualExclusion, Inside
  <2>4. ErasesErased'
    BY DEF ErasesErased
  <2>5. NothingForgotten'
    BY DEF NothingForgotten, OldIsMoved, MutualExclusion, ErasesErased, Inside
  <2> QED
    BY <2>1, <2>2, <2>3, <2>4, <2>5
<1>11. ASSUME NEW t \in Threads, EraseMisses(t) PROVE Safe'
  <2> USE <1>11 DEF EraseMisses, Goto, Acquire, Release
  <2>1. TypeOK'
    BY DEF MutualExclusion, Inside
  <2>2. MutualExclusion'
    BY DEF MutualExclusion, Inside
  <2>3. OldIsMoved'
    BY DEF OldIsMoved, MutualExclusion, Inside
  <2>4. ErasesErased'
    BY DEF ErasesErased
  <2>5. NothingForgotten'
    BY DEF NothingForgotten, OldIsMoved, MutualExclusion, ErasesErased, Inside
  <2> QED
    BY <2>1, <2>2, <2>3, <2>4, <2>5
<1>12. ASSUME NEW t \in Threads, EraseCounts(t) PROVE Safe'
  <2> USE <1>12 DEF EraseCounts, Goto, Acquire, Release
  <2>1. TypeOK'
    BY DEF MutualExclusion, Inside
  <2>2. MutualExclusion'
    BY DEF MutualExclusion, Inside
  <2>3. OldIsMoved'
    BY DEF OldIsMoved, MutualExclusion, Inside
  <2>4. ErasesErased'
    BY DEF ErasesErased
  <2>5. NothingForgotten'
    BY DEF NothingForgotten, OldIsMoved, MutualExclusion, ErasesErased, Inside
  <2> QED
    BY <2>1, <2>2, <2>3, <2>4, <2>5
<1>13. ASSUME NEW t \in Threads, EraseDangling(t) PROVE Safe'
  <2> USE <1>13 DEF EraseDangling, Goto, Acquire, Release
  <2>1. TypeOK'
    BY DEF MutualExclusion, Inside
  <2>2. MutualExclusion'
    BY DEF MutualExclusion, Inside
  <2>3. OldIsMoved'
    BY DEF OldIsMoved, MutualExclusion, Inside
  <2>4. ErasesErased'
    BY DEF ErasesErased
  <2>5. NothingForgotten'
    BY DEF NothingForgotten, OldIsMoved, MutualExclusion, ErasesErased, Inside
  <2> QED
    BY <2>1, <2>2, <2>3, <2>4, <2>5
<1>14. CASE UNCHANGED vars
  BY <1>14 DEF vars, MutualExclusion, OldIsMoved, ErasesErased, NothingForgotten, Inside
<1> QED
  BY <1>1, <1>2, <1>3, <1>4, <1>5, <1>6, <1>7, <1>8, <1>9, <1>10, <1>11, <1>12, <1>13,
     <1>14
     DEF Next

(* Types, and the mutex is never left locked, whatever calls are made.     *)
THEOREM TypeCorrect == Spec => []TypeOK
<1>1. Init => Safe
  BY InitSafe
<1>2. Safe /\ [Next]_vars => Safe'
  BY NextSafe
<1>3. Safe => TypeOK
  BY DEF Safe
<1> QED
  BY <1>1, <1>2, <1>3, PTL DEF Spec

(* Unless an erasure has been left behind by a growth, the unlocked Erase  *)
(* costs no path that is still to be completed, for any paths and threads. *)
THEOREM NothingLost == Spec => []NothingForgotten
<1>1. Safe => NothingForgotten
  BY DEF Safe
<1> QED
  BY <1>1, InitSafe, NextSafe, PTL DEF Spec

-------------------------------------------------------------------------------
(* The empty table is exact.                                               *)
LEMMA InitExact == Init => ExactUntilErase
BY FS_EmptySet DEF Init, Exact, ExactUntilErase

(* What has been erased stays so, and a step after which nothing has been  *)
(* is not one of Erase.                                                    *)
LEMMA ErasedGrows ==
  ASSUME Safe, [Next]_vars, erased' = {}
  PROVE  /\ erased = {}
         /\ \A t \in Threads : ~EraseFinds(t) /\ ~EraseMisses(t) /\ ~EraseCounts(t) /\ ~EraseDangling(t)
         /\ \A t \in Threads, v \in Values : ~Erase(t, v)
<1>1. \A t \in Threads, v \in Values : ~Erase(t, v)
  BY DEF Erase
<1>2. erased = {}
  BY <1>1 DEF Next, Insert, Contains, InsertPresent, InsertGrow, InsertMove, InsertNew,
             InsertCount, ContainsReturns, EraseFinds, EraseMisses, EraseCounts,
             EraseDangling, vars, history
<1>3. \A t \in Threads : pc[t] \notin {"erase", "uncounting", "dangling"}
  BY <1>2 DEF Safe, ErasesErased
<1>4. \A t \in Threads : ~EraseFinds(t) /\ ~EraseMisses(t) /\ ~EraseCounts(t) /\ ~EraseDangling(t)
  BY <1>3 DEF EraseFinds, EraseMisses, EraseCounts, EraseDangling
<1> QED
  BY <1>1, <1>2, <1>4

(* Until an Erase every step keeps the table exact: the thread that counts *)
(* is alone inside, so the size it read is the size it writes back to.     *)
LEMMA NextExact ==
  ASSUME Safe, ExactUntilErase, [Next]_vars
  PROVE  ExactUntilErase'
<1> SUFFICES ASSUME erased' = {} PROVE Exact'
  BY DEF ExactUntilErase
<1>0. /\ Exact
      /\ \A t \in Threads : ~EraseFinds(t) /\ ~EraseMisses(t) /\ ~EraseCounts(t) /\ ~EraseDangling(t)
      /\ \A t \in Threads, v \in Values : ~Erase(t, v)
  BY ErasedGrows DEF ExactUntilErase
<1> USE <1>0 DEF Safe, TypeOK, Exact, table, history
<1>1. ASSUME NEW t \in Threads, NEW v \in Values, Insert(t, v) PROVE Exact'
  BY <1>1 DEF Insert, Goto, Acquire
<1>2. ASSUME NEW t \in Threads, NEW v \in Values, Contains(t, v) PROVE Exact'
  BY <1>2 DEF Contains, Goto, Acquire
<1>3. ASSUME NEW t \in Threads, InsertPresent(t) PROVE Exact'
  <2>1. inserted' = inserted
    BY <1>3 DEF InsertPresent
  <2> QED
    BY <1>3, <2>1 DEF InsertPresent, Goto
<1>4. ASSUME NEW t \in Threads, InsertGrow(t) PROVE Exact'
  <2>1. old = {}
    BY <1>4 DEF InsertGrow, OldIsMoved, MutualExclusion, Inside
  <2> QED
    BY <1>4, <2>1 DEF InsertGrow
<1>5. ASSUME NEW t \in Threads, InsertMove(t) PROVE Exact'
  BY <1>5 DEF InsertMove, Goto
<1>6. ASSUME NEW t \in Threads, InsertNew(t) PROVE Exact'
  <2>1. old = {}
    BY <1>6 DEF InsertNew, OldIsMoved, MutualExclusion, Inside
  <2> QED
    BY <1>6, <2>1 DEF InsertNew, Goto
<1>7. ASSUME NEW t \in Threads, InsertCount(t) PROVE Exact'
  <2>1. /\ inserted' = inserted \cup {arg[t]}
        /\ slots' \cup old' = inserted'
    BY <1>7 DEF InsertCount
  <2>2. size' = Cardinality(inserted')
    <3>1. arg[t] \notin inserted /\ size' = size + 1
      BY <1>7 DEF InsertCount
    <3>2. IsFiniteSet(inserted)
      BY FS_Subset, ValueAssumption
    <3>3. Cardinality(inserted \cup {arg[t]}) = Cardinality(inserted) + 1
      BY <3>1, <3>2, FS_AddElement
    <3> QED
      BY <2>1, <3>1, <3>3
  <2>3. \A u \in Threads \ {t} : pc[u] \notin Inside
    BY <1>7 DEF InsertCount, MutualExclusion, Inside
  <2> QED
    BY <1>7, <2>1, <2>2, <2>3 DEF InsertCount, Goto, Inside
<1>8. ASSUME NEW t \in Threads, ContainsReturns(t) PROVE Exact'
  BY <1>8 DEF ContainsReturns, Goto
<1>9. CASE UNCHANGED vars
  BY <1>9 DEF vars
<1> QED
  BY <1>0, <1>1, <1>2, <1>3, <1>4, <1>5, <1>6, <1>7, <1>8, <1>9 DEF Next

(* Until the first Erase the table is exact whenever no call is under way. *)
THEOREM ExactWithoutErase == Spec => []QuietIsExact
<1>1. Init => Safe /\ ExactUntilErase
  BY InitSafe, InitExact
<1>2. Safe /\ ExactUntilErase /\ [Next]_vars => (Safe /\ ExactUntilErase)'
  BY NextSafe, NextExact
<1>3. Safe /\ ExactUntilErase => QuietIsExact
  BY DEF Safe, Exact, ExactUntilErase, QuietIsExact, OldIsMoved
<1> QED
  BY <1>1, <1>2, <1>3, PTL DEF Spec

(* Until the first Erase every step is one of AtomicSet, or a stutter: the *)
(* set as the server uses it is atomic.                                    *)
THEOREM AtomicWithoutErase == Spec => ImplementsAtomicSet
<1>1. Init => Atomic!AInit
  BY DEF Init, Atomic!AInit
<1>2. ASSUME Safe, ExactUntilErase, [Next]_vars
      PROVE  [erased' = {} => Atomic!ANext]_(Atomic!avars)
  <2> SUFFICES ASSUME erased' = {} PROVE Atomic!ANext \/ UNCHANGED Atomic!avars
    OBVIOUS
  <2>0. /\ erased = {} /\ Exact
        /\ \A t \in Threads : ~EraseFinds(t) /\ ~EraseMisses(t) /\ ~EraseCounts(t) /\ ~EraseDangling(t)
        /\ \A t \in Threads, v \in Values : ~Erase(t, v)
    BY <1>2, ErasedGrows DEF ExactUntilErase
  <2> USE <1>2, <2>0 DEF Safe, TypeOK, Exact, Atomic!avars, table, history
  <2>1. ASSUME NEW t \in Threads, InsertPresent(t) \/ InsertCount(t)
        PROVE  Atomic!Insert(arg[t])
    BY <2>1 DEF InsertPresent, InsertCount, Atomic!Insert
  <2>2. ASSUME NEW t \in Threads, ContainsReturns(t)
        PROVE  Atomic!Contains(t, arg[t])
    <3>1. old = {}
      BY <2>2 DEF ContainsReturns, OldIsMoved, MutualExclusion, Inside
    <3> QED
      BY <2>2, <3>1 DEF ContainsReturns, Atomic!Contains
  <2>3. ASSUME NEW t \in Threads, NEW v \in Values, Insert(t, v) \/ Contains(t, v)
        PROVE  UNCHANGED Atomic!avars
    BY <2>3 DEF Insert, Contains
  <2>4. ASSUME NEW t \in Threads, InsertGrow(t) \/ InsertMove(t) \/ InsertNew(t)
        PROVE  UNCHANGED Atomic!avars
    BY <2>4 DEF InsertGrow, InsertMove, InsertNew
  <2>5. CASE UNCHANGED vars
    BY <2>5 DEF vars
  <2> QED
    BY <2>0, <2>1, <2>2, <2>3, <2>4, <2>5 DEF Next, Atomic!ANext
<1>3. Init => Safe /\ ExactUntilErase
  BY InitSafe, InitExact
<1>4. Safe /\ ExactUntilErase /\ [Next]_vars => (Safe /\ ExactUntilErase)'
  BY NextSafe, NextExact
<1> QED
  BY <1>1, <1>2, <1>3, <1>4, PTL DEF Spec, ImplementsAtomicSet
==============================================================================
