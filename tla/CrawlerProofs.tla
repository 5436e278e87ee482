---------------------------- MODULE CrawlerProofs ----------------------------
(***************************************************************************)
(* Proofs about Crawler, for any tree and any limit on descriptors.        *)
(*                                                                         *)
(* The inductive invariant says where an entry can be: what is below a     *)
(* directory that waits in the queue or has not been handled is untouched, *)
(* what is in the buffer is untouched and belongs to the open directory,   *)
(* and every other entry has been handled, or there is a message about it  *)
(* or about its directory.  The queue has no directory twice, and the root *)
(* only in front, which is why closing the front's descriptor is right.    *)
(***************************************************************************)
EXTENDS Crawler, TLAPS

Elems == {queue[n] : n \in 1..Len(queue)}
Waiting == Elems \ {open}
Fresh(e) == times[e] = 0 /\ e \notin lost

(* No directory is queued twice, and the root is queued in front.          *)
QueueInv ==
  /\ \A m, n \in 1..Len(queue) : queue[m] = queue[n] => m = n
  /\ \A n \in 1..Len(queue) : queue[n] = Root => n = 1
  /\ open # None => queue # << >> /\ open = Head(queue)

(* What is queued has been handled once and nothing has gone wrong with it.*)
QueuedIsHandled ==
  /\ times \in [Entries -> {0, 1}]
  /\ \A d \in Elems : d \notin lost /\ (d # Root => times[d] = 1)

(* Nothing has happened to what is still to be come to.                    *)
RestIsFresh ==
  /\ open = None => unread = {}
  /\ \A e \in unread : Parent[e] = open /\ Fresh(e)
  /\ \A e \in Entries : Parent[e] \in Waiting => Fresh(e)
  /\ \A e \in Entries : Parent[e] # Root /\ times[Parent[e]] = 0 => Fresh(e)

Accounted ==
  \A e \in Entries :
    \/ times[e] = 1 \/ e \in lost \/ Parent[e] \in lost
    \/ Parent[e] # Root /\ times[Parent[e]] = 0
    \/ e \in unread
    \/ Parent[e] \in Waiting

IInv == TypeOK /\ QueueInv /\ FdsAreExact /\ QueuedIsHandled /\ RestIsFresh /\ Accounted

-------------------------------------------------------------------------------
(* Where entries are in the tree.                                          *)
LEMMA TreeFacts ==
  /\ Root \notin Entries /\ None \notin Entries /\ None # Root
  /\ \A e \in Entries : Parent[e] \in Dirs \cup {Root}
  /\ Dirs \subseteq Entries /\ Leaves \subseteq Entries /\ Others \subseteq Entries
BY TreeAssumption DEF Entries

(* The front of the queue is in it.                                        *)
LEMMA FrontFacts ==
  ASSUME TypeOK, queue # << >>
  PROVE  /\ Len(queue) \in Nat \ {0} /\ Head(queue) = queue[1]
         /\ Head(queue) \in Elems /\ Elems \subseteq Dirs \cup {Root}
<1>1. queue \in Seq(Dirs \cup {Root})
  BY DEF TypeOK
<1>2. Len(queue) \in Nat \ {0} /\ Head(queue) = queue[1]
  BY <1>1
<1> QED BY <1>1, <1>2 DEF Elems

(* queue.pop() takes out the front and nothing else, and keeps the order.  *)
LEMMA PopFacts ==
  ASSUME TypeOK, QueueInv, queue # << >>, queue' = Tail(queue)
  PROVE  /\ queue' \in Seq(Dirs \cup {Root}) /\ Len(queue') = Len(queue) - 1
         /\ \A n \in 1..Len(queue') : queue'[n] = queue[n + 1]
         /\ Elems' = Elems \ {Head(queue)}
         /\ \A m, n \in 1..Len(queue') : queue'[m] = queue'[n] => m = n
         /\ Root \notin Elems'
<1>1. queue \in Seq(Dirs \cup {Root}) /\ Len(queue) \in Nat \ {0} /\ Head(queue) = queue[1]
  BY FrontFacts DEF TypeOK
<1>2. /\ queue' \in Seq(Dirs \cup {Root}) /\ Len(queue') = Len(queue) - 1
      /\ \A n \in 1..Len(queue') : queue'[n] = queue[n + 1]
  BY <1>1
<1>3. \A m, n \in 1..Len(queue') : queue'[m] = queue'[n] => m = n
  <2> SUFFICES ASSUME NEW m \in 1..Len(queue'), NEW n \in 1..Len(queue'), queue'[m] = queue'[n]
               PROVE  m = n
    OBVIOUS
  <2>1. m + 1 \in 1..Len(queue) /\ n + 1 \in 1..Len(queue) /\ queue[m + 1] = queue[n + 1]
    BY <1>1, <1>2
  <2>2. m + 1 = n + 1
    BY <2>1 DEF QueueInv
  <2> QED BY <2>2
<1>4. Elems' \subseteq Elems \ {Head(queue)}
  <2> SUFFICES ASSUME NEW n \in 1..Len(queue') PROVE queue'[n] \in Elems \ {Head(queue)}
    BY DEF Elems
  <2>1. n + 1 \in 1..Len(queue) /\ 1 \in 1..Len(queue) /\ n + 1 # 1
    BY <1>1, <1>2
  <2> QED BY <1>1, <1>2, <2>1 DEF Elems, QueueInv
<1>5. Elems \ {Head(queue)} \subseteq Elems'
  <2> SUFFICES ASSUME NEW n \in 1..Len(queue), queue[n] # Head(queue) PROVE queue[n] \in Elems'
    BY DEF Elems
  <2>1. n # 1
    BY <1>1
  <2>2. n - 1 \in 1..Len(queue') /\ queue'[n - 1] = queue[n]
    BY <1>1, <1>2, <2>1
  <2> QED BY <2>2 DEF Elems
<1>6. Root \notin Elems'
  <2> SUFFICES ASSUME NEW n \in 1..Len(queue'), queue'[n] = Root PROVE FALSE
    BY DEF Elems
  <2>1. n + 1 \in 1..Len(queue) /\ queue[n + 1] = Root /\ n + 1 # 1
    BY <1>1, <1>2
  <2> QED BY <2>1 DEF QueueInv
<1> QED BY <1>2, <1>3, <1>4, <1>5, <1>6

(* queue.emplace puts the directory at the end.                            *)
LEMMA KeepFacts ==
  ASSUME TypeOK, QueueInv, queue # << >>, NEW e \in Dirs, e \notin Elems,
         queue' = Append(queue, e)
  PROVE  /\ queue' \in Seq(Dirs \cup {Root}) /\ Len(queue') = Len(queue) + 1
         /\ queue' # << >> /\ Head(queue') = Head(queue)
         /\ Elems' = Elems \cup {e}
         /\ \A m, n \in 1..Len(queue') : queue'[m] = queue'[n] => m = n
         /\ \A n \in 1..Len(queue') : queue'[n] = Root => n = 1
<1>1. queue \in Seq(Dirs \cup {Root}) /\ Len(queue) \in Nat \ {0} /\ e # Root
  BY FrontFacts, TreeFacts DEF TypeOK
<1>2. /\ queue' \in Seq(Dirs \cup {Root}) /\ Len(queue') = Len(queue) + 1
      /\ queue' # << >> /\ Head(queue') = Head(queue)
      /\ \A n \in 1..Len(queue) : queue'[n] = queue[n]
      /\ queue'[Len(queue) + 1] = e
  BY <1>1
<1>3. \A n \in 1..Len(queue') : n \in 1..Len(queue) \/ n = Len(queue) + 1
  BY <1>1, <1>2
<1>4. \A n \in 1..Len(queue) : queue[n] # e /\ n # Len(queue) + 1
  BY <1>1 DEF Elems
<1>5. Elems' = Elems \cup {e}
  <2>1. Elems' \subseteq Elems \cup {e}
    BY <1>2, <1>3 DEF Elems
  <2>2. \A n \in 1..Len(queue) : n \in 1..Len(queue')
    BY <1>1, <1>2
  <2>3. Elems \subseteq Elems'
    BY <1>2, <2>2 DEF Elems
  <2>4. e \in Elems'
    <3>1. Len(queue) + 1 \in 1..Len(queue')
      BY <1>1, <1>2
    <3> QED BY <1>2, <3>1 DEF Elems
  <2> QED BY <2>1, <2>3, <2>4
<1>6. \A m, n \in 1..Len(queue') : queue'[m] = queue'[n] => m = n
  BY <1>2, <1>3, <1>4 DEF QueueInv
<1>7. \A n \in 1..Len(queue') : queue'[n] = Root => n = 1
  BY <1>1, <1>2, <1>3 DEF QueueInv
<1> QED BY <1>2, <1>5, <1>6, <1>7

-------------------------------------------------------------------------------
(* The invariant holds of the initial states.                              *)
LEMMA InitIInv == Init => IInv
<1> SUFFICES ASSUME Init PROVE IInv
  OBVIOUS
<1>1. queue = <<Root>> /\ Len(queue) = 1 /\ queue[1] = Root /\ Elems = {Root}
  BY DEF Init, Elems
<1>2. TypeOK
  BY <1>1, LimitAssumption DEF Init, TypeOK
<1>3. QueueInv /\ FdsAreExact
  BY <1>1 DEF Init, QueueInv, FdsAreExact
<1>4. QueuedIsHandled
  BY <1>1 DEF Init, QueuedIsHandled
<1>5. RestIsFresh
  BY DEF Init, RestIsFresh, Fresh
<1>6. Waiting = {Root}
  BY <1>1, TreeFacts DEF Init, Waiting
<1>7. Accounted
  BY <1>6, TreeFacts DEF Init, Accounted, Entries
<1> QED BY <1>2, <1>3, <1>4, <1>5, <1>7 DEF IInv

(* What waits when no directory is open, and what when the front is.       *)
LEMMA WaitingFacts ==
  ASSUME IInv
  PROVE  /\ open = None => Waiting = Elems
         /\ open # None => open \in Elems /\ open \in Dirs \cup {Root} /\ queue # << >>
         /\ None \notin Elems
<1>1. Elems \subseteq Dirs \cup {Root}
  BY DEF IInv, TypeOK, Elems
<1>2. None \notin Elems
  BY <1>1, TreeFacts
<1> QED BY <1>1, <1>2, FrontFacts DEF IInv, QueueInv, Waiting

(* An entry in the buffer: what it is not.                                 *)
LEMMA UnreadFacts ==
  ASSUME IInv, NEW e \in unread
  PROVE  /\ e \in Entries /\ Fresh(e) /\ e \notin Elems
         /\ open # None /\ Parent[e] = open /\ open \notin lost
         /\ open # Root => times[open] = 1
         /\ \A x \in Entries : Parent[x] \in Waiting => x # e
         /\ \A x \in Entries : Parent[x] # Root /\ times[Parent[x]] = 0 => x # e
<1>1. e \in Entries /\ Fresh(e) /\ open # None /\ Parent[e] = open
  BY DEF IInv, TypeOK, RestIsFresh
<1>2. open \in Elems /\ open \notin lost /\ (open # Root => times[open] = 1)
  BY <1>1, WaitingFacts DEF IInv, QueuedIsHandled
<1>3. e \notin Elems
  BY <1>1, TreeFacts DEF IInv, QueuedIsHandled, Fresh
<1> QED BY <1>1, <1>2, <1>3 DEF Waiting

(* The front is lost, or merely done with; what is left of the queue and   *)
(* what is below it is not touched by that.                                *)
LEMMA LoseFront ==
  ASSUME IInv, queue # << >>, NEW L, L \subseteq {Head(queue)}, lost' = lost \cup L,
         Elems' = Elems \ {Head(queue)}, open' = None, unread' = {}, times' = times
  PROVE  QueuedIsHandled' /\ RestIsFresh' /\ Waiting' = Waiting \ {Head(queue)}
<1>1. Head(queue) \in Elems /\ Elems \subseteq Dirs \cup {Root}
  BY FrontFacts DEF IInv
<1>2. Waiting' = Waiting \ {Head(queue)}
  BY WaitingFacts, <1>1, TreeFacts DEF Waiting, IInv, QueueInv
<1>3. QueuedIsHandled'
  BY DEF IInv, QueuedIsHandled
<1>4. \A x \in Entries : Fresh(x) => x # Head(queue)
  BY <1>1, TreeFacts DEF IInv, QueuedIsHandled, Fresh
<1>5. \A x \in Entries : Fresh(x) => Fresh(x)'
  BY <1>4 DEF Fresh
<1> QED BY <1>2, <1>3, <1>5 DEF IInv, RestIsFresh

(* What the descriptors and the queue are after the front has gone.        *)
LEMMA AfterPop ==
  ASSUME IInv, queue # << >>, Pop, open' = None
  PROVE  /\ queue' = Tail(queue) /\ queue' \in Seq(Dirs \cup {Root})
         /\ fds' = Len(queue') /\ fds' \in Nat /\ fds' <= fds
         /\ Elems' = Elems \ {Head(queue)}
         /\ QueueInv' /\ FdsAreExact'
<1>1. /\ queue' = Tail(queue) /\ queue' \in Seq(Dirs \cup {Root}) /\ Len(queue') = Len(queue) - 1
      /\ \A m, n \in 1..Len(queue') : queue'[m] = queue'[n] => m = n
      /\ Root \notin Elems' /\ Elems' = Elems \ {Head(queue)}
  BY PopFacts DEF IInv, Pop
<1>2. Len(queue) \in Nat \ {0} /\ Len(queue') \in Nat
  BY <1>1, FrontFacts DEF IInv
<1>3. fds = Len(queue) - (IF Head(queue) = Root THEN 1 ELSE 0) + (IF open # None THEN 1 ELSE 0)
  BY DEF IInv, FdsAreExact
<1>4. fds' = Len(queue') /\ fds' \in Nat /\ fds' <= fds
  <2> DEFINE o == IF open # None THEN 1 ELSE 0
             k == IF Head(queue) = Root THEN 1 ELSE 0
  <2>1. o \in 0..1 /\ k \in 0..1
    OBVIOUS
  <2>2. fds = Len(queue) - k + o
    BY <1>3
  <2>3. fds' = fds - o - (1 - k)
    BY DEF Pop
  <2> HIDE DEF o, k
  <2>4. fds' = Len(queue) - 1 /\ fds' <= fds
    BY <1>2, <2>1, <2>2, <2>3
  <2> QED BY <1>1, <1>2, <2>4
<1>5. QueueInv'
  BY <1>1 DEF QueueInv, Elems
<1>6. queue' # << >> => Head(queue') # Root
  BY <1>1, <1>2 DEF Elems
<1>7. FdsAreExact'
  BY <1>2, <1>4, <1>6 DEF FdsAreExact
<1> QED BY <1>1, <1>2, <1>4, <1>5, <1>7

(* Arithmetic of the limit.                                                *)
LEMMA FewerFit ==
  ASSUME NEW a \in Nat, NEW b \in Nat, NEW c \in Nat, NEW n \in Nat, a <= b, b + c <= n
  PROVE  a + c <= n
OBVIOUS

(* A pop leaves room for the other threads.                                *)
LEMMA PopTypes ==
  ASSUME IInv, fds' \in Nat, fds' <= fds
  PROVE  fds' + taken <= MaxFds
<1>1. fds \in Nat /\ taken \in Nat /\ MaxFds \in Nat /\ fds + taken <= MaxFds
  BY LimitAssumption DEF IInv, TypeOK
<1> QED BY <1>1, FewerFit

(* openat succeeds.                                                        *)
LEMMA OpenStep ==
  ASSUME IInv, Open
  PROVE  IInv'
<1>1. open = None /\ queue # << >> /\ open' = Head(queue) /\ unread' = Children(Head(queue))
      /\ fds' = fds + 1 /\ UNCHANGED <<queue, taken, times, lost, faults>>
      /\ fds + taken < MaxFds
  BY DEF Open, Free
<1>2. Elems' = Elems /\ Waiting = Elems /\ Head(queue) \in Elems
      /\ Head(queue) \in Dirs \cup {Root} /\ Head(queue) # None
  BY <1>1, FrontFacts, WaitingFacts, TreeFacts DEF IInv, Elems
<1>3. Waiting' = Elems \ {Head(queue)}
  BY <1>1, <1>2 DEF Waiting
<1>4. TypeOK'
  BY <1>1, <1>2, LimitAssumption DEF IInv, TypeOK, Children
<1>5. QueueInv'
  BY <1>1 DEF IInv, QueueInv
<1>6. FdsAreExact'
  BY <1>1, <1>2, FrontFacts DEF IInv, FdsAreExact, TypeOK
<1>7. QueuedIsHandled'
  BY <1>1, <1>2 DEF IInv, QueuedIsHandled
<1>8. RestIsFresh'
  BY <1>1, <1>2, <1>3 DEF IInv, RestIsFresh, Fresh, Children
<1>9. Accounted'
  BY <1>1, <1>2, <1>3 DEF IInv, Accounted, Children, RestIsFresh
<1> QED BY <1>4, <1>5, <1>6, <1>7, <1>8, <1>9 DEF IInv

(* openat fails: the front is lost, and what is below it has a message.    *)
LEMMA OpenFailsStep ==
  ASSUME IInv, OpenFails
  PROVE  IInv'
<1>1. open = None /\ queue # << >> /\ lost' = lost \cup {Head(queue)} /\ Pop
      /\ UNCHANGED <<open, unread, taken, times>> /\ unread = {}
  BY DEF OpenFails, IInv, RestIsFresh
<1>2. /\ queue' \in Seq(Dirs \cup {Root}) /\ fds' \in Nat /\ fds' <= fds
      /\ Elems' = Elems \ {Head(queue)} /\ QueueInv' /\ FdsAreExact'
  BY <1>1, AfterPop
<1>3. Waiting = Elems /\ Head(queue) \in Elems /\ Head(queue) \in Dirs \cup {Root}
  BY <1>1, FrontFacts, WaitingFacts DEF IInv
<1>4. faults' \in 0..MaxFaults
  BY LimitAssumption DEF OpenFails, Fault, IInv, TypeOK
<1>5. TypeOK'
  <2>1. lost' \subseteq Entries \cup {Root}
    BY <1>1, <1>3, TreeFacts DEF IInv, TypeOK
  <2>2. fds' + taken <= MaxFds
    BY <1>2, PopTypes
  <2> QED BY <1>1, <1>2, <1>4, <2>1, <2>2 DEF IInv, TypeOK
<1>6. QueuedIsHandled' /\ RestIsFresh' /\ Waiting' = Waiting \ {Head(queue)}
  BY <1>1, <1>2, LoseFront
<1>7. Accounted'
  BY <1>1, <1>6 DEF IInv, Accounted
<1> QED BY <1>2, <1>5, <1>6, <1>7 DEF IInv

(* The end of the directory: its descriptor and its place in the queue go. *)
LEMMA CloseStep ==
  ASSUME IInv, Close
  PROVE  IInv'
<1>1. open # None /\ unread = {} /\ Pop /\ open' = None
      /\ UNCHANGED <<unread, taken, times, lost, faults>>
  BY DEF Close
<1>2. queue # << >> /\ open = Head(queue)
  BY <1>1 DEF IInv, QueueInv
<1>3. /\ queue' \in Seq(Dirs \cup {Root}) /\ fds' \in Nat /\ fds' <= fds
      /\ Elems' = Elems \ {Head(queue)} /\ QueueInv' /\ FdsAreExact'
  BY <1>1, <1>2, AfterPop
<1>4. TypeOK'
  BY <1>1, <1>3, PopTypes DEF IInv, TypeOK
<1>5. QueuedIsHandled' /\ RestIsFresh' /\ Waiting' = Waiting \ {Head(queue)}
  <2>1. lost' = lost \cup {} /\ unread' = {} /\ times' = times
    BY <1>1
  <2> QED BY <1>1, <1>2, <1>3, <2>1, LoseFront
<1>6. Waiting' = Waiting
  BY <1>2, <1>5 DEF Waiting
<1>7. Accounted'
  BY <1>1, <1>6 DEF IInv, Accounted
<1> QED BY <1>3, <1>4, <1>5, <1>7 DEF IInv

(* getdents64 fails: the rest of the directory has a message.              *)
LEMMA ReadFailsStep ==
  ASSUME IInv, ReadFails
  PROVE  IInv'
<1>1. open # None /\ Pop /\ open' = None /\ unread' = {} /\ lost' = lost \cup {open}
      /\ UNCHANGED <<taken, times>> /\ faults' \in 0..MaxFaults
  BY LimitAssumption DEF ReadFails, Fault, IInv, TypeOK
<1>2. queue # << >> /\ open = Head(queue) /\ open \in Dirs \cup {Root}
  BY <1>1, WaitingFacts DEF IInv, QueueInv
<1>3. /\ queue' \in Seq(Dirs \cup {Root}) /\ fds' \in Nat /\ fds' <= fds
      /\ Elems' = Elems \ {Head(queue)} /\ QueueInv' /\ FdsAreExact'
  BY <1>1, <1>2, AfterPop
<1>4. TypeOK'
  <2>1. lost' \subseteq Entries \cup {Root}
    BY <1>1, <1>2, TreeFacts DEF IInv, TypeOK
  <2> QED BY <1>1, <1>3, <2>1, PopTypes DEF IInv, TypeOK
<1>5. QueuedIsHandled' /\ RestIsFresh' /\ Waiting' = Waiting \ {Head(queue)}
  BY <1>1, <1>2, <1>3, LoseFront
<1>6. Waiting' = Waiting
  BY <1>2, <1>5 DEF Waiting
<1>7. Accounted'
  BY <1>1, <1>6 DEF IInv, Accounted, RestIsFresh
<1> QED BY <1>3, <1>4, <1>5, <1>7 DEF IInv

(* An entry is passed over with a message.                                 *)
LEMMA PassStep ==
  ASSUME IInv, NEW e \in Entries, Pass(e)
  PROVE  IInv'
<1>1. e \in unread /\ unread' = unread \ {e} /\ lost' = lost \cup {e}
      /\ UNCHANGED <<queue, open, fds, taken, times>> /\ faults' \in 0..MaxFaults
  BY LimitAssumption DEF Pass, Fault, IInv, TypeOK
<1>2. Elems' = Elems /\ Waiting' = Waiting
  BY <1>1 DEF Elems, Waiting
<1>3. TypeOK' /\ QueueInv' /\ FdsAreExact'
  BY <1>1 DEF IInv, TypeOK, QueueInv, FdsAreExact
<1>4. QueuedIsHandled'
  BY <1>1, <1>2, UnreadFacts DEF IInv, QueuedIsHandled
<1>5. RestIsFresh'
  BY <1>1, <1>2, UnreadFacts DEF IInv, RestIsFresh, Fresh
<1>6. Accounted'
  BY <1>1, <1>2 DEF IInv, Accounted
<1> QED BY <1>3, <1>4, <1>5, <1>6 DEF IInv

(* An entry is handled, and a directory is queued or has a message.        *)
LEMMA ReadStep ==
  ASSUME IInv, NEW e \in Entries, Read(e)
  PROVE  IInv'
<1>1. e \in unread /\ unread' = unread \ {e} /\ times' = [times EXCEPT ![e] = @ + 1]
      /\ UNCHANGED <<open, taken, faults>>
  BY DEF Read
<1>2. /\ Fresh(e) /\ e \notin Elems /\ open # None /\ Parent[e] = open
      /\ \A x \in Entries : Parent[x] \in Waiting => x # e
      /\ \A x \in Entries : Parent[x] # Root /\ times[Parent[x]] = 0 => x # e
      /\ open # Root => times[open] = 1
  BY <1>1, UnreadFacts
<1>3. times' \in [Entries -> {0, 1}] /\ times'[e] = 1
      /\ \A x \in Entries \ {e} : times'[x] = times[x]
  BY <1>1, <1>2 DEF IInv, QueuedIsHandled, Fresh
<1>4. e # open /\ e # Root
  BY <1>2, TreeFacts DEF Fresh
<1>5. queue # << >> /\ open = Head(queue) /\ Len(queue) \in Nat \ {0}
  BY <1>2, FrontFacts DEF IInv, QueueInv
<1>6. \A x \in Entries : Parent[x] # Root /\ times'[Parent[x]] = 0 =>
        times[Parent[x]] = 0 /\ Parent[x] # e
  BY <1>3, TreeFacts
<1>7. ASSUME UNCHANGED <<queue, fds>>, lost' \in {lost, lost \cup {e}},
             e \in Dirs => e \in lost'
      PROVE  IInv'
  <2>1. Elems' = Elems /\ Waiting' = Waiting
    BY <1>1, <1>7 DEF Elems, Waiting
  <2>2. TypeOK'
    BY <1>1, <1>3, <1>7 DEF IInv, TypeOK
  <2>10. QueueInv' /\ FdsAreExact'
    BY <1>1, <1>7 DEF IInv, QueueInv, FdsAreExact
  <2>3. QueuedIsHandled'
    BY <1>2, <1>3, <1>7, <2>1, FrontFacts, <1>5, TreeFacts DEF IInv, QueuedIsHandled
  <2>4. RestIsFresh'
    BY <1>1, <1>2, <1>3, <1>6, <1>7, <2>1 DEF IInv, RestIsFresh, Fresh, TypeOK
  <2>5. Accounted'
    BY <1>1, <1>3, <1>4, <1>7, <2>1, TreeFacts DEF IInv, Accounted
  <2> QED BY <2>2, <2>3, <2>4, <2>5, <2>10 DEF IInv
<1>8. ASSUME e \in Dirs, Free, Keep(e), UNCHANGED lost
      PROVE  IInv'
  <2>1. /\ queue' \in Seq(Dirs \cup {Root}) /\ Len(queue') = Len(queue) + 1
        /\ queue' # << >> /\ Head(queue') = Head(queue)
        /\ Elems' = Elems \cup {e} /\ fds' = fds + 1
        /\ \A m, n \in 1..Len(queue') : queue'[m] = queue'[n] => m = n
        /\ \A n \in 1..Len(queue') : queue'[n] = Root => n = 1
    BY <1>2, <1>5, <1>8, KeepFacts DEF Keep, IInv
  <2>2. Waiting' = Waiting \cup {e}
    BY <1>1, <1>4, <2>1 DEF Waiting
  <2>3. TypeOK'
    BY <1>1, <1>3, <1>8, <2>1, LimitAssumption DEF IInv, TypeOK, Free
  <2>4. QueueInv'
    BY <1>1, <1>5, <2>1 DEF IInv, QueueInv
  <2>5. FdsAreExact'
    <3>1. fds = Len(queue) - (IF Head(queue) = Root THEN 1 ELSE 0)
                           + (IF open # None THEN 1 ELSE 0)
      BY <1>5 DEF IInv, FdsAreExact
    <3>2. fds' = Len(queue') - (IF Head(queue) = Root THEN 1 ELSE 0)
                             + (IF open # None THEN 1 ELSE 0)
      BY <1>5, <2>1, <3>1
    <3> QED BY <1>1, <2>1, <3>2 DEF FdsAreExact
  <2>6. QueuedIsHandled'
    BY <1>2, <1>3, <1>5, <1>8, <2>1, FrontFacts, TreeFacts DEF IInv, QueuedIsHandled, Fresh
  <2>7. \A x \in Entries : Parent[x] = e => Fresh(x) /\ x # e
    BY <1>2, <1>4 DEF IInv, RestIsFresh, Fresh
  <2>8. RestIsFresh'
    BY <1>1, <1>2, <1>3, <1>6, <1>8, <2>2, <2>7 DEF IInv, RestIsFresh, Fresh, TypeOK
  <2>9. Accounted'
    BY <1>1, <1>3, <1>8, <2>2, TreeFacts DEF IInv, Accounted
  <2> QED BY <2>3, <2>4, <2>5, <2>6, <2>8, <2>9 DEF IInv
<1> QED
  <2>1. CASE e \notin Dirs /\ UNCHANGED <<queue, fds, lost>>
    BY <1>7, <2>1
  <2>2. CASE e \in Dirs /\ Free /\ Keep(e) /\ UNCHANGED lost
    BY <1>8, <2>2
  <2>3. CASE e \in Dirs /\ ~Free /\ lost' = lost \cup {e} /\ UNCHANGED <<queue, fds>>
    BY <1>7, <2>3
  <2> QED BY <2>1, <2>2, <2>3 DEF Read

(* The rest of the process takes and gives back descriptors.               *)
LEMMA ElsewhereStep ==
  ASSUME IInv, UNCHANGED <<queue, open, unread, fds, times, lost, faults>>,
         taken' \in Nat, fds' + taken' <= MaxFds
  PROVE  IInv'
<1>1. TypeOK' /\ QueueInv' /\ FdsAreExact'
  BY DEF IInv, TypeOK, QueueInv, FdsAreExact
<1>2. Elems' = Elems /\ Waiting' = Waiting
  BY DEF Elems, Waiting
<1>3. QueuedIsHandled' /\ RestIsFresh' /\ Accounted'
  BY <1>2 DEF IInv, QueuedIsHandled, RestIsFresh, Fresh, Accounted
<1> QED BY <1>1, <1>3 DEF IInv

(* Every step keeps the invariant.                                         *)
LEMMA NextIInv == IInv /\ [Next]_vars => IInv'
<1> SUFFICES ASSUME IInv, [Next]_vars PROVE IInv'
  OBVIOUS
<1>1. CASE Step
  BY <1>1, OpenStep, OpenFailsStep, CloseStep, ReadFailsStep, ReadStep, PassStep DEF Step
<1>2. CASE Elsewhere
  <2>1. PICK n \in 0..MaxFds : n + fds <= MaxFds /\ taken' = n
    BY <1>2 DEF Elsewhere
  <2>2. fds' = fds /\ fds \in Nat /\ n \in Nat /\ MaxFds \in Nat
    BY <1>2, LimitAssumption DEF Elsewhere, IInv, TypeOK
  <2>3. fds' + taken' <= MaxFds
    BY <2>1, <2>2
  <2> QED BY <1>2, <2>1, <2>2, <2>3, ElsewhereStep DEF Elsewhere
<1>3. CASE UNCHANGED vars
  <2>1. taken' \in Nat /\ fds' + taken' <= MaxFds
    BY <1>3 DEF vars, IInv, TypeOK
  <2> QED BY <1>3, <2>1, ElsewhereStep DEF vars
<1> QED BY <1>1, <1>2, <1>3 DEF Next

(* The invariant holds always.                                             *)
LEMMA Inductive == Spec => []IInv
BY InitIInv, NextIInv, PTL DEF Spec

-------------------------------------------------------------------------------
(* Types and the limit on descriptors, for every tree and every limit.     *)
THEOREM TypeCorrect == Spec => []TypeOK
<1>1. IInv => TypeOK
  BY DEF IInv
<1> QED BY <1>1, Inductive, PTL

(* The crawl never leaks a descriptor and never closes one twice.          *)
THEOREM DescriptorsAreExact == Spec => []FdsAreExact
<1>1. IInv => FdsAreExact
  BY DEF IInv
<1> QED BY <1>1, Inductive, PTL

(* Whatever Visit has left out when it returns, there is a message about   *)
(* it or about a directory above it.                                       *)
THEOREM OmissionsAreReported == Spec => []NothingIsSilent
<1>1. IInv => NothingIsSilent
  <2> SUFFICES ASSUME IInv, queue = << >>, NEW e \in Entries
               PROVE  \/ times[e] > 0 \/ e \in lost \/ Parent[e] \in lost
                      \/ Parent[e] # Root /\ times[Parent[e]] = 0
    BY DEF NothingIsSilent
  <2>1. unread = {} /\ Waiting = {}
    BY DEF IInv, QueueInv, RestIsFresh, Waiting, Elems
  <2> QED BY <2>1 DEF IInv, Accounted
<1> QED BY <1>1, Inductive, PTL

(* The crawl implements TreeWalk: nothing is handled twice, or before its  *)
(* directory, or after a message about it.                                 *)
THEOREM Refinement == Spec => ImplementsTreeWalk
<1>1. Init => TW!WInit
  BY DEF Init, TW!WInit
<1>2. IInv /\ [Next]_vars => [TW!WNext]_(TW!wvars)
  <2> SUFFICES ASSUME IInv, [Next]_vars PROVE TW!WNext \/ UNCHANGED TW!wvars
    OBVIOUS
  <2> USE DEF TW!WNext, TW!wvars, TW!GiveUp
  <2>1. CASE Open \/ Close \/ Elsewhere \/ UNCHANGED vars
    BY <2>1 DEF Open, Close, Elsewhere, vars
  <2>2. CASE OpenFails
    <3>1. Head(queue) \in Entries \cup {Root}
      BY <2>2, FrontFacts, TreeFacts DEF IInv, OpenFails
    <3> QED BY <2>2, <3>1 DEF OpenFails
  <2>3. CASE ReadFails
    <3>1. open \in Entries \cup {Root}
      BY <2>3, WaitingFacts, TreeFacts DEF ReadFails
    <3> QED BY <2>3, <3>1 DEF ReadFails
  <2>4. ASSUME NEW e \in Entries, Pass(e) PROVE TW!WNext
    BY <2>4 DEF Pass
  <2>5. ASSUME NEW e \in Entries, Read(e) PROVE TW!WNext
    <3>1. times[e] = 0 /\ e \notin lost /\ Parent[e] \notin lost
          /\ (Parent[e] = Root \/ times[Parent[e]] = 1)
      BY <2>5, UnreadFacts DEF Read, Fresh
    <3>2. times' = [times EXCEPT ![e] = 1]
      BY <2>5, <3>1 DEF Read, IInv, TypeOK
    <3>3. lost' \in {lost, lost \cup {e}}
      BY <2>5 DEF Read
    <3>4. TW!Handle(e)
      BY <3>1, <3>2, <3>3 DEF TW!Handle, TW!Reached
    <3> QED BY <3>4
  <2> QED BY <2>1, <2>2, <2>3, <2>4, <2>5 DEF Next, Step
<1> QED BY <1>1, <1>2, Inductive, PTL DEF Spec, ImplementsTreeWalk, TW!WSpec
===============================================================================
