--------------------------- MODULE ServerJobsProofs ---------------------------
(***************************************************************************)
(* Proofs about ServerJobs, for any number of jobs, managers, clients,     *)
(* failed writes and ends of the process.  The invariant has two parts:    *)
(* what log files and the map hold (LogInv), which only the accept loop    *)
(* changes, and what the managers have done with it (ManagerInv).          *)
(***************************************************************************)
EXTENDS ServerJobs, TLAPS

(* No name has a newline in it, so that a line is read back as it was      *)
(* meant.                                                                  *)
PlainNames == ReadBack = [e \in Entries |-> e]

LogTypes ==
  /\ DOMAIN jobs \subseteq DOMAIN disk /\ DOMAIN disk \subseteq JobIds
  /\ \A j \in DOMAIN jobs : jobs[j] \in Job
  /\ \A j \in DOMAIN disk : disk[j] \in File
  /\ reported \in [JobIds -> SUBSET Entries]
  /\ tears \in 0..MaxTears

(* Whole lines, unfinished ones and what is in memory name entries that    *)
(* have been reported, or that such lines may read like.                   *)
LinesReadLikeReported == \A j \in DOMAIN disk : disk[j].whole \ reported[j] \subseteq Readings(j)

TailsReadLikeReported == \A j \in DOMAIN disk : disk[j].tail \ {Junk} \subseteq Readings(j)

CompletedReadsLikeReported ==
  \A j \in DOMAIN jobs : jobs[j].completed \ reported[j] \subseteq Readings(j)

(* Streams go bad, and lines stay unfinished, by failed writes only.       *)
WholeWithoutTears ==
  tears = 0 => /\ \A j \in DOMAIN jobs : jobs[j].good
               /\ \A j \in DOMAIN disk : disk[j].tail = NoTail

LogInv ==
  /\ LogTypes
  /\ LinesReadLikeReported
  /\ TailsReadLikeReported
  /\ CompletedReadsLikeReported
  /\ MemoryMatchesLog
  /\ WholeWithoutTears

ManagerTypes ==
  /\ up \in BOOLEAN /\ moves \in Nat /\ exits \in 0..MaxExits
  /\ manager \in Seq(Thread) /\ Len(manager) <= MaxManagers
  /\ ready \subseteq Created \X Entries

(* A manager at work has its job in the map.                               *)
JobsInUseAreThere ==
  \A m \in Created : manager[m].phase # "done" => manager[m].job \in DOMAIN jobs

ManagerInv ==
  /\ ManagerTypes
  /\ JobsInUseAreThere
  /\ SoundSkipsWereReported

-------------------------------------------------------------------------------
(* A manager is a record of its fields.                                    *)
LEMMA ThreadFacts ==
  ASSUME ManagerTypes, NEW m \in Created
  PROVE  /\ manager[m] \in Thread
         /\ manager[m].job \in JobIds /\ manager[m].peer \in Peers
         /\ manager[m].told \subseteq Entries /\ manager[m].left \subseteq Entries
<1>1. manager \in Seq(Thread) /\ m \in DOMAIN manager
  BY DEF ManagerTypes, Created
<1>2. manager[m] \in Thread
  BY <1>1
<1> QED
  BY <1>2 DEF Thread

(* There are no logs and no jobs at first.                                 *)
LEMMA InitLog == Init => LogInv
<1> SUFFICES ASSUME Init PROVE LogInv
  OBVIOUS
<1>1. DOMAIN jobs = {} /\ DOMAIN disk = {}
  BY DEF Init
<1> QED
  BY <1>1, BoundAssumption DEF Init, LogInv, LogTypes, LinesReadLikeReported,
     TailsReadLikeReported, CompletedReadsLikeReported, MemoryMatchesLog, WholeWithoutTears

(* A job that is loaded has what its log has in whole lines and in an      *)
(* unfinished one.                                                         *)
LEMMA LoadFacts ==
  ASSUME LogInv, NEW j \in DOMAIN disk
  PROVE  /\ Load(disk[j]) \in Job /\ Load(disk[j]).good
         /\ disk[j].whole \subseteq Load(disk[j]).completed
         /\ Load(disk[j]).completed \ reported[j] \subseteq Readings(j)
         /\ tears = 0 => Load(disk[j]).completed = disk[j].whole
<1>1. disk[j] \in File
  BY DEF LogInv, LogTypes
<1>2. Load(disk[j]) = [completed |-> disk[j].whole \cup (disk[j].tail \ {Junk}), good |-> TRUE]
  BY DEF Load
<1>3. disk[j].whole \subseteq Entries /\ disk[j].tail \ {Junk} \subseteq Entries
  BY <1>1 DEF File, NoTail
<1>4. disk[j].whole \ reported[j] \subseteq Readings(j) /\ disk[j].tail \ {Junk} \subseteq Readings(j)
  BY DEF LogInv, LinesReadLikeReported, TailsReadLikeReported
<1>5. tears = 0 => disk[j].tail = {}
  BY DEF LogInv, WholeWithoutTears, NoTail
<1> QED
  BY <1>2, <1>3, <1>4, <1>5 DEF Job

(* Registering a job keeps the jobs that are in the map.                   *)
LEMMA RegisterFacts ==
  ASSUME NEW j, NEW job, Register(j, job)
  PROVE  /\ DOMAIN jobs' = DOMAIN jobs \cup {j}
         /\ \A k \in DOMAIN jobs : jobs'[k] = jobs[k]
         /\ j \notin DOMAIN jobs => jobs'[j] = job
BY DEF Register, With

(* A new job has an empty log and nothing completed.                       *)
LEMMA StartKeepsLog ==
  ASSUME LogInv, NEW p \in Peers, NEW r \in Roots, Start(p, r)
  PROVE  LogInv'
<1>1. PICK j \in JobIds \ DOMAIN disk :
        /\ disk' = With(disk, j, [root |-> r, whole |-> {}, tail |-> NoTail])
        /\ Register(j, [completed |-> {}, good |-> TRUE])
  BY DEF Start
<1>2. UNCHANGED <<reported, tears>>
  BY DEF Start
<1>3. /\ DOMAIN disk' = DOMAIN disk \cup {j}
      /\ \A k \in DOMAIN disk : disk'[k] = disk[k]
      /\ disk'[j] = [root |-> r, whole |-> {}, tail |-> NoTail]
  BY <1>1 DEF With
<1>4. /\ DOMAIN jobs' = DOMAIN jobs \cup {j}
      /\ \A k \in DOMAIN jobs : jobs'[k] = jobs[k]
      /\ jobs'[j] = [completed |-> {}, good |-> TRUE]
  BY <1>1, RegisterFacts DEF LogInv, LogTypes
<1>5. jobs'[j] \in Job /\ disk'[j] \in File
  BY <1>3, <1>4 DEF Job, File
<1>6. LogTypes'
  BY <1>2, <1>3, <1>4, <1>5 DEF LogInv, LogTypes
<1>7. \A k : Readings(k)' = Readings(k)
  BY <1>2 DEF Readings
<1>8. LinesReadLikeReported' /\ TailsReadLikeReported'
  BY <1>2, <1>3, <1>7 DEF LogInv, LinesReadLikeReported, TailsReadLikeReported, NoTail
<1>9. CompletedReadsLikeReported' /\ MemoryMatchesLog' /\ WholeWithoutTears'
  <2>1. \A k \in DOMAIN jobs : k \in DOMAIN disk /\ k # j
    BY DEF LogInv, LogTypes
  <2>2. jobs'[j].completed = {} /\ jobs'[j].good /\ disk'[j].whole = {} /\ disk'[j].tail = NoTail
    BY <1>3, <1>4
  <2>3. CompletedReadsLikeReported'
    BY <1>2, <1>4, <1>7, <2>1, <2>2 DEF LogInv, CompletedReadsLikeReported
  <2>4. MemoryMatchesLog'
    <3> SUFFICES ASSUME NEW k \in DOMAIN jobs'
                 PROVE  /\ disk'[k].whole \ jobs'[k].completed \subseteq Readings(k)
                        /\ tears = 0 => disk'[k].whole = jobs'[k].completed
      BY <1>2, <1>7 DEF MemoryMatchesLog
    <3>1. CASE k = j
      BY <2>2, <3>1
    <3>2. CASE k # j
      BY <1>3, <1>4, <2>1, <3>2 DEF LogInv, MemoryMatchesLog
    <3> QED
      BY <3>1, <3>2
  <2>5. WholeWithoutTears'
    BY <1>2, <1>3, <1>4, <2>1, <2>2 DEF LogInv, WholeWithoutTears
  <2> QED
    BY <2>3, <2>4, <2>5
<1> QED
  BY <1>6, <1>8, <1>9 DEF LogInv

(* Continuing a job loads it, unless it is in the map.                     *)
LEMMA ContinueKeepsLog ==
  ASSUME LogInv, NEW p \in Peers, NEW j \in JobIds, Continue(p, j)
  PROVE  LogInv'
<1>1. j \in DOMAIN disk /\ Register(j, Load(disk[j])) /\ UNCHANGED <<disk, reported, tears>>
  BY DEF Continue
<1>2. /\ DOMAIN jobs' = DOMAIN jobs \cup {j}
      /\ \A k \in DOMAIN jobs : jobs'[k] = jobs[k]
      /\ j \notin DOMAIN jobs => jobs'[j] = Load(disk[j])
  BY <1>1, RegisterFacts
<1>3. \A k : Readings(k)' = Readings(k)
  BY <1>1 DEF Readings
<1>4. LogTypes'
  BY <1>1, <1>2, LoadFacts DEF LogInv, LogTypes
<1>5. LinesReadLikeReported' /\ TailsReadLikeReported'
  BY <1>1, <1>3 DEF LogInv, LinesReadLikeReported, TailsReadLikeReported
<1>6. CompletedReadsLikeReported' /\ MemoryMatchesLog' /\ WholeWithoutTears'
  <2> SUFFICES ASSUME NEW k \in DOMAIN jobs'
               PROVE  /\ jobs'[k].completed \ reported'[k] \subseteq Readings(k)'
                      /\ disk'[k].whole \ jobs'[k].completed \subseteq Readings(k)'
                      /\ tears' = 0 => disk'[k].whole = jobs'[k].completed
                      /\ tears' = 0 => jobs'[k].good
    BY <1>1 DEF CompletedReadsLikeReported, MemoryMatchesLog, WholeWithoutTears, LogInv
  <2>1. CASE k \in DOMAIN jobs
    BY <1>1, <1>2, <1>3, <2>1 DEF LogInv, CompletedReadsLikeReported, MemoryMatchesLog,
       WholeWithoutTears
  <2>2. CASE k \notin DOMAIN jobs
    BY <1>1, <1>2, <1>3, <2>2, LoadFacts
  <2> QED
    BY <2>1, <2>2
<1> QED
  BY <1>4, <1>5, <1>6 DEF LogInv

(* What is reported only grows, and with it what torn lines may read like. *)
LEMMA ReadingsGrow ==
  ASSUME LogInv, NEW j \in JobIds, NEW e \in Entries,
         reported' = [reported EXCEPT ![j] = @ \cup {e}],
         tears' \in {tears, tears + 1}
  PROVE  /\ \A k \in JobIds : reported[k] \subseteq reported'[k]
         /\ \A k \in JobIds : Readings(k) \subseteq Readings(k)'
         /\ e \in reported'[j]
         /\ reported' \in [JobIds -> SUBSET Entries]
<1>1. /\ \A k \in JobIds : reported[k] \subseteq reported'[k]
      /\ e \in reported'[j]
      /\ reported' \in [JobIds -> SUBSET Entries]
  BY DEF LogInv, LogTypes
<1>2. tears' = 0 => tears = 0
  BY DEF LogInv, LogTypes
<1>3. tears = 0 => \A k : Readings(k) = {}
  BY DEF Readings
<1>4. tears # 0 => \A k \in JobIds : Readings(k) \subseteq Readings(k)'
  BY <1>1, <1>2 DEF Readings
<1> QED
  BY <1>1, <1>3, <1>4

(* Whatever becomes of a line, what the log gains reads like the entry, or *)
(* like something that its line may be read as.                            *)
LEMMA LineFacts ==
  ASSUME LogInv, PlainNames, NEW j \in DOMAIN disk, NEW e \in Entries,
         NEW file,
         file \in {disk[j]} \cup WithLine(disk[j], e) \cup WithTornLine(disk[j], e)
  PROVE  /\ file \in File
         /\ file.whole \subseteq disk[j].whole \cup {e} \cup Merged[e]
         /\ file.tail \ {Junk} \subseteq disk[j].tail \cup Prefixes[e] \cup Merged[e]
         /\ disk[j].tail = NoTail => file.whole \subseteq disk[j].whole \cup {e}
         /\ file \in WithLine(disk[j], e) /\ disk[j].tail = NoTail =>
              file.whole = disk[j].whole \cup {e} /\ file.tail = NoTail
<1>1. disk[j] \in File
  BY DEF LogInv, LogTypes
<1>2. /\ ReadBack[e] = e /\ e # Junk
      /\ Prefixes[e] \subseteq Entries \cup {Junk} /\ Merged[e] \subseteq Entries \cup {Junk}
  BY LogAssumption DEF PlainNames
<1>3. disk[j].whole \subseteq Entries
  BY <1>1 DEF File
<1>4. file \in WithLine(disk[j], e) /\ disk[j].tail = NoTail =>
        file \in File /\ file.whole = disk[j].whole \cup {e} /\ file.tail = NoTail
  BY <1>1, <1>2, <1>3 DEF WithLine, File
<1>5. CASE file = disk[j]
  BY <1>1, <1>4, <1>5
<1>6. CASE file \in WithLine(disk[j], e) /\ disk[j].tail # NoTail
  <2>1. PICK t \in Merged[e] :
          file = [disk[j] EXCEPT !.tail = NoTail, !.whole = @ \cup ({t} \ {Junk})]
    BY <1>6 DEF WithLine
  <2>2. file.tail = {} /\ file.whole = disk[j].whole \cup ({t} \ {Junk}) /\ t \in Entries \cup {Junk}
    BY <1>1, <1>2, <2>1 DEF File, NoTail
  <2>3. file \in File
    BY <1>1, <1>3, <2>1, <2>2 DEF File
  <2> QED
    BY <1>6, <2>2, <2>3
<1>7. CASE file \in WithLine(disk[j], e) /\ disk[j].tail = NoTail
  BY <1>4, <1>7 DEF NoTail
<1>8. CASE file \in WithTornLine(disk[j], e)
  <2>1. PICK t \in Prefixes[e] \cup Merged[e] :
          file = [disk[j] EXCEPT !.tail = {t}] /\ t \in Entries \cup {Junk}
    BY <1>2, <1>8 DEF WithTornLine
  <2>2. file.whole = disk[j].whole /\ file.tail = {t}
    BY <1>1, <2>1 DEF File
  <2>3. file \in File
    BY <1>1, <2>1 DEF File
  <2> QED
    BY <1>4, <2>1, <2>2, <2>3
<1> QED
  BY <1>5, <1>6, <1>7, <1>8

(* A completed entry is reported by the same message; a failed write may   *)
(* leave a part of its line.                                               *)
LEMMA SuccessKeepsLog ==
  ASSUME LogInv, PlainNames, ManagerTypes, NEW p \in Peers, NEW m \in Created, NEW e \in Entries,
         SuccessRequest(p, m, e)
  PROVE  LogInv'
<1>1. PICK j \in JobIds : j = manager[m].job
  BY ThreadFacts
<1>2. reported' = [reported EXCEPT ![j] = @ \cup {e}]
  BY <1>1 DEF SuccessRequest
<1>3. CASE j \notin DOMAIN jobs /\ UNCHANGED <<jobs, disk, tears>>
  <2>1. /\ \A k \in JobIds : reported[k] \subseteq reported'[k] /\ Readings(k) \subseteq Readings(k)'
        /\ reported' \in [JobIds -> SUBSET Entries]
    BY <1>1, <1>2, <1>3, ReadingsGrow
  <2> QED
    BY <1>3, <2>1 DEF LogInv, LogTypes, LinesReadLikeReported, TailsReadLikeReported,
       CompletedReadsLikeReported, MemoryMatchesLog, WholeWithoutTears
<1>4. CASE j \in DOMAIN jobs /\ MarkCompleted(j, e)
  <2>1. /\ j \in DOMAIN jobs /\ j \in DOMAIN disk /\ jobs[j] \in Job
        /\ tears \in 0..MaxTears /\ MaxTears \in Nat
        /\ tears = 0 => jobs[j].good /\ disk[j].tail = NoTail
    BY <1>4, BoundAssumption DEF LogInv, LogTypes, WholeWithoutTears
  <2>2. PICK good \in BOOLEAN :
          /\ jobs'[j] = [completed |-> jobs[j].completed \cup {e}, good |-> good]
          /\ tears' = 0 => good
    <3>1. [jobs[j] EXCEPT !.completed = @ \cup {e}] =
            [completed |-> jobs[j].completed \cup {e}, good |-> jobs[j].good]
      BY <2>1 DEF Job
    <3>2. \/ jobs'[j] = [completed |-> jobs[j].completed \cup {e}, good |-> jobs[j].good]
          \/ /\ jobs'[j] = [completed |-> jobs[j].completed \cup {e}, good |-> FALSE]
             /\ tears' = tears + 1
      BY <1>4, <2>1, <3>1 DEF MarkCompleted
    <3>3. tears' = 0 => tears = 0
      BY <1>4, <2>1 DEF MarkCompleted
    <3>4. jobs[j].good \in BOOLEAN
      BY <2>1 DEF Job
    <3>5. CASE jobs'[j] = [completed |-> jobs[j].completed \cup {e}, good |-> jobs[j].good]
      BY <2>1, <3>3, <3>4, <3>5
    <3>6. CASE /\ jobs'[j] = [completed |-> jobs[j].completed \cup {e}, good |-> FALSE]
               /\ tears' = tears + 1
      <4>1. tears' # 0
        BY <2>1, <3>6
      <4>2. FALSE \in BOOLEAN
        OBVIOUS
      <4> QED
        BY <3>6, <4>1, <4>2, Zenon
    <3> QED
      BY <3>2, <3>5, <3>6
  <2>3. /\ DOMAIN jobs' = DOMAIN jobs
        /\ \A k \in DOMAIN jobs \ {j} : jobs'[k] = jobs[k]
        /\ tears' \in {tears, tears + 1} /\ tears' \in 0..MaxTears
    BY <1>4, <2>1 DEF MarkCompleted
  <2>4. PICK file \in {disk[j]} \cup WithLine(disk[j], e) \cup WithTornLine(disk[j], e) :
          /\ DOMAIN disk' = DOMAIN disk
          /\ \A k \in DOMAIN disk \ {j} : disk'[k] = disk[k]
          /\ disk'[j] = file
          /\ tears' = 0 => file \in WithLine(disk[j], e)
    BY <1>4, <2>1 DEF MarkCompleted
  <2>5. /\ file \in File
        /\ file.whole \subseteq disk[j].whole \cup {e} \cup Merged[e]
        /\ file.tail \ {Junk} \subseteq disk[j].tail \cup Prefixes[e] \cup Merged[e]
        /\ disk[j].tail = NoTail => file.whole \subseteq disk[j].whole \cup {e}
        /\ file \in WithLine(disk[j], e) /\ disk[j].tail = NoTail =>
             file.whole = disk[j].whole \cup {e} /\ file.tail = NoTail
    BY <2>1, <2>4, LineFacts
  <2>6. /\ \A k \in JobIds : reported[k] \subseteq reported'[k] /\ Readings(k) \subseteq Readings(k)'
        /\ e \in reported'[j]
        /\ reported' \in [JobIds -> SUBSET Entries]
    BY <1>2, <2>3, ReadingsGrow
  <2>7. tears' = 0 => tears = 0
    BY <2>1, <2>3
  <2>8. LogTypes'
    BY <2>1, <2>2, <2>3, <2>4, <2>5, <2>6 DEF LogInv, LogTypes, Job
  <2>14. /\ tears' = 0 => disk[j].tail = NoTail /\ file.whole = disk[j].whole \cup {e}
         /\ tears' # 0 => Prefixes[e] \cup Merged[e] \subseteq Readings(j)'
    BY <2>1, <2>4, <2>5, <2>6, <2>7 DEF Readings
  <2>9. LinesReadLikeReported'
    <3>1. file.whole \ reported'[j] \subseteq Readings(j)'
      <4>1. disk[j].whole \ reported[j] \subseteq Readings(j)
        BY <2>1 DEF LogInv, LinesReadLikeReported
      <4>2. disk[j].whole \ reported'[j] \subseteq Readings(j)'
        BY <4>1, <2>6
      <4> QED
        BY <2>5, <2>6, <2>14, <4>2
    <3> QED
      BY <2>4, <2>6, <3>1 DEF LogInv, LogTypes, LinesReadLikeReported
  <2>10. TailsReadLikeReported'
    <3>1. file.tail \ {Junk} \subseteq Readings(j)'
      <4>1. CASE tears' = 0
        BY <2>1, <2>4, <2>5, <2>7, <4>1 DEF NoTail
      <4>2. CASE tears' # 0
        <5>1. Prefixes[e] \cup Merged[e] \subseteq Readings(j)'
          BY <2>14, <4>2
        <5>2. disk[j].tail \ {Junk} \subseteq Readings(j)'
          BY <2>1, <2>6 DEF LogInv, TailsReadLikeReported
        <5> QED
          BY <2>5, <5>1, <5>2
      <4> QED
        BY <4>1, <4>2
    <3> QED
      BY <2>4, <2>6, <3>1 DEF LogInv, LogTypes, TailsReadLikeReported
  <2>11. CompletedReadsLikeReported'
    BY <2>2, <2>3, <2>6 DEF LogInv, LogTypes, CompletedReadsLikeReported
  <2>12. MemoryMatchesLog'
    <3> SUFFICES ASSUME NEW k \in DOMAIN jobs
                 PROVE  /\ disk'[k].whole \ jobs'[k].completed \subseteq Readings(k)'
                        /\ tears' = 0 => disk'[k].whole = jobs'[k].completed
      BY <2>3 DEF MemoryMatchesLog
    <3>1. /\ k \in DOMAIN disk /\ disk[k].whole \ jobs[k].completed \subseteq Readings(k)
          /\ tears = 0 => disk[k].whole = jobs[k].completed
          /\ Readings(k) \subseteq Readings(k)'
      BY <2>6 DEF LogInv, LogTypes, MemoryMatchesLog
    <3>2. CASE k # j
      BY <2>3, <2>4, <2>7, <3>1, <3>2
    <3>3. CASE k = j
      <4>1. jobs'[k].completed = jobs[k].completed \cup {e}
        BY <2>2, <3>3
      <4> QED
        BY <2>1, <2>4, <2>5, <2>7, <2>14, <3>1, <3>3, <4>1
    <3> QED
      BY <3>2, <3>3
  <2>13. WholeWithoutTears'
    BY <2>1, <2>2, <2>3, <2>4, <2>5, <2>7 DEF LogInv, WholeWithoutTears
  <2> QED
    BY <2>8, <2>9, <2>10, <2>11, <2>12, <2>13 DEF LogInv
<1> QED
  BY <1>1, <1>3, <1>4 DEF SuccessRequest

(* The end of the process forgets the map; nothing else touches the logs.  *)
LEMMA OthersKeepLog ==
  ASSUME LogInv,
         \/ Exit
         \/ UNCHANGED <<jobs, disk, reported, tears>>
  PROVE  LogInv'
<1>1. CASE Exit
  <2>1. jobs' = << >> /\ UNCHANGED <<disk, reported, tears>>
    BY <1>1 DEF Exit
  <2>2. DOMAIN jobs' = {}
    BY <2>1
  <2> QED
    BY <2>1, <2>2 DEF LogInv, LogTypes, LinesReadLikeReported, TailsReadLikeReported, Readings,
       CompletedReadsLikeReported, MemoryMatchesLog, WholeWithoutTears
<1>2. CASE UNCHANGED <<jobs, disk, reported, tears>>
  BY <1>2 DEF LogInv, LogTypes, LinesReadLikeReported, TailsReadLikeReported, Readings,
     CompletedReadsLikeReported, MemoryMatchesLog, WholeWithoutTears
<1> QED
  BY <1>1, <1>2

(* Every step keeps what logs and map hold.                                *)
LEMMA NextKeepsLog ==
  ASSUME LogInv, ManagerTypes, PlainNames, [Next]_vars
  PROVE  LogInv'
<1>1. ASSUME NEW p \in Peers, NEW r \in Roots, Start(p, r) PROVE LogInv'
  BY <1>1, StartKeepsLog
<1>2. ASSUME NEW p \in Peers, NEW j \in JobIds, Continue(p, j) PROVE LogInv'
  BY <1>2, ContinueKeepsLog
<1>3. ASSUME NEW p \in Peers, NEW m \in Created, NEW e \in Entries, SuccessRequest(p, m, e)
      PROVE  LogInv'
  BY <1>3, SuccessKeepsLog
<1>4. ASSUME NEW p \in Peers, NEW m \in Created, NEW e \in Entries, FileRequest(p, m, e)
      PROVE  LogInv'
  BY <1>4, OthersKeepLog DEF FileRequest
<1>5. ASSUME NEW m \in Created, ManagerStep(m) \/ Hangup(m) PROVE LogInv'
  BY <1>5, OthersKeepLog DEF ManagerStep, Begin, Visit, Finish, Hangup
<1>6. CASE Exit
  BY <1>6, OthersKeepLog
<1>7. CASE Restart \/ UNCHANGED vars
  BY <1>7, OthersKeepLog DEF Restart, vars
<1> QED
  BY <1>1, <1>2, <1>3, <1>4, <1>5, <1>6, <1>7 DEF Next, Request

-------------------------------------------------------------------------------
(* There are no managers at first.                                         *)
LEMMA InitManagers == Init => ManagerInv
<1> SUFFICES ASSUME Init PROVE ManagerInv
  OBVIOUS
<1>1. manager = << >> /\ Created = {} /\ ready = {}
  BY DEF Init, Created
<1>2. manager \in Seq(Thread) /\ Len(manager) = 0
  BY <1>1
<1>3. ManagerTypes
  BY <1>1, <1>2, BoundAssumption DEF Init, ManagerTypes
<1> QED
  BY <1>1, <1>3 DEF ManagerInv, JobsInUseAreThere, SoundSkipsWereReported

(* What may be skipped only grows.                                         *)
Allowed(j) == reported[j] \cup Readings(j)

LEMMA AllowedGrows ==
  ASSUME LogInv, ManagerTypes, [Next]_vars
  PROVE  \A j \in JobIds : Allowed(j) \subseteq Allowed(j)'
<1>1. CASE UNCHANGED <<reported, tears>>
  BY <1>1 DEF Allowed, Readings
<1>2. ASSUME NEW p \in Peers, NEW m \in Created, NEW e \in Entries, SuccessRequest(p, m, e)
      PROVE  \A j \in JobIds : Allowed(j) \subseteq Allowed(j)'
  <2>1. PICK j \in JobIds : j = manager[m].job
    BY ThreadFacts
  <2>2. /\ reported' = [reported EXCEPT ![j] = @ \cup {e}]
        /\ tears' \in {tears, tears + 1}
    BY <1>2, <2>1 DEF SuccessRequest, MarkCompleted
  <2>3. \A k \in JobIds : reported[k] \subseteq reported'[k] /\ Readings(k) \subseteq Readings(k)'
    BY <2>2, ReadingsGrow
  <2> QED
    BY <2>3 DEF Allowed
<1> QED
  BY <1>1, <1>2 DEF Next, Request, Start, Continue, FileRequest, ManagerStep, Begin, Visit,
     Finish, Hangup, Exit, Restart, vars

(* The property says that sound skips are allowed ones.                    *)
LEMMA SkipsAreAllowed ==
  SoundSkipsWereReported <=>
    \A m \in Created : manager[m].sound => manager[m].skipped \subseteq Allowed(manager[m].job)
BY DEF SoundSkipsWereReported, Allowed, Readings

(* Steps in which the managers go on, or end, keep the invariant if an     *)
(* entry that is left out by a sound reference is an allowed one and an id *)
(* that is put is that of an entry visited in the step.                    *)
LEMMA ManagersGoOn ==
  ASSUME LogInv, ManagerInv, [Next]_vars, ManagerTypes', Created' = Created,
         \A m \in Created :
           /\ manager'[m].job = manager[m].job /\ manager'[m].peer = manager[m].peer
           /\ manager'[m].phase # "done" => manager[m].phase # "done" /\ DOMAIN jobs' = DOMAIN jobs
           /\ manager'[m].sound =>
                /\ manager[m].sound
                /\ manager'[m].skipped \subseteq manager[m].skipped \cup Allowed(manager[m].job)
  PROVE  ManagerInv'
<1>1. JobsInUseAreThere'
  BY DEF ManagerInv, JobsInUseAreThere
<1>5. ASSUME NEW m \in Created, NEW j \in JobIds, j = manager[m].job, manager'[m].sound
      PROVE  manager'[m].skipped \subseteq Allowed(j)'
  <2>1. manager[m].skipped \subseteq Allowed(j)
    BY <1>5, SkipsAreAllowed DEF ManagerInv
  <2>2. Allowed(j) \subseteq Allowed(j)'
    BY AllowedGrows DEF ManagerInv
  <2>3. manager'[m].skipped \subseteq manager[m].skipped \cup Allowed(j)
    BY <1>5
  <2> QED
    BY <2>1, <2>2, <2>3
<1>6. SoundSkipsWereReported'
  <2>1. \A m \in Created : manager[m].job \in JobIds
    BY ThreadFacts DEF ManagerInv
  <2> QED
    BY <1>5, <2>1 DEF SoundSkipsWereReported, Allowed, Readings
<1> QED
  BY <1>1, <1>6 DEF ManagerInv

(* A new manager has visited nothing, and its job is in the map.           *)
LEMMA SpawnKeepsManagers ==
  ASSUME LogInv, ManagerInv, NEW p \in Peers, NEW j \in JobIds, NEW r \in Roots, NEW job,
         Register(j, job), Spawn(p, j, r),
         UNCHANGED <<up, ready, reported, tears, exits>>
  PROVE  ManagerInv'
<1> DEFINE n == Len(manager) + 1
           new == [phase |-> "starting", peer |-> p, job |-> j, root |-> r, moves |-> moves',
                   alive |-> TRUE, sound |-> TRUE, left |-> Entries, told |-> {}, skipped |-> {}]
<1>1. moves' \in Nat
  BY DEF Register, ManagerInv, ManagerTypes
<1>2. new \in Thread
  BY <1>1 DEF Thread
<1>3. /\ manager \in Seq(Thread) /\ Len(manager) < MaxManagers /\ manager' = Append(manager, new)
      /\ MaxManagers \in Nat
  BY BoundAssumption DEF ManagerInv, ManagerTypes, Spawn
<1> HIDE DEF new
<1>4. /\ manager' \in Seq(Thread) /\ Len(manager') <= MaxManagers
      /\ Created' = Created \cup {n} /\ n \notin Created
      /\ \A m \in Created : manager'[m] = manager[m]
      /\ manager'[n] = new
  BY <1>2, <1>3 DEF Created
<1> HIDE DEF n
<1>5. ManagerTypes'
  BY <1>1, <1>4 DEF ManagerInv, ManagerTypes
<1>6. DOMAIN jobs \subseteq DOMAIN jobs' /\ j \in DOMAIN jobs'
  BY RegisterFacts
<1>7. new.job = j /\ new.skipped = {}
  BY DEF new
<1>8. JobsInUseAreThere'
  BY <1>4, <1>6, <1>7 DEF ManagerInv, JobsInUseAreThere
<1>11. SoundSkipsWereReported'
  <2> SUFFICES ASSUME NEW m \in Created', manager'[m].sound
               PROVE  manager'[m].skipped \ reported[manager'[m].job] \subseteq
                        Readings(manager'[m].job)
    BY DEF SoundSkipsWereReported, Readings
  <2>1. CASE m \in Created
    BY <1>4, <2>1 DEF ManagerInv, SoundSkipsWereReported
  <2>2. CASE m = n
    BY <1>4, <1>7, <2>2
  <2> QED
    BY <1>4, <2>1, <2>2
<1> QED
  BY <1>5, <1>8, <1>11 DEF ManagerInv

(* The fields that a manager's step may change keep their types.           *)
LEMMA UpdateFacts ==
  ASSUME ManagerTypes, NEW m \in Created, NEW t \in Thread, manager' = [manager EXCEPT ![m] = t]
  PROVE  /\ manager' \in Seq(Thread) /\ Len(manager') = Len(manager) /\ Created' = Created
         /\ manager'[m] = t
         /\ \A n \in Created : n # m => manager'[n] = manager[n]
BY DEF ManagerTypes, Created

(* Visiting an entry, skipped or announced.                                *)
LEMMA VisitKeepsManagers ==
  ASSUME LogInv, ManagerInv, [Next]_vars, NEW m \in Created, NEW e \in Entries, Visit(m, e)
  PROVE  ManagerInv'
<1>1. manager[m] \in Thread /\ manager[m].job \in DOMAIN jobs
  BY ThreadFacts DEF Visit, ManagerInv, JobsInUseAreThere
<1>2. UNCHANGED <<up, moves, jobs, disk, reported, tears, exits>>
  BY DEF Visit
<1>3. PICK t \in Thread :
        /\ manager' = [manager EXCEPT ![m] = t]
        /\ t.job = manager[m].job /\ t.peer = manager[m].peer /\ t.phase = manager[m].phase
        /\ t.left = manager[m].left \ {e}
        /\ t.sound => manager[m].sound
                      /\ t.skipped \subseteq manager[m].skipped \cup Allowed(manager[m].job)
        /\ ready' \in {ready, ready \cup {<<m, e>>}}
  <2>1. CASE (Valid(m) => e \in jobs[manager[m].job].completed) /\ Skip(m, e)
    <3> DEFINE t == [manager[m] EXCEPT !.left = @ \ {e}, !.skipped = @ \cup {e},
                                       !.sound = @ /\ Valid(m)]
    <3>1. /\ t \in Thread
          /\ t.job = manager[m].job /\ t.peer = manager[m].peer /\ t.phase = manager[m].phase
          /\ t.left = manager[m].left \ {e} /\ t.skipped = manager[m].skipped \cup {e}
          /\ t.sound => manager[m].sound /\ Valid(m)
      BY <1>1 DEF Thread, Valid
    <3>2. manager' = [manager EXCEPT ![m] = t] /\ ready' = ready
      BY <2>1 DEF Skip
    <3>3. Valid(m) => e \in Allowed(manager[m].job)
      BY <1>1, <2>1 DEF LogInv, CompletedReadsLikeReported, Allowed
    <3> QED
      BY <3>1, <3>2, <3>3
  <2>2. CASE (Valid(m) => e \notin jobs[manager[m].job].completed) /\ Announce(m, e)
    <3> DEFINE t == [manager[m] EXCEPT !.left = @ \ {e},
                                       !.told = IF manager[m].alive THEN @ \cup {e} ELSE @,
                                       !.sound = @ /\ Valid(m)]
    <3>1. /\ t \in Thread
          /\ t.job = manager[m].job /\ t.peer = manager[m].peer /\ t.phase = manager[m].phase
          /\ t.left = manager[m].left \ {e} /\ t.skipped = manager[m].skipped
          /\ t.sound => manager[m].sound
      BY <1>1 DEF Thread, Valid
    <3>2. manager' = [manager EXCEPT ![m] = t] /\ ready' = ready \cup {<<m, e>>}
      BY <2>2 DEF Announce
    <3> QED
      BY <3>1, <3>2
  <2> QED
    BY <2>1, <2>2 DEF Visit
<1>5. /\ manager' \in Seq(Thread) /\ Len(manager') = Len(manager) /\ Created' = Created
      /\ manager'[m] = t
      /\ \A n \in Created : n # m => manager'[n] = manager[n]
  BY <1>3, UpdateFacts DEF ManagerInv
<1>6. ManagerTypes'
  BY <1>2, <1>3, <1>5 DEF ManagerInv, ManagerTypes
<1>8. \A n \in Created :
        /\ manager'[n].job = manager[n].job /\ manager'[n].peer = manager[n].peer
        /\ manager'[n].phase # "done" => manager[n].phase # "done"
        /\ manager'[n].sound =>
             /\ manager[n].sound
             /\ manager'[n].skipped \subseteq manager[n].skipped \cup Allowed(manager[n].job)
  BY <1>3, <1>5
<1> QED
  BY <1>2, <1>5, <1>6, <1>8, ManagersGoOn

(* The beginning and the end of a manager, and the loss of its client.     *)
LEMMA PhasesKeepManagers ==
  ASSUME LogInv, ManagerInv, [Next]_vars, NEW m \in Created, Begin(m) \/ Finish(m) \/ Hangup(m)
  PROVE  ManagerInv'
<1>1. manager[m] \in Thread
  BY ThreadFacts DEF ManagerInv
<1>2. UNCHANGED <<up, moves, jobs, disk, ready, reported, tears, exits>>
  BY DEF Begin, Finish, Hangup
<1>3. PICK t \in Thread :
        /\ manager' = [manager EXCEPT ![m] = t]
        /\ t.job = manager[m].job /\ t.peer = manager[m].peer /\ t.left = manager[m].left
        /\ t.phase # "done" => manager[m].phase # "done"
        /\ t.sound => manager[m].sound
        /\ t.skipped = manager[m].skipped
  <2>1. CASE Begin(m)
    <3>1. PICK servable \in BOOLEAN :
            manager' = [manager EXCEPT
              ![m].phase = IF servable /\ manager[m].alive THEN "crawl" ELSE "done",
              ![m].sound = @ /\ Valid(m)]
      BY <2>1 DEF Begin
    <3> DEFINE t == [manager[m] EXCEPT
                       !.phase = IF servable /\ manager[m].alive THEN "crawl" ELSE "done",
                       !.sound = @ /\ Valid(m)]
    <3>2. /\ t \in Thread
          /\ t.job = manager[m].job /\ t.peer = manager[m].peer /\ t.left = manager[m].left
          /\ t.sound => manager[m].sound
          /\ t.skipped = manager[m].skipped
      BY <1>1 DEF Thread, Valid
    <3>3. manager' = [manager EXCEPT ![m] = t] /\ manager[m].phase # "done"
      BY <2>1, <3>1 DEF Begin
    <3> QED
      BY <3>2, <3>3
  <2>2. CASE Finish(m)
    <3> DEFINE t == [manager[m] EXCEPT !.phase = "done"]
    <3>1. /\ t \in Thread
          /\ t.job = manager[m].job /\ t.peer = manager[m].peer /\ t.left = manager[m].left
          /\ t.phase = "done" /\ t.sound = manager[m].sound /\ t.skipped = manager[m].skipped
      BY <1>1 DEF Thread
    <3>2. manager' = [manager EXCEPT ![m] = t]
      BY <2>2 DEF Finish
    <3> QED
      BY <3>1, <3>2
  <2>3. CASE Hangup(m)
    <3> DEFINE t == [manager[m] EXCEPT !.alive = FALSE]
    <3>1. /\ t \in Thread
          /\ t.job = manager[m].job /\ t.peer = manager[m].peer /\ t.left = manager[m].left
          /\ t.phase = manager[m].phase /\ t.sound = manager[m].sound
          /\ t.skipped = manager[m].skipped
      BY <1>1 DEF Thread
    <3>2. manager' = [manager EXCEPT ![m] = t]
      BY <2>3 DEF Hangup
    <3> QED
      BY <3>1, <3>2
  <2> QED
    BY <2>1, <2>2, <2>3
<1>4. /\ manager' \in Seq(Thread) /\ Len(manager') = Len(manager) /\ Created' = Created
      /\ manager'[m] = t
      /\ \A n \in Created : n # m => manager'[n] = manager[n]
  BY <1>3, UpdateFacts DEF ManagerInv
<1>5. ManagerTypes'
  BY <1>2, <1>4 DEF ManagerInv, ManagerTypes
<1>6. \A n \in Created :
        /\ manager'[n].job = manager[n].job /\ manager'[n].peer = manager[n].peer
        /\ manager'[n].phase # "done" => manager[n].phase # "done"
        /\ manager'[n].sound =>
             /\ manager[n].sound
             /\ manager'[n].skipped \subseteq manager[n].skipped \cup Allowed(manager[n].job)
  BY <1>3, <1>4
<1> QED
  BY <1>2, <1>4, <1>5, <1>6, ManagersGoOn

(* The end of the process ends all managers; nothing is ready any more.    *)
LEMMA ExitKeepsManagers ==
  ASSUME LogInv, ManagerInv, [Next]_vars, Exit
  PROVE  ManagerInv'
<1> DEFINE Ended(m) == [manager[m] EXCEPT !.phase = "done", !.alive = FALSE, !.left = {}]
<1>1. ASSUME NEW m \in Created
      PROVE  /\ Ended(m) \in Thread
             /\ Ended(m).job = manager[m].job /\ Ended(m).peer = manager[m].peer
             /\ Ended(m).left = {} /\ Ended(m).phase = "done"
             /\ Ended(m).sound = manager[m].sound /\ Ended(m).skipped = manager[m].skipped
  <2>1. manager[m] \in Thread
    BY ThreadFacts DEF ManagerInv
  <2> QED
    BY <2>1 DEF Thread
<1>2. /\ up' = FALSE /\ moves' = 0 /\ ready' = {} /\ exits' = exits + 1 /\ exits < MaxExits
      /\ manager' = [m \in Created |-> Ended(m)]
      /\ UNCHANGED <<disk, reported, tears>>
  BY DEF Exit
<1> HIDE DEF Ended
<1>3. /\ manager' \in Seq(Thread) /\ Len(manager') = Len(manager) /\ Created' = Created
      /\ \A m \in Created : manager'[m] = Ended(m)
  <2>1. manager \in Seq(Thread) /\ Created = 1..Len(manager) /\ Len(manager) \in Nat
    BY DEF ManagerInv, ManagerTypes, Created
  <2> QED
    BY <1>1, <1>2, <2>1 DEF Created
<1>4. ManagerTypes'
  <2>1. exits' \in 0..MaxExits /\ up' \in BOOLEAN /\ moves' \in Nat
    <3>1. /\ up' = FALSE /\ moves' = 0 /\ exits' = exits + 1 /\ exits < MaxExits
          /\ exits \in 0..MaxExits /\ MaxExits \in Nat
      BY BoundAssumption DEF Exit, ManagerInv, ManagerTypes
    <3>2. up' \in BOOLEAN
      BY <3>1, Zenon
    <3>3. exits' \in 0..MaxExits /\ moves' \in Nat
      BY <3>1
    <3> QED
      BY <3>2, <3>3
  <2>2. Len(manager') <= MaxManagers
    BY <1>3 DEF ManagerInv, ManagerTypes
  <2>3. ready' \subseteq Created' \X Entries
    BY <1>2, <1>3 DEF ManagerInv, ManagerTypes
  <2> QED
    BY <1>3, <2>1, <2>2, <2>3 DEF ManagerTypes
<1> QED
  BY <1>1, <1>2, <1>3, <1>4, ManagersGoOn

(* A request for a file takes its id out of the ready ones.                *)
LEMMA FileKeepsManagers ==
  ASSUME LogInv, ManagerInv, NEW p \in Peers, NEW m \in Created, NEW e \in Entries,
         FileRequest(p, m, e)
  PROVE  ManagerInv'
<1>1. /\ ready' = ready \ {<<m, e>>}
      /\ UNCHANGED <<up, jobs, moves, disk, manager, reported, tears, exits>>
  BY DEF FileRequest
<1> QED
  BY <1>1 DEF ManagerInv, ManagerTypes, JobsInUseAreThere, SoundSkipsWereReported, Readings,
     Created

(* Every step keeps what the managers have done.                           *)
LEMMA NextKeepsManagers ==
  ASSUME LogInv, ManagerInv, [Next]_vars
  PROVE  ManagerInv'
<1>1. ASSUME NEW p \in Peers, NEW r \in Roots, Start(p, r) PROVE ManagerInv'
  <2>1. PICK j \in JobIds :
          Register(j, [completed |-> {}, good |-> TRUE]) /\ Spawn(p, j, r)
    BY <1>1 DEF Start
  <2>2. UNCHANGED <<up, ready, reported, tears, exits>>
    BY <1>1 DEF Start
  <2> QED
    BY <2>1, <2>2, SpawnKeepsManagers
<1>2. ASSUME NEW p \in Peers, NEW j \in JobIds, Continue(p, j) PROVE ManagerInv'
  <2>1. Register(j, Load(disk[j])) /\ Spawn(p, j, disk[j].root)
    BY <1>2 DEF Continue
  <2>2. UNCHANGED <<up, ready, reported, tears, exits>> /\ disk[j].root \in Roots
    BY <1>2 DEF Continue, LogInv, LogTypes, File
  <2> QED
    BY <2>1, <2>2, SpawnKeepsManagers
<1>3. ASSUME NEW p \in Peers, NEW m \in Created, NEW e \in Entries, SuccessRequest(p, m, e)
      PROVE  ManagerInv'
  <2>1. UNCHANGED <<up, moves, manager, ready, exits>> /\ DOMAIN jobs' = DOMAIN jobs
    BY <1>3 DEF SuccessRequest, MarkCompleted
  <2>2. ManagerTypes' /\ Created' = Created
    BY <2>1 DEF ManagerInv, ManagerTypes, Created
  <2> QED
    BY <2>1, <2>2, ManagersGoOn
<1>4. ASSUME NEW p \in Peers, NEW m \in Created, NEW e \in Entries, FileRequest(p, m, e)
      PROVE  ManagerInv'
  BY <1>4, FileKeepsManagers
<1>5. ASSUME NEW m \in Created, ManagerStep(m) \/ Hangup(m) PROVE ManagerInv'
  BY <1>5, VisitKeepsManagers, PhasesKeepManagers DEF ManagerStep
<1>6. CASE Exit
  BY <1>6, ExitKeepsManagers
<1>7. CASE Restart \/ UNCHANGED vars
  <2>1. UNCHANGED <<jobs, moves, disk, manager, ready, reported, tears, exits>>
        /\ up' \in BOOLEAN
    BY <1>7 DEF Restart, vars, ManagerInv, ManagerTypes
  <2>2. ManagerTypes' /\ Created' = Created
    BY <2>1 DEF ManagerInv, ManagerTypes, Created
  <2> QED
    BY <2>1, <2>2, ManagersGoOn
<1> QED
  BY <1>1, <1>2, <1>3, <1>4, <1>5, <1>6, <1>7 DEF Next, Request

-------------------------------------------------------------------------------
IInv == LogInv /\ ManagerInv

(* Both parts hold in every reachable state.                               *)
LEMMA Invariance == PlainNames => (Spec => []IInv)
<1> SUFFICES ASSUME PlainNames PROVE Spec => []IInv
  OBVIOUS
<1>1. Init => IInv
  BY InitLog, InitManagers DEF IInv
<1>2. IInv /\ [Next]_vars => IInv'
  BY NextKeepsLog, NextKeepsManagers DEF IInv, ManagerInv
<1> QED
  BY <1>1, <1>2, PTL DEF Spec

(* Types, for any number of jobs, clients, managers and faults.            *)
THEOREM TypeCorrect == PlainNames => (Spec => []TypeOK)
<1>1. IInv => TypeOK
  BY DEF IInv, LogInv, LogTypes, ManagerInv, ManagerTypes, TypeOK
<1> QED
  BY <1>1, Invariance, PTL

(* What a crawl with a sound reference leaves out has been reported for    *)
(* its job, or a torn line of something reported reads like it.            *)
THEOREM SkipsAreSound == PlainNames => (Spec => []SoundSkipsWereReported)
<1>1. IInv => SoundSkipsWereReported
  BY DEF IInv, ManagerInv
<1> QED
  BY <1>1, Invariance, PTL

(* The log of a job in the map is ahead of the memory only by lines that a *)
(* failed write has spoilt, and without failed writes the two agree.       *)
THEOREM MemoryAndLogAgree == PlainNames => (Spec => []MemoryMatchesLog)
<1>1. IInv => MemoryMatchesLog
  BY DEF IInv, LogInv
<1> QED
  BY <1>1, Invariance, PTL
===============================================================================
