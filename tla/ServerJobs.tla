------------------------------ MODULE ServerJobs ------------------------------
(***************************************************************************)
(* The server of src/netpull/server with several jobs and clients: the     *)
(* accept loop of main, the map of jobs whose values the manager threads   *)
(* hold references to, the log file of each job with lines that may be     *)
(* torn, and the ids of files that are ready.                              *)
(*                                                                         *)
(* An operator whose comment begins with "Faulty" is not part of the       *)
(* model: it is a plausible bug, kept to show that a property notices it.  *)
(*                                                                         *)
(* A client is what the accept loop can see of it: a connection from one   *)
(* of Peers with a request that the client could have by then.  Requests   *)
(* arrive in any order and as late as they like, since each one has a      *)
(* connection of its own; NetPull follows a client through one job.        *)
(***************************************************************************)
EXTENDS Integers, Sequences, FiniteSets

CONSTANTS Peers,       (* the addresses clients connect from               *)
          Allow, Deny, (* the addresses in allow_ip_ranges, deny_ip_ranges *)
          JobIds,      (* what SecureRandomId returns, never twice         *)
          Roots,       (* the paths clients ask for                        *)
          Servable,    (* those that are absolute and resolved             *)
          Entries,     (* what the crawler finds under a servable path     *)
          Junk,        (* a line that Load skips or that names no entry    *)
          ReadBack,    (* the entry named by the line written for an entry *)
          Prefixes,    (* what a torn line for an entry may name           *)
          Merged,      (* what a line for an entry, or a part of it, may   *)
                       (* name where it continues a torn line              *)
          GrowsAt,     (* the sizes at which an insertion moves the map    *)
          MaxManagers, (* bound on manager threads                         *)
          MaxTears,    (* bound on failed writes to a log                  *)
          MaxExits     (* bound on ends of the server process              *)

ASSUME PeerAssumption == Allow \subseteq Peers /\ Deny \subseteq Peers

ASSUME LogAssumption ==
  /\ Junk \notin Entries
  /\ ReadBack \in [Entries -> Entries \cup {Junk}]
  /\ Prefixes \in [Entries -> SUBSET (Entries \cup {Junk})]
  /\ Merged \in [Entries -> SUBSET (Entries \cup {Junk})]

ASSUME BoundAssumption ==
  /\ GrowsAt \subseteq Nat
  /\ MaxManagers \in Nat /\ MaxTears \in Nat /\ MaxExits \in Nat

VARIABLES
  up,        (* the server process runs                                    *)
  jobs,      (* the map "jobs": completed_paths and the state of the log
                stream of every job in it                                  *)
  moves,     (* how often the map has moved its values                     *)
  disk,      (* the log files: root, the entries of the whole lines, and
                what an unfinished last line reads as, if there is one     *)
  manager,   (* the manager threads, in the order of their creation        *)
  ready,     (* ready_files: an id is the manager and entry it was made for*)
  reported,  (* for each job the entries that a client reported as success *)
  tears, exits

vars == <<up, jobs, moves, disk, manager, ready, reported, tears, exits>>

(* The file ends with a newline.                                           *)
NoTail == {}

(* A map with one more key.                                               *)
With(f, k, v) == [i \in DOMAIN f \cup {k} |-> IF i = k THEN v ELSE f[i]]

Created == DOMAIN manager
Refused(p) == p \in Deny \/ p \notin Allow

(* std::ref(jobs[id]) still points to the job.                             *)
Valid(m) == manager[m].moves = moves

Init ==
  /\ up = TRUE
  /\ jobs = << >> /\ moves = 0 /\ disk = << >> /\ manager = << >>
  /\ ready = {}
  /\ reported = [j \in JobIds |-> {}]
  /\ tears = 0 /\ exits = 0

-------------------------------------------------------------------------------
(* The job of a log file.  getline returns an unfinished last line like    *)
(* any other.                                                              *)
Load(file) == [completed |-> file.whole \cup (file.tail \ {Junk}), good |-> TRUE]

(* The file after "Completed e" and its newline.  An unfinished last line  *)
(* is continued, and the two are read as one: "Completed a" and then       *)
(* "Completed b" name the entry "aCompleted b", if there is one.           *)
WithLine(file, e) ==
  IF file.tail = NoTail
  THEN {[file EXCEPT !.whole = @ \cup ({ReadBack[e]} \ {Junk})]}
  ELSE {[file EXCEPT !.tail = NoTail, !.whole = @ \cup ({t} \ {Junk})] : t \in Merged[e]}

(* The file after a part of that line.                                     *)
WithTornLine(file, e) ==
  {[file EXCEPT !.tail = {t}] : t \in IF file.tail = NoTail THEN Prefixes[e] ELSE Merged[e]}

(* jobs.emplace(id, std::move(job)): a job that is in the map stays, and   *)
(* the new object is dropped.                                              *)
Register(j, job) ==
  /\ jobs' = IF j \in DOMAIN jobs THEN jobs ELSE With(jobs, j, job)
  /\ moves' = IF j \notin DOMAIN jobs /\ Cardinality(DOMAIN jobs) \in GrowsAt
              THEN moves + 1 ELSE moves

(* A detached ClientManagerThread with std::ref(jobs[id]).                 *)
Spawn(p, j, r) ==
  /\ Len(manager) < MaxManagers
  /\ manager' = Append(manager,
       [phase |-> "starting", peer |-> p, job |-> j, root |-> r, moves |-> moves',
        alive |-> TRUE, sound |-> TRUE, left |-> Entries, told |-> {}, skipped |-> {}])

(* A request to start a pull.  A New that fails leaves an id that nobody   *)
(* has been told, so only its success is of interest.                      *)
Start(p, r) ==
  /\ up /\ ~Refused(p)
  /\ \E j \in JobIds \ DOMAIN disk :
       /\ disk' = With(disk, j, [root |-> r, whole |-> {}, tail |-> NoTail])
       /\ Register(j, [completed |-> {}, good |-> TRUE])
       /\ Spawn(p, j, r)
  /\ UNCHANGED <<up, ready, reported, tears, exits>>

(* A request to continue a job, from any client that has its id.           *)
Continue(p, j) ==
  /\ up /\ ~Refused(p)
  /\ j \in DOMAIN disk
  /\ Register(j, Load(disk[j]))
  /\ Spawn(p, j, disk[j].root)
  /\ UNCHANGED <<up, disk, ready, reported, tears, exits>>

(* A request for a file by the id that a manager announced: GetAndPopIf    *)
(* takes the entry out if the peer is the one it was announced to.  The    *)
(* client may by then connect from another address.                        *)
FileRequest(p, m, e) ==
  /\ up /\ ~Refused(p)
  /\ <<m, e>> \in ready /\ e \in manager[m].told
  /\ manager[m].peer = p
  /\ ready' = ready \ {<<m, e>>}
  /\ UNCHANGED <<up, jobs, moves, disk, manager, reported, tears, exits>>

(* Faulty MarkCompleted: what is in the set is not written again.          *)
MarkCompletedInMemory(j, e) ==
  /\ jobs' = [jobs EXCEPT ![j].completed = @ \cup {e}]
  /\ \E file \in IF \E k \in DOMAIN jobs : e \in jobs[k].completed THEN {disk[j]}
                 ELSE WithLine(disk[j], e) :
       disk' = [disk EXCEPT ![j] = file]
  /\ UNCHANGED tears

(* Job::MarkCompleted.  A failed write may leave a part of the line, and   *)
(* leaves the stream bad: nothing is written through it any more.          *)
MarkCompleted(j, e) ==
  \/ /\ jobs[j].good
     /\ jobs' = [jobs EXCEPT ![j].completed = @ \cup {e}]
     /\ \E file \in WithLine(disk[j], e) : disk' = [disk EXCEPT ![j] = file]
     /\ UNCHANGED tears
  \/ /\ jobs[j].good /\ tears < MaxTears
     /\ jobs' = [jobs EXCEPT ![j] = [completed |-> @.completed \cup {e}, good |-> FALSE]]
     /\ \E file \in {disk[j]} \cup WithTornLine(disk[j], e) : disk' = [disk EXCEPT ![j] = file]
     /\ tears' = tears + 1
  \/ /\ ~jobs[j].good
     /\ jobs' = [jobs EXCEPT ![j].completed = @ \cup {e}]
     /\ UNCHANGED <<disk, tears>>

(* The client has a good copy of an entry announced to it and says so.  A  *)
(* job that this process has not loaded is only logged as missing.         *)
SuccessRequest(p, m, e) ==
  LET j == manager[m].job
  IN /\ up /\ ~Refused(p)
     /\ e \in manager[m].told
     /\ reported' = [reported EXCEPT ![j] = @ \cup {e}]
     /\ \/ j \in DOMAIN jobs /\ MarkCompleted(j, e)
        \/ j \notin DOMAIN jobs /\ UNCHANGED <<jobs, disk, tears>>
     /\ UNCHANGED <<up, moves, manager, ready, exits>>

-------------------------------------------------------------------------------
Skip(m, e) ==
  /\ manager' = [manager EXCEPT ![m].left = @ \ {e}, ![m].skipped = @ \cup {e},
                                ![m].sound = @ /\ Valid(m)]
  /\ UNCHANGED ready

Announce(m, e) ==
  /\ manager' = [manager EXCEPT ![m].left = @ \ {e},
                                ![m].told = IF manager[m].alive THEN @ \cup {e} ELSE @,
                                ![m].sound = @ /\ Valid(m)]
  /\ ready' = ready \cup {<<m, e>>}

(* The beginning of ClientManagerThread: the path of the job is checked    *)
(* and Started is sent, or an error, or nothing on a lost connection.      *)
Begin(m) ==
  /\ up /\ manager[m].phase = "starting"
  /\ \E servable \in IF Valid(m) THEN {manager[m].root \in Servable} ELSE BOOLEAN :
       manager' = [manager EXCEPT
         ![m].phase = IF servable /\ manager[m].alive THEN "crawl" ELSE "done",
         ![m].sound = @ /\ Valid(m)]
  /\ UNCHANGED <<up, jobs, moves, disk, ready, reported, tears, exits>>

(* Faulty Visit: completed paths are looked up in every job.               *)
VisitAcrossJobs(m, e) ==
  /\ up /\ manager[m].phase = "crawl" /\ e \in manager[m].left
  /\ IF \E j \in DOMAIN jobs : e \in jobs[j].completed THEN Skip(m, e) ELSE Announce(m, e)
  /\ UNCHANGED <<up, jobs, moves, disk, reported, tears, exits>>

(* HandleObject.  IsCompleted through a reference that dangles may answer  *)
(* anything (or end the process, which is Exit).  A file that is not       *)
(* completed gets an id, and is announced if the client is still there.    *)
Visit(m, e) ==
  /\ up /\ manager[m].phase = "crawl" /\ e \in manager[m].left
  /\ \/ (Valid(m) => e \in jobs[manager[m].job].completed) /\ Skip(m, e)
     \/ (Valid(m) => e \notin jobs[manager[m].job].completed) /\ Announce(m, e)
  /\ UNCHANGED <<up, jobs, moves, disk, reported, tears, exits>>

(* The crawl is over; Finished is sent or lost.                            *)
Finish(m) ==
  /\ up /\ manager[m].phase = "crawl" /\ manager[m].left = {}
  /\ manager' = [manager EXCEPT ![m].phase = "done"]
  /\ UNCHANGED <<up, jobs, moves, disk, ready, reported, tears, exits>>

(* The client goes away; the manager goes on without it.                   *)
Hangup(m) ==
  /\ manager[m].alive /\ manager[m].phase # "done"
  /\ manager' = [manager EXCEPT ![m].alive = FALSE]
  /\ UNCHANGED <<up, jobs, moves, disk, ready, reported, tears, exits>>

(* The process ends: a crash, a request that cannot be read (return 1) or  *)
(* an Accept that fails (return 0).                                        *)
Exit ==
  /\ up /\ exits < MaxExits
  /\ up' = FALSE /\ exits' = exits + 1
  /\ jobs' = << >> /\ moves' = 0 /\ ready' = {}
  /\ manager' = [m \in Created |->
       [manager[m] EXCEPT !.phase = "done", !.alive = FALSE, !.left = {}]]
  /\ UNCHANGED <<disk, reported, tears>>

Restart ==
  /\ ~up
  /\ up' = TRUE
  /\ UNCHANGED <<jobs, moves, disk, manager, ready, reported, tears, exits>>

Request(p) ==
  \/ \E r \in Roots : Start(p, r)
  \/ \E j \in JobIds : Continue(p, j)
  \/ \E m \in Created, e \in Entries : FileRequest(p, m, e) \/ SuccessRequest(p, m, e)

ManagerStep(m) == Begin(m) \/ (\E e \in Entries : Visit(m, e)) \/ Finish(m)

Next ==
  \/ \E p \in Peers : Request(p)
  \/ \E m \in Created : ManagerStep(m) \/ Hangup(m)
  \/ Exit
  \/ Restart

Spec == Init /\ [][Next]_vars

-------------------------------------------------------------------------------
Job == [completed : SUBSET Entries, good : BOOLEAN]

File == [root : Roots, whole : SUBSET Entries,
         tail : {NoTail} \cup {{t} : t \in Entries \cup {Junk}}]

Thread == [phase : {"starting", "crawl", "done"}, peer : Peers, job : JobIds,
           root : Roots, moves : Nat, alive : BOOLEAN, sound : BOOLEAN,
           left : SUBSET Entries, told : SUBSET Entries, skipped : SUBSET Entries]

(* Every variable has its type, and every job in the map has its log.      *)
TypeOK ==
  /\ up \in BOOLEAN /\ moves \in Nat
  /\ DOMAIN jobs \subseteq DOMAIN disk /\ DOMAIN disk \subseteq JobIds
  /\ \A j \in DOMAIN jobs : jobs[j] \in Job
  /\ \A j \in DOMAIN disk : disk[j] \in File
  /\ manager \in Seq(Thread) /\ Len(manager) <= MaxManagers
  /\ ready \subseteq Created \X Entries
  /\ reported \in [JobIds -> SUBSET Entries]
  /\ tears \in 0..MaxTears /\ exits \in 0..MaxExits

(* What torn lines for reported entries, and lines that continue them, may *)
(* name.                                                                   *)
Readings(j) ==
  IF tears = 0 THEN {} ELSE UNION {Prefixes[e] \cup Merged[e] : e \in reported[j]}

(* Whatever order requests, crawls, hangups and restarts come in, and      *)
(* though several managers work on one job, an entry is left out of a      *)
(* crawl only if some client of the same job has reported it, or if a torn *)
(* line for one that was reported, or one that continues it, reads like    *)
(* it, as long as the manager's reference was good.                        *)
SoundSkipsWereReported ==
  \A m \in Created :
    manager[m].sound =>
      manager[m].skipped \ reported[manager[m].job] \subseteq Readings(manager[m].job)

(* For every job in the map the log is ahead of the memory only by lines   *)
(* that a failed write has spoilt: what a bad stream loses is what is sent *)
(* again after a restart, never what is skipped before it.  Without failed *)
(* writes the two agree, across restarts and second loads of a job that is *)
(* in the map already.                                                     *)
MemoryMatchesLog ==
  \A j \in DOMAIN jobs :
    /\ disk[j].whole \ jobs[j].completed \subseteq Readings(j)
    /\ tears = 0 => disk[j].whole = jobs[j].completed

(* netpull_server.cc:145, of IsCompleted: "Has this job already completed  *)
(* sending the given path?"  What a crawl leaves out has been completed.   *)
(* It does not hold: not through a reference that a growth of the map has  *)
(* left behind, not after a torn line, not for names with newlines.        *)
SkipsOnlyCompleted ==
  \A m \in Created : manager[m].skipped \subseteq reported[manager[m].job]
===============================================================================
