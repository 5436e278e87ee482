------------------------------- MODULE NetPull -------------------------------
(***************************************************************************)
(* One pull job of src/netpull, end to end and across sessions: the        *)
(* client's main loop and its tasks, the server's accept loop, manager     *)
(* thread and tasks, the connections between them, the job's log, and the  *)
(* crashes, interruptions and restarts after which the user resumes.       *)
(*                                                                         *)
(* An operator whose comment begins with "Faulty" is not part of the       *)
(* model: it is a plausible bug, kept to show that a property notices it.  *)
(*                                                                         *)
(* There is one job and at most one client process at a time; the user     *)
(* runs the client again with "@id" once an earlier run has shown the id,  *)
(* and with the path otherwise.  SHA-256 is taken as injective, so a       *)
(* digest is the content itself.  The queue discipline inside the two      *)
(* worker pools is the subject of WorkerPool; here a pool is a bound on    *)
(* the tasks that execute at once, in any order.                           *)
(***************************************************************************)
EXTENDS Integers, Sequences, FiniteSets

CONSTANTS Files,        (* the regular files under the pulled directory    *)
          Dirs,         (* the directories under it                        *)
          Root,         (* the pulled directory itself                     *)
          Parent,       (* the directory of each entry                     *)
          Contents,     (* the versions a file may have: block sequences   *)
          Source,       (* the version of each file at the beginning       *)
          ReadOnly,     (* the directories whose mode lets their owner     *)
                        (* create nothing in them                          *)
          Absent,       (* the content of a file that does not exist       *)
          ClientWorkers,(* -workers of the client                          *)
          MaxFaults,    (* bound on crashes, drops and failed calls        *)
          MaxEdits      (* bound on changes of the source                  *)

Entries == Files \cup Dirs

ASSUME TreeAssumption ==
  /\ Files \cap Dirs = {}
  /\ Root \notin Entries
  /\ Parent \in [Entries -> Dirs \cup {Root}]
  /\ ReadOnly \subseteq Dirs

ASSUME SourceAssumption ==
  /\ Contents \subseteq Seq(UNION {{c[i] : i \in DOMAIN c} : c \in Contents})
  /\ Source \in [Files -> Contents]
  /\ ClientWorkers \in Nat \ {0}
  /\ MaxFaults \in Nat /\ MaxEdits \in Nat

VARIABLES
  src, edits,  (* the served files, and how often they have been changed   *)
  dst, made,   (* the files and the directories at the destination         *)
  (* the server process *)
  up,          (* it is running                                            *)
  loaded,      (* the job is in the map "jobs"                             *)
  completed,   (* Job::completed_paths                                     *)
  logOk,       (* the state of the stream Job::log, sticky once bad        *)
  manager,     (* ClientManagerThread: idle, starting, crawl, waiting      *)
  visited,     (* entries that the crawler has handled                     *)
  bytes,       (* st_size as the crawler saw it                            *)
  hashing,     (* files with a FileIntegrityTask in the pool               *)
  ready,       (* files whose id is in ready_files                         *)
  sending,     (* files with a FileStreamTask in the pool                  *)
  logged,      (* the Completed lines of the log file                      *)
  (* connections *)
  backlog,     (* connections not yet accepted, in the order of connect    *)
  main,        (* the client's first connection: none, waiting (in the     *)
               (* backlog), open (with the manager), broken                *)
  responses,   (* what it still has to read from it                        *)
  stream,      (* the connection of each FileStreamTask                    *)
  (* the client process *)
  known,       (* a run has shown the job's id                             *)
  client,      (* off, connected, reading, draining, aborting              *)
  jobId,       (* job_id is set                                            *)
  to_complete, (* entries received and not yet finished                    *)
  task,        (* how far the tasks of each file are                       *)
  pull,        (* the PullObject that each task carries                    *)
  received,    (* total_bytes of each FileStreamTask                       *)
  hint,        (* the resume message has been printed                      *)
  outcome,     (* how the last run ended                                   *)
  exact,       (* to_complete holds what has been inserted and not erased  *)
  faults,
  omitted      (* what a failed call has left out of this session: entries *)
               (* that were not looked at, files that were not hashed      *)

served == <<src, edits>>
target == <<dst, made>>
jobs == <<loaded, completed, logOk, logged>>
session == <<manager, visited, bytes, hashing, omitted>>
offers == <<ready, sending>>
network == <<backlog, main, responses, stream>>
process == <<known, client, jobId, hint, outcome, exact>>
tasks == <<to_complete, task, pull, received>>
vars == <<served, target, up, jobs, session, offers, network, process, tasks, faults>>

NoPull == [bytes |-> 0, sha256 |-> Absent]
Unused == [data |-> <<>>, closed |-> TRUE]

Init ==
  /\ src = Source /\ edits = 0
  /\ dst = [f \in Files |-> Absent] /\ made = {}
  /\ up = TRUE
  /\ loaded = FALSE /\ completed = {} /\ logOk = TRUE /\ logged = {}
  /\ manager = "idle" /\ visited = {} /\ bytes = [f \in Files |-> 0]
  /\ hashing = {} /\ omitted = {}
  /\ ready = {} /\ sending = {}
  /\ backlog = <<>> /\ main = "none" /\ responses = <<>>
  /\ stream = [f \in Files |-> Unused]
  /\ known = FALSE /\ client = "off" /\ jobId = FALSE /\ hint = FALSE /\ outcome = "none"
  /\ exact = TRUE
  /\ to_complete = {}
  /\ task = [f \in Files |-> "none"]
  /\ pull = [f \in Files |-> NoPull]
  /\ received = [f \in Files |-> 0]
  /\ faults = 0

Fault == faults < MaxFaults /\ faults' = faults + 1

-------------------------------------------------------------------------------
(* Connections.  A connection enters the backlog when connect() succeeds;  *)
(* its request is "pending" until the client has sent it, "eof" if the     *)
(* client dies first, "orphan" if the client dies afterwards.              *)
Connection(req, f) == [req |-> req, file |-> f, state |-> "pending"]

Connect(req, f) == up /\ backlog' = Append(backlog, Connection(req, f))

(* The request of a connection that the server has not lost.               *)
SendRequest(req, f) ==
  \E i \in DOMAIN backlog :
    /\ backlog[i] = Connection(req, f)
    /\ backlog' = [backlog EXCEPT ![i].state = "sent"]

Lost(req, f) == \A i \in DOMAIN backlog : backlog[i] # Connection(req, f)

(* SendProtobufMessage on the manager's connection, under conn_mutex.      *)
Respond(msg) == responses' = IF main = "open" THEN Append(responses, msg) ELSE responses

Message(type, e, p) == [type |-> type, entry |-> e, pull |-> p]
Started == Message("started", Root, NoPull)
Finished == Message("finished", Root, NoPull)
Object(e, p) == Message("object", e, p)

(* A reset may or may not lose what has arrived and has not been read.     *)
CutStreams ==
  \E keep \in BOOLEAN :
    stream' = [f \in Files |-> [data |-> IF keep THEN stream[f].data ELSE <<>>,
                                closed |-> TRUE]]

CutMain ==
  /\ main' = IF main \in {"waiting", "open"} THEN "broken" ELSE main
  /\ responses' \in {responses, <<>>}

-------------------------------------------------------------------------------
(* The client's main (netpull_client.cc).                                  *)
StartClient ==
  /\ client = "off"
  /\ Connect(IF known THEN "continue" ELSE "start", Root)
  /\ client' = "connected" /\ main' = "waiting"
  /\ jobId' = FALSE /\ hint' = FALSE /\ outcome' = "none" /\ exact' = TRUE
  /\ UNCHANGED <<served, target, up, jobs, session, offers, responses, stream, known,
                 tasks, faults>>

(* The process is gone, and every socket of it with it.                    *)
ProcessEnds ==
  /\ client' = "off" /\ main' = "none" /\ responses' = <<>>
  /\ stream' = [f \in Files |-> Unused]
  /\ to_complete' = {}
  /\ task' = [f \in Files |-> "none"]
  /\ pull' = [f \in Files |-> NoPull]
  /\ received' = [f \in Files |-> 0]

SendFirstRequest ==
  /\ client = "connected"
  /\ \E req \in {"start", "continue"} : SendRequest(req, Root)
  /\ client' = "reading"
  /\ UNCHANGED <<served, target, up, jobs, session, offers, main, responses, stream, known,
                 jobId, hint, outcome, exact, tasks, faults>>

FirstRequestFails ==
  /\ client = "connected"
  /\ main = "broken"
  /\ ProcessEnds
  /\ outcome' = "aborted"
  /\ UNCHANGED <<served, target, up, jobs, session, offers, backlog, known, jobId, hint,
                 exact, faults>>

(* ReadProtobufMessage returns the next response.                          *)
Read(msg) ==
  /\ client = "reading"
  /\ responses # <<>>
  /\ msg = Head(responses)
  /\ responses' = Tail(responses)

ReadStarted ==
  /\ Read(Started)
  /\ jobId' = TRUE /\ known' = TRUE
  /\ UNCHANGED <<served, target, up, jobs, session, offers, backlog, main, stream, client,
                 hint, outcome, exact, tasks, faults>>

(* Something can be created in the directory of an entry: it is there, and *)
(* was made with the mode of the source, which allows it.                  *)
HasParent(e) == Parent[e] \in (made \ ReadOnly) \cup {Root}

(* HandleTransfer of a directory: mkdirat, where EEXIST is no error, and   *)
(* SetMetadata.  If either fails, the path stays in to_complete.           *)
ReadDirectory(d) ==
  /\ Read(Object(d, NoPull))
  /\ \/ /\ HasParent(d)
        /\ made' = made \cup {d}
        /\ UNCHANGED <<to_complete, faults>>
     \/ /\ HasParent(d)
        /\ Fault
        /\ made' \in {made, made \cup {d}}
        /\ to_complete' = to_complete \cup {d}
     \/ /\ ~HasParent(d)
        /\ to_complete' = to_complete \cup {d}
        /\ UNCHANGED <<made, faults>>
  /\ UNCHANGED <<served, dst, up, jobs, session, offers, backlog, main, stream, process,
                 task, pull, received>>

(* HandleTransfer of a file: openat with O_CREAT and without O_TRUNC, then *)
(* a FileStreamTask under the client's one key.                            *)
ReadFile(f) ==
  /\ client = "reading"
  /\ responses # <<>>
  /\ Read(Object(f, Head(responses).pull))
  /\ to_complete' = to_complete \cup {f}
  /\ \/ /\ HasParent(f)
        /\ dst' = IF dst[f] = Absent THEN [dst EXCEPT ![f] = <<>>] ELSE dst
        /\ task' = [task EXCEPT ![f] = "queued"]
        /\ pull' = [pull EXCEPT ![f] = Head(responses).pull]
        /\ UNCHANGED faults
     \/ /\ HasParent(f) => Fault
        /\ ~HasParent(f) => UNCHANGED faults
        /\ UNCHANGED <<dst, task, pull>>
  /\ UNCHANGED <<served, made, up, jobs, session, offers, backlog, main, stream, process,
                 received>>

ReadFinished ==
  /\ Read(Finished)
  /\ client' = "draining"
  /\ UNCHANGED <<served, target, up, jobs, session, offers, backlog, main, stream, known,
                 jobId, hint, outcome, exact, tasks, faults>>

(* ReadProtobufMessage fails: pool.Done() drops the queued tasks.          *)
ReadFails ==
  /\ client = "reading"
  /\ responses = <<>> /\ main = "broken"
  /\ client' = "aborting"
  /\ UNCHANGED <<served, target, up, jobs, session, offers, network, known, jobId, hint,
                 outcome, exact, tasks, faults>>

(* The tasks that a worker of the client is executing.                     *)
Executing == {f \in Files : task[f] \in {"open", "streaming", "verified", "reporting"}}

(* key.WaitForPending(), then Done, the joins and the report of what is    *)
(* left in to_complete, whatever empty() says once it has gone wrong.      *)
ExitFinished ==
  /\ client = "draining"
  /\ \A f \in Files : task[f] \in {"none", "ended"}
  /\ ProcessEnds
  /\ \/ /\ exact => to_complete = {}
        /\ outcome' = "clean" /\ UNCHANGED hint
     \/ /\ exact => to_complete # {}
        /\ outcome' = "incomplete" /\ hint' = TRUE
  /\ UNCHANGED <<served, target, up, jobs, session, offers, backlog, known, jobId, exact,
                 faults>>

(* The end of the abort path, once WaitForCompletion has joined.           *)
ExitAborted ==
  /\ client = "aborting"
  /\ Executing = {}
  /\ ProcessEnds
  /\ outcome' = "aborted"
  /\ UNCHANGED <<served, target, up, jobs, session, offers, backlog, known, jobId, hint,
                 exact, faults>>

(* SIGINT, whose handler prints the resume message once Started has come,  *)
(* or any other death of the client.                                       *)
ClientDies(signal) ==
  /\ client # "off"
  /\ Fault
  /\ ProcessEnds
  /\ outcome' = IF signal = "SIGINT" THEN "interrupted" ELSE "killed"
  /\ hint' = (hint \/ (signal = "SIGINT" /\ jobId))
  /\ backlog' = [i \in DOMAIN backlog |->
                   [backlog[i] EXCEPT !.state =
                      CASE @ = "pending" -> "eof"
                        [] @ = "sent" /\ backlog[i].req # "success" -> "orphan"
                        [] OTHER -> @]]
  /\ UNCHANGED <<served, target, up, jobs, session, offers, known, jobId, exact>>

-------------------------------------------------------------------------------
(* The client's tasks.  Done keeps queued ones from being popped.          *)
MayPop == client \in {"reading", "draining"} /\ Cardinality(Executing) < ClientWorkers

(* FileStreamTask::Run.                                                    *)
StreamConnect(f) ==
  /\ task[f] = "queued"
  /\ MayPop
  /\ \/ /\ Connect("file", f)
        /\ task' = [task EXCEPT ![f] = "open"]
        /\ stream' = [stream EXCEPT ![f] = [data |-> <<>>, closed |-> FALSE]]
     \/ /\ ~up
        /\ task' = [task EXCEPT ![f] = "ended"]
        /\ UNCHANGED <<backlog, stream>>
  /\ UNCHANGED <<served, target, up, jobs, session, offers, main, responses, process,
                 to_complete, pull, received, faults>>

StreamRequest(f) ==
  /\ task[f] = "open"
  /\ \/ SendRequest("file", f) /\ task' = [task EXCEPT ![f] = "streaming"]
     \/ Lost("file", f) /\ task' = [task EXCEPT ![f] = "ended"] /\ UNCHANGED backlog
  /\ UNCHANGED <<served, target, up, jobs, session, offers, main, responses, stream, process,
                 to_complete, pull, received, faults>>

(* One turn of the splice loop: the next block goes to the next offset.    *)
StreamBlock(f) ==
  /\ task[f] = "streaming"
  /\ received[f] < pull[f].bytes
  /\ stream[f].data # <<>>
  /\ LET block == Head(stream[f].data)
         offset == received[f] + 1
     IN dst' = [dst EXCEPT ![f] = IF offset <= Len(@) THEN [@ EXCEPT ![offset] = block]
                                  ELSE Append(@, block)]
  /\ stream' = [stream EXCEPT ![f].data = Tail(@)]
  /\ received' = [received EXCEPT ![f] = @ + 1]
  /\ UNCHANGED <<served, made, up, jobs, session, offers, backlog, main, responses, process,
                 to_complete, task, pull, faults>>

(* The loop ends with every byte (a FileIntegrityTask is submitted under   *)
(* the same key), or because the server has closed.                        *)
StreamEnds(f) ==
  /\ task[f] = "streaming"
  /\ \/ /\ received[f] >= pull[f].bytes
        /\ task' = [task EXCEPT ![f] = "check"]
     \/ /\ received[f] < pull[f].bytes
        /\ stream[f].data = <<>> /\ stream[f].closed
        /\ task' = [task EXCEPT ![f] = "ended"]
  /\ UNCHANGED <<served, target, up, jobs, session, offers, network, process, to_complete,
                 pull, received, faults>>

(* to_complete->Erase, which takes no lock for its second half: beside an  *)
(* Insert of the main thread, or an Erase of another task, it may leave a  *)
(* wrong size or wrong elements (GuardedSet).                              *)
Overlapped(f) ==
  \/ client = "reading"
  \/ ClientWorkers > 1 /\ \E g \in Files \ {f} : task[g] = "check"

EraseCompleted(f) ==
  /\ to_complete' = to_complete \ {f}
  /\ exact' \in {exact} \cup IF Overlapped(f) THEN {FALSE} ELSE {}

(* Faulty Verify: the path is erased before the digest is compared.        *)
VerifyAfterErase(f) ==
  /\ task[f] = "check"
  /\ MayPop
  /\ EraseCompleted(f)
  /\ task' = [task EXCEPT ![f] = IF dst[f] = pull[f].sha256 THEN "verified" ELSE "ended"]
  /\ UNCHANGED <<served, target, up, jobs, session, offers, network, known, client, jobId,
                 hint, outcome, pull, received, faults>>

(* Faulty Verify: the digest is not compared.                              *)
VerifyNothing(f) ==
  /\ task[f] = "check"
  /\ MayPop
  /\ EraseCompleted(f)
  /\ task' = [task EXCEPT ![f] = "verified"]
  /\ UNCHANGED <<served, target, up, jobs, session, offers, network, known, client, jobId,
                 hint, outcome, pull, received, faults>>

(* FileIntegrityTask::Run up to to_complete->Erase: the digest is taken of *)
(* the whole destination file, and the metadata is set.                    *)
Verify(f) ==
  /\ task[f] = "check"
  /\ MayPop
  /\ IF dst[f] = pull[f].sha256
     THEN task' = [task EXCEPT ![f] = "verified"] /\ EraseCompleted(f)
     ELSE task' = [task EXCEPT ![f] = "ended"] /\ UNCHANGED <<to_complete, exact>>
  /\ UNCHANGED <<served, target, up, jobs, session, offers, network, known, client, jobId,
                 hint, outcome, pull, received, faults>>

(* The rest of it: nothing is retried, and a failure goes unnoticed.       *)
ReportConnect(f) ==
  /\ task[f] = "verified"
  /\ \/ Connect("success", f) /\ task' = [task EXCEPT ![f] = "reporting"]
     \/ ~up /\ task' = [task EXCEPT ![f] = "ended"] /\ UNCHANGED backlog
  /\ UNCHANGED <<served, target, up, jobs, session, offers, main, responses, stream, process,
                 to_complete, pull, received, faults>>

ReportSend(f) ==
  /\ task[f] = "reporting"
  /\ SendRequest("success", f) \/ (Lost("success", f) /\ UNCHANGED backlog)
  /\ task' = [task EXCEPT ![f] = "ended"]
  /\ UNCHANGED <<served, target, up, jobs, session, offers, main, responses, stream, process,
                 to_complete, pull, received, faults>>

(* Any of the early returns of the two tasks after a failed call.  The     *)
(* connection closes, also one on which the request has not been sent.     *)
TaskFails(f) ==
  /\ \/ task[f] \in {"queued", "check"} /\ MayPop
     \/ task[f] \in {"open", "streaming", "verified", "reporting"}
  /\ Fault
  /\ task' = [task EXCEPT ![f] = "ended"]
  /\ backlog' = [i \in DOMAIN backlog |->
                   IF backlog[i].file = f /\ backlog[i].state = "pending"
                   THEN [backlog[i] EXCEPT !.state = "eof"] ELSE backlog[i]]
  /\ UNCHANGED <<served, target, up, jobs, session, offers, main, responses, stream, process,
                 to_complete, pull, received>>

-------------------------------------------------------------------------------
(* The server's accept loop (netpull_server.cc, main).  It reads one       *)
(* request per connection, in the order of the backlog, and waits for a    *)
(* pending one.                                                            *)
Accept(req) ==
  /\ up
  /\ backlog # <<>>
  /\ Head(backlog).req = req
  /\ Head(backlog).state \in {"sent", "orphan"}
  /\ backlog' = Tail(backlog)

HasClient == Head(backlog).state = "sent"

(* A new manager thread.  One that still runs for an earlier client goes   *)
(* on talking to a dead connection and is no longer followed.              *)
StartManager ==
  /\ manager' = "starting" /\ visited' = {} /\ hashing' = {} /\ omitted' = {}
  /\ bytes' = [f \in Files |-> 0]
  /\ ready' = {} /\ sending' = {}
  /\ main' = IF HasClient THEN "open" ELSE main

(* Job::New.                                                               *)
AcceptStart ==
  /\ Accept("start")
  /\ loaded' = TRUE /\ completed' = {} /\ logOk' = TRUE /\ logged' = {}
  /\ StartManager
  /\ UNCHANGED <<served, target, up, responses, stream, process, tasks, faults>>

(* Faulty AcceptContinue: the log is not read back.                        *)
ContinueWithoutLog ==
  /\ Accept("continue")
  /\ loaded' = TRUE
  /\ StartManager
  /\ UNCHANGED <<served, target, up, completed, logOk, logged, responses, stream, process,
                 tasks, faults>>

(* Faulty AcceptContinue: the log is opened with trunc, as Job::New does.  *)
ContinueTruncating ==
  /\ Accept("continue")
  /\ loaded' = TRUE
  /\ completed' = IF loaded THEN completed ELSE logged
  /\ logOk' = TRUE /\ logged' = {}
  /\ StartManager
  /\ UNCHANGED <<served, target, up, responses, stream, process, tasks, faults>>

(* Job::Load reads the log, but emplace keeps a job that is in the map.    *)
AcceptContinue ==
  /\ Accept("continue")
  /\ loaded' = TRUE
  /\ completed' = IF loaded THEN completed ELSE logged
  /\ logOk' = IF loaded THEN logOk ELSE TRUE
  /\ StartManager
  /\ UNCHANGED <<served, target, up, logged, responses, stream, process, tasks, faults>>

(* Job::New or Job::Load fails, and the connection is dropped.             *)
AcceptRefused ==
  /\ Accept("start") \/ Accept("continue")
  /\ Fault
  /\ main' = IF HasClient THEN "broken" ELSE main
  /\ UNCHANGED <<served, target, up, jobs, session, offers, responses, stream, process, tasks>>

(* GetAndPopIf: the id is good for one request.                            *)
AcceptFile(f) ==
  /\ Accept("file")
  /\ Head(backlog).file = f
  /\ ready' = ready \ {f}
  /\ IF f \in ready
     THEN sending' = sending \cup {f} /\ UNCHANGED stream
     ELSE UNCHANGED sending /\ stream' = [stream EXCEPT ![f].closed = TRUE]
  /\ UNCHANGED <<served, target, up, jobs, session, main, responses, process, tasks, faults>>

(* Job::MarkCompleted; the job is not in the map after a restart that no   *)
(* client has followed yet.  The write may fail, and then fails for good.  *)
AcceptSuccess(f) ==
  /\ Accept("success")
  /\ Head(backlog).file = f
  /\ IF ~loaded
     THEN UNCHANGED <<jobs, faults>>
     ELSE /\ completed' = completed \cup {f}
          /\ \/ logOk /\ logged' = logged \cup {f} /\ UNCHANGED <<logOk, faults>>
             \/ logOk /\ Fault /\ logOk' = FALSE /\ UNCHANGED logged
             \/ ~logOk /\ UNCHANGED <<logOk, logged, faults>>
          /\ UNCHANGED loaded
  /\ UNCHANGED <<served, target, up, session, offers, main, responses, stream, process, tasks>>

(* Everything but the log goes with the process; what the last session has *)
(* visited and omitted is kept for the record.  Before main's "return 1"   *)
(* ends the process, WorkerPool's destructor waits for running tasks while *)
(* managers go on.  That is one step here: main accepts nothing in between,*)
(* and what tasks and managers do then they may as well do before it.      *)
ServerProcessEnds ==
  /\ up' = FALSE
  /\ loaded' = FALSE /\ completed' = {} /\ logOk' = TRUE
  /\ manager' = "idle" /\ hashing' = {} /\ UNCHANGED <<visited, omitted>>
  /\ bytes' = [f \in Files |-> 0]
  /\ ready' = {} /\ sending' = {}
  /\ backlog' = <<>>
  /\ CutMain
  /\ CutStreams

(* "return 1" when a connection closes before its request has come.        *)
ServerExits ==
  /\ up
  /\ backlog # <<>> /\ Head(backlog).state = "eof"
  /\ ServerProcessEnds
  /\ UNCHANGED <<served, target, logged, process, tasks, faults>>

ServerDies ==
  /\ up
  /\ Fault
  /\ ServerProcessEnds
  /\ UNCHANGED <<served, target, logged, process, tasks>>

ServerRestarts ==
  /\ ~up
  /\ up' = TRUE
  /\ UNCHANGED <<served, target, jobs, session, offers, network, process, tasks, faults>>

-------------------------------------------------------------------------------
(* ClientManagerThread and its crawler.                                    *)
SendStarted ==
  /\ manager = "starting"
  /\ Respond(Started)
  /\ manager' = IF main = "open" THEN "crawl" ELSE "idle"
  /\ UNCHANGED <<served, target, up, jobs, visited, bytes, hashing, omitted, offers, backlog,
                 main, stream, process, tasks, faults>>

(* What the crawl has yet to look at.                                      *)
Unvisited(e) ==
  /\ manager = "crawl"
  /\ e \notin visited \cup omitted
  /\ Parent[e] \in visited \cup {Root}

(* fstatat fails: the entry is left out, and whatever is inside it.        *)
LeaveOut(e) ==
  /\ Unvisited(e)
  /\ Fault
  /\ omitted' = omitted \cup {e}
  /\ UNCHANGED <<served, target, up, jobs, manager, visited, bytes, hashing, offers, network,
                 process, tasks>>

(* openat or getdents64 of a directory fails, or the dup for it: the rest  *)
(* of what is in it is left out.                                           *)
LeaveOutRest(d) ==
  /\ \E e \in Entries : Unvisited(e) /\ Parent[e] = d
  /\ Fault
  /\ omitted' = omitted \cup {e \in Entries : Unvisited(e) /\ Parent[e] = d}
  /\ UNCHANGED <<served, target, up, jobs, manager, visited, bytes, hashing, offers, network,
                 process, tasks>>

(* Faulty HandleObject: directories are marked as completed when sent.     *)
HandleDirectoryAndMark(d) ==
  /\ Unvisited(d)
  /\ visited' = visited \cup {d}
  /\ completed' = completed \cup {d}
  /\ Respond(Object(d, NoPull))
  /\ UNCHANGED <<served, target, up, loaded, logOk, logged, manager, bytes, hashing, omitted,
                 offers, backlog, main, stream, process, tasks, faults>>

(* Faulty HandleObject: a file is marked as completed when it is announced.*)
HandleFileAndMark(f) ==
  /\ Unvisited(f)
  /\ visited' = visited \cup {f}
  /\ completed' = completed \cup {f}
  /\ IF f \in completed
     THEN UNCHANGED <<bytes, ready, hashing>>
     ELSE /\ bytes' = [bytes EXCEPT ![f] = Len(src[f])]
          /\ ready' = ready \cup {f}
          /\ hashing' = hashing \cup {f}
  /\ UNCHANGED <<served, target, up, loaded, logOk, logged, manager, omitted, sending, network,
                 process, tasks, faults>>

(* ClientSendCrawler::HandleObject.                                        *)
HandleDirectory(d) ==
  /\ Unvisited(d)
  /\ visited' = visited \cup {d}
  /\ IF d \in completed THEN UNCHANGED responses ELSE Respond(Object(d, NoPull))
  /\ UNCHANGED <<served, target, up, jobs, manager, bytes, hashing, omitted, offers, backlog,
                 main, stream, process, tasks, faults>>

HandleFile(f) ==
  /\ Unvisited(f)
  /\ visited' = visited \cup {f}
  /\ IF f \in completed
     THEN UNCHANGED <<bytes, ready, hashing>>
     ELSE /\ bytes' = [bytes EXCEPT ![f] = Len(src[f])]
          /\ ready' = ready \cup {f}
          /\ hashing' = hashing \cup {f}
  /\ UNCHANGED <<served, target, up, jobs, manager, omitted, sending, network, process, tasks,
                 faults>>

(* The queue is empty.                                                     *)
CrawlEnds ==
  /\ manager = "crawl"
  /\ \A e \in Entries : ~Unvisited(e)
  /\ manager' = "waiting"
  /\ UNCHANGED <<served, target, up, jobs, visited, bytes, hashing, omitted, offers, network,
                 process, tasks, faults>>

(* Faulty SendFinished: the key is not waited for.                         *)
SendFinishedEarly ==
  /\ manager = "waiting"
  /\ Respond(Finished)
  /\ manager' = "idle"
  /\ UNCHANGED <<served, target, up, jobs, visited, bytes, hashing, omitted, offers, backlog,
                 main, stream, process, tasks, faults>>

(* Faulty SendFinished: the manager takes its ids back when it is through. *)
SendFinishedAndForget ==
  /\ manager = "waiting"
  /\ hashing = {}
  /\ Respond(Finished)
  /\ manager' = "idle"
  /\ ready' = {}
  /\ UNCHANGED <<served, target, up, jobs, visited, bytes, hashing, omitted, sending, backlog,
                 main, stream, process, tasks, faults>>

(* After key.WaitForPending().                                             *)
SendFinished ==
  /\ manager = "waiting"
  /\ hashing = {}
  /\ Respond(Finished)
  /\ manager' = "idle"
  /\ UNCHANGED <<served, target, up, jobs, visited, bytes, hashing, omitted, offers, backlog,
                 main, stream, process, tasks, faults>>

(* FileIntegrityTask::Run on the server: the object is sent with the       *)
(* digest -- or not at all.                                                *)
HashFile(f) ==
  /\ f \in hashing
  /\ hashing' = hashing \ {f}
  /\ \/ /\ Respond(Object(f, [bytes |-> bytes[f], sha256 |-> src[f]]))
        /\ UNCHANGED <<omitted, faults>>
     \/ /\ Fault
        /\ omitted' = omitted \cup {f}
        /\ UNCHANGED responses
  /\ UNCHANGED <<served, target, up, jobs, manager, visited, bytes, offers, backlog, main,
                 stream, process, tasks>>

(* Faulty FileStreamTask: a stream cut short is not closed.                *)
StreamFileOpenEnded(f) ==
  /\ f \in sending
  /\ sending' = sending \ {f}
  /\ LET count == IF bytes[f] <= Len(src[f]) THEN bytes[f] ELSE Len(src[f])
         Sent(n) == stream' = IF stream[f].closed THEN stream
                              ELSE [stream EXCEPT ![f] = [data |-> SubSeq(src[f], 1, n),
                                                          closed |-> n = bytes[f]]]
     IN \/ Sent(count) /\ UNCHANGED faults
        \/ Fault /\ \E n \in 0 .. count - 1 : Sent(n)
  /\ UNCHANGED <<served, target, up, jobs, session, ready, backlog, main, responses, process,
                 tasks>>

(* FileStreamTask::Run on the server: as many bytes as the crawler saw,    *)
(* or as there are, or fewer if a call fails; then the connection closes.  *)
StreamFile(f) ==
  /\ f \in sending
  /\ sending' = sending \ {f}
  /\ LET count == IF bytes[f] <= Len(src[f]) THEN bytes[f] ELSE Len(src[f])
         Sent(n) == stream' = IF stream[f].closed THEN stream
                              ELSE [stream EXCEPT ![f] = [data |-> SubSeq(src[f], 1, n),
                                                          closed |-> TRUE]]
     IN \/ Sent(count) /\ UNCHANGED faults
        \/ Fault /\ \E n \in 0 .. count - 1 : Sent(n)
  /\ UNCHANGED <<served, target, up, jobs, session, ready, backlog, main, responses, process,
                 tasks>>

-------------------------------------------------------------------------------
(* The environment: accepted connections are reset; a source file gets     *)
(* another content (as by rename: an open file keeps the old one).         *)
NetworkDrops ==
  /\ main = "open" \/ \E f \in Files : ~stream[f].closed
  /\ Fault
  /\ main' = IF main = "open" THEN "broken" ELSE main
  /\ responses' \in {responses, <<>>}
  /\ CutStreams
  /\ UNCHANGED <<served, target, up, jobs, session, offers, backlog, process, tasks>>

EditFile(f) ==
  /\ edits < MaxEdits
  /\ edits' = edits + 1
  /\ \E c \in Contents \ {src[f]} : src' = [src EXCEPT ![f] = c]
  /\ UNCHANGED <<target, up, jobs, session, offers, network, process, tasks, faults>>

-------------------------------------------------------------------------------
ClientMain ==
  \/ SendFirstRequest \/ FirstRequestFails
  \/ ReadStarted \/ ReadFinished \/ ReadFails
  \/ \E d \in Dirs : ReadDirectory(d)
  \/ \E f \in Files : ReadFile(f)
  \/ ExitFinished \/ ExitAborted

ClientTask(f) ==
  \/ StreamConnect(f) \/ StreamRequest(f) \/ StreamBlock(f) \/ StreamEnds(f)
  \/ Verify(f) \/ ReportConnect(f) \/ ReportSend(f)

AcceptLoop ==
  \/ AcceptStart \/ AcceptContinue \/ ServerExits
  \/ \E f \in Files : AcceptFile(f) \/ AcceptSuccess(f)

Manager ==
  \/ SendStarted \/ CrawlEnds \/ SendFinished
  \/ \E d \in Dirs : HandleDirectory(d)
  \/ \E f \in Files : HandleFile(f)

ServerTask(f) == HashFile(f) \/ StreamFile(f)

Environment ==
  \/ AcceptRefused \/ ServerDies \/ NetworkDrops
  \/ \E signal \in {"SIGINT", "other"} : ClientDies(signal)
  \/ \E e \in Entries : LeaveOut(e)
  \/ \E d \in Dirs \cup {Root} : LeaveOutRest(d)
  \/ \E f \in Files : TaskFails(f) \/ EditFile(f)

Next ==
  \/ StartClient \/ ClientMain
  \/ \E f \in Files : ClientTask(f) \/ ServerTask(f)
  \/ AcceptLoop \/ Manager \/ ServerRestarts
  \/ Environment

Spec == Init /\ [][Next]_vars

(* Every thread that can run does; the user runs the client again, and the *)
(* operator the server.  Nothing makes a fault or an edit happen.          *)
Fairness ==
  /\ WF_vars(StartClient) /\ WF_vars(ClientMain)
  /\ WF_vars(AcceptLoop) /\ WF_vars(Manager) /\ WF_vars(ServerRestarts)
  /\ \A f \in Files : WF_vars(ClientTask(f)) /\ WF_vars(ServerTask(f))

FairSpec == Spec /\ Fairness

-------------------------------------------------------------------------------
Blocks == UNION {{c[i] : i \in DOMAIN c} : c \in Contents}
Pulls == {NoPull} \cup [bytes : {Len(c) : c \in Contents}, sha256 : Contents]

TypeOK ==
  /\ src \in [Files -> Contents] /\ edits \in 0 .. MaxEdits
  /\ \A f \in Files : dst[f] = Absent \/ dst[f] \in Seq(Blocks)
  /\ made \subseteq Dirs
  /\ {up, loaded, logOk, known, jobId, hint, exact} \subseteq BOOLEAN
  /\ completed \subseteq Files /\ logged \subseteq Files
  /\ manager \in {"idle", "starting", "crawl", "waiting"}
  /\ visited \subseteq Entries
  /\ omitted \subseteq Entries
  /\ hashing \cup ready \cup sending \subseteq visited \cap Files
  /\ bytes \in [Files -> Nat]
  /\ \A i \in DOMAIN backlog :
       backlog[i] \in [req : {"start", "continue", "file", "success"}, file : Files \cup {Root},
                       state : {"pending", "sent", "orphan", "eof"}]
  /\ main \in {"none", "waiting", "open", "broken"}
  /\ \A f \in Files : stream[f].data \in Seq(Blocks) /\ stream[f].closed \in BOOLEAN
  /\ client \in {"off", "connected", "reading", "draining", "aborting"}
  /\ to_complete \subseteq Entries
  /\ task \in [Files -> {"none", "queued", "open", "streaming", "check", "verified",
                         "reporting", "ended"}]
  /\ pull \in [Files -> Pulls]
  /\ received \in [Files -> Nat]
  /\ outcome \in {"none", "clean", "incomplete", "aborted", "interrupted", "killed"}
  /\ faults \in 0 .. MaxFaults

(* The success message of a file waits to be accepted.                     *)
Succeeding(f) ==
  \E i \in DOMAIN backlog : backlog[i].req = "success" /\ backlog[i].file = f

(* The server never skips, and never logs, a file of which the destination *)
(* does not hold a whole version, and the success message that is on its   *)
(* way says the truth when it is handled, not only when it was sent.       *)
CompletedIsDelivered ==
  \A f \in Files :
    (f \in completed \cup logged \/ Succeeding(f)) => dst[f] \in Contents

(* No session touches a file that the server counts as completed, although *)
(* it may be announced again after a restart and success messages may be   *)
(* late: they precede the next session's request in the backlog.           *)
CompletedStaysDelivered ==
  [][\A f \in completed \cup logged : dst'[f] = dst[f]]_vars

(* NETPULL_ASSERT of netpull_client.cc:488 and the rest of the protocol:   *)
(* the client sees Started first and once, each entry at most once, the    *)
(* directory of an entry before it, and Finished last.                     *)
ResponsesInOrder ==
  LET At(i) == responses[i]
      Dom == DOMAIN responses
  IN /\ \A i \in Dom : At(i) = Started => i = 1 /\ ~jobId
     /\ responses # <<>> /\ ~jobId => At(1) = Started
     /\ \A i \in Dom : At(i) = Finished => i = Len(responses) /\ manager = "idle" /\ hashing = {}
     /\ \A i, j \in Dom :
          At(i).type = "object" /\ At(j).type = "object" /\ At(i).entry = At(j).entry => i = j
     /\ \A i \in Dom :
          At(i).type = "object" =>
            \/ Parent[At(i).entry] \in made \cup to_complete \cup {Root}
            \/ \E j \in 1 .. i - 1 : At(j) = Object(Parent[At(i).entry], NoPull)

(* An id that the client has been told is good until the client uses it:   *)
(* a request of a living client on the server that issued the id is never  *)
(* refused.                                                                *)
AnnouncedIsReady ==
  main = "open" =>
    \A f \in Files \cap visited :
      (\/ f \in hashing
       \/ \E i \in DOMAIN responses : responses[i].type = "object" /\ responses[i].entry = f
       \/ task[f] \in {"queued", "open"}
       \/ \E i \in DOMAIN backlog : backlog[i] = [Connection("file", f) EXCEPT !.state = "sent"])
      => f \in ready

(* A failed call on the server has left out the entry or, one by one, a    *)
(* directory it is in, so that the crawl has not come to its own.          *)
LeftOut(e) == e \in omitted \/ Parent[e] \notin visited \cup {Root}

There(e) == e \in made \/ (e \in Files /\ dst[e] \in Contents)

(* When the client ends without complaint, every directory has been made   *)
(* and every file delivered in some version, except what failed calls have *)
(* left out on the server, and what is inside that; if to_complete has not *)
(* been damaged by calls that overlap.                                     *)
CleanRunIsComplete ==
  outcome = "clean" /\ exact =>
    \A e \in Entries : LeftOut(e) \/ (e \in visited /\ There(e))

(* "Notifies the client that the current job has completed" (netpull.proto:*)
(* 51): a run that ends cleanly leaves no file behind.  It does not hold:  *)
(* what the server cannot open, stat or hash is never announced, and       *)
(* Finished is sent all the same.                                          *)
CleanRunMeansCompleted ==
  outcome = "clean" => \A f \in Files : dst[f] \in Contents

(* "If a job visibly fails or is interrupted, netpull will print this job  *)
(* ID to the screen at the very end" (README.md:125).  It does not hold: the*)
(* client gives up without it when a response cannot be read.              *)
FailureShowsJobId ==
  outcome \in {"incomplete", "aborted", "interrupted"} /\ jobId => hint

(* Every run of the client comes to an end: the waits on keys, on the      *)
(* backlog, on responses and on streams cannot hold each other up.         *)
RunsEnd == client # "off" ~> client = "off"

(* The directories on the way to a file let the client create what is next.*)
MayBeCreated(f) ==
  \E way \in SUBSET (Dirs \ ReadOnly) :
    \A e \in way \cup {f} : Parent[e] \in way \cup {Root}

(* Resuming gets every file across once the faults are over, whatever was  *)
(* lost between transfer, verification, success message and log -- but for *)
(* those below a directory that has no write permission (README.md:167).   *)
ResumingDelivers == <>[](\A f \in Files : MayBeCreated(f) => dst[f] = src[f])

(* "these log files can be used to resume jobs that failed or got stuck"   *)
(* (README.md:112): resuming ends with a whole version of every file, even *)
(* if the source has changed between two runs.  It does not hold of a file *)
(* that has become shorter: its old copy is not truncated.                 *)
ResumeRepairs == <>[](\A f \in Files : dst[f] \in Contents)

(* The record of completed files, and the destination, across sessions.    *)
PJ == INSTANCE PullJob WITH dest <- dst, recorded <- logged

ImplementsPullJob == PJ!PSpec
==============================================================================
