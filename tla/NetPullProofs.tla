----------------------------- MODULE NetPullProofs -----------------------------
(***************************************************************************)
(* Proofs about NetPull, for any tree of files, any versions of them, any  *)
(* number of workers, and any number of faults and edits.                  *)
(***************************************************************************)
EXTENDS NetPullInvariant, TLAPS

-------------------------------------------------------------------------------
(* Sequences.                                                              *)
Grows(s, t, x) ==
  /\ Len(s) \in Nat /\ Len(t) = Len(s) + 1 /\ t # <<>>
  /\ DOMAIN s = 1 .. Len(s) /\ DOMAIN t = 1 .. Len(t)
  /\ \A i \in DOMAIN s : i \in DOMAIN t /\ t[i] = s[i] /\ i < Len(t)
  /\ Len(t) \in DOMAIN t /\ t[Len(t)] = x
  /\ \A i \in DOMAIN t : i \in DOMAIN s \/ i = Len(t)

Shifts(s, t) ==
  /\ Len(s) \in Nat \ {0} /\ Len(t) = Len(s) - 1 /\ s # <<>>
  /\ DOMAIN s = 1 .. Len(s) /\ DOMAIN t = 1 .. Len(t)
  /\ \A i \in DOMAIN t : i \in Nat \ {0} /\ i + 1 \in DOMAIN s /\ t[i] = s[i + 1]
  /\ \A i \in DOMAIN s : i = 1 \/ (i - 1 \in DOMAIN t /\ t[i - 1] = s[i])
  /\ 1 \in DOMAIN s
  /\ t = <<>> <=> Len(s) = 1

(* Append leaves what there was where it was, and puts one element last.   *)
LEMMA AppendGrows ==
  ASSUME NEW S, NEW s \in Seq(S), NEW x \in S, NEW t, t = Append(s, x)
  PROVE  t \in Seq(S) /\ Grows(s, t, x)
<1>1. t \in Seq(S) /\ Len(s) \in Nat /\ Len(t) = Len(s) + 1
  OBVIOUS
<1>2. DOMAIN s = 1 .. Len(s) /\ DOMAIN t = 1 .. Len(t)
  BY <1>1
<1>3. \A i \in DOMAIN s : t[i] = s[i]
  BY <1>2
<1>4. t[Len(s) + 1] = x
  OBVIOUS
<1> QED
  BY <1>1, <1>2, <1>3, <1>4 DEF Grows

(* Tail takes the first element and moves the others one place forward.    *)
LEMMA TailShifts ==
  ASSUME NEW S, NEW s \in Seq(S), s # <<>>, NEW t, t = Tail(s)
  PROVE  t \in Seq(S) /\ Shifts(s, t) /\ Head(s) = s[1] /\ Head(s) \in S
<1>1. t \in Seq(S) /\ Len(s) \in Nat \ {0} /\ Len(t) = Len(s) - 1
  OBVIOUS
<1>2. DOMAIN s = 1 .. Len(s) /\ DOMAIN t = 1 .. Len(t)
  BY <1>1
<1>3. \A i \in DOMAIN t : t[i] = s[i + 1]
  BY <1>2
<1>4. Head(s) = s[1] /\ Head(s) \in S
  OBVIOUS
<1>5. t = <<>> <=> Len(s) = 1
  BY <1>1, SMTT(30)
<1> QED
  BY <1>1, <1>2, <1>3, <1>4, <1>5 DEF Shifts

(* The empty sequence is a sequence of anything.                           *)
LEMMA EmptyIsSequence ==
  ASSUME NEW S, NEW s, s = <<>>
  PROVE  s \in Seq(S)
OBVIOUS

(* A sequence whose elements are replaced stays one.                       *)
LEMMA MapIsSequence ==
  ASSUME NEW S, NEW s \in Seq(S), NEW t, t = [i \in DOMAIN s |-> t[i]],
         \A i \in DOMAIN s : t[i] \in S
  PROVE  t \in Seq(S) /\ Len(t) = Len(s) /\ DOMAIN t = DOMAIN s
<1>1. Len(s) \in Nat /\ DOMAIN s = 1 .. Len(s)
  OBVIOUS
<1>2. DOMAIN t = 1 .. Len(s) /\ t \in [1 .. Len(s) -> S]
  BY <1>1
<1> QED
  BY <1>1, <1>2

-------------------------------------------------------------------------------
(* What the operations on connections do to the backlog and to what the    *)
(* client has to read.                                                     *)

(* Restated(s, t): only the states of connections have changed.            *)
Restated(s, t) ==
  /\ t \in Seq(Requests) /\ Len(t) = Len(s) /\ DOMAIN t = DOMAIN s
  /\ \A i \in DOMAIN s : t[i].req = s[i].req /\ t[i].file = s[i].file

(* A successful connect() puts a pending request at the end.               *)
LEMMA ConnectGrows ==
  ASSUME TypeInv, NEW req \in {"start", "continue", "file", "success"},
         NEW f \in Files \cup {Root}, Connect(req, f)
  PROVE  /\ backlog' \in Seq(Requests)
         /\ Grows(backlog, backlog', Connection(req, f))
<1>1. Connection(req, f) \in Requests
  BY DEF Connection, Requests
<1>2. backlog' = Append(backlog, Connection(req, f)) /\ backlog \in Seq(Requests)
  BY DEF Connect, TypeInv, NetworkTypes
<1> QED
  BY <1>1, <1>2, AppendGrows

(* The request on connection i has been sent, and no other.                *)
SentAt(i, req, f) ==
  /\ backlog[i] = Connection(req, f)
  /\ backlog[i].req = req /\ backlog[i].file = f /\ backlog[i].state = "pending"
  /\ backlog'[i] = [Connection(req, f) EXCEPT !.state = "sent"]
  /\ backlog'[i].state = "sent"
  /\ \A j \in DOMAIN backlog \ {i} : backlog'[j] = backlog[j]

(* Sending a request changes the state of one pending connection.          *)
LEMMA SendRestates ==
  ASSUME TypeInv, NEW req, NEW f, SendRequest(req, f)
  PROVE  /\ Restated(backlog, backlog')
         /\ \E i \in DOMAIN backlog : SentAt(i, req, f)
<1>1. PICK i \in DOMAIN backlog :
        /\ backlog[i] = Connection(req, f)
        /\ backlog' = [backlog EXCEPT ![i].state = "sent"]
  BY DEF SendRequest
<1>2. backlog \in Seq(Requests)
  BY DEF TypeInv, NetworkTypes
<1>3. backlog[i] \in Requests
  BY <1>2
<1>4. backlog'[i] = [Connection(req, f) EXCEPT !.state = "sent"]
  BY <1>1
<1>5. \A j \in DOMAIN backlog \ {i} : backlog'[j] = backlog[j]
  BY <1>1
<1>6. backlog'[i] \in Requests /\ backlog'[i].req = backlog[i].req
      /\ backlog'[i].file = backlog[i].file
  BY <1>1, <1>3, <1>4 DEF Requests, Connection
<1>7. \A j \in DOMAIN backlog : backlog[j] \in Requests
  BY <1>2
<1>8. \A j \in DOMAIN backlog : backlog'[j] \in Requests
  BY <1>5, <1>6, <1>7
<1>9. backlog' = [j \in DOMAIN backlog |-> backlog'[j]]
  BY <1>1, <1>2
<1>10. backlog' \in Seq(Requests) /\ Len(backlog') = Len(backlog)
       /\ DOMAIN backlog' = DOMAIN backlog
  BY <1>2, <1>8, <1>9, MapIsSequence
<1>11. /\ backlog[i].req = req /\ backlog[i].file = f /\ backlog[i].state = "pending"
       /\ backlog'[i].state = "sent"
  BY <1>1, <1>4 DEF Connection
<1> QED
  BY <1>1, <1>4, <1>5, <1>6, <1>10, <1>11 DEF Restated, SentAt

(* The server takes the first connection of the backlog.                   *)
LEMMA AcceptShifts ==
  ASSUME TypeInv, NEW req, Accept(req)
  PROVE  /\ backlog' \in Seq(Requests)
         /\ Shifts(backlog, backlog')
         /\ Head(backlog) = backlog[1] /\ backlog[1] \in Requests
         /\ backlog[1].req = req /\ backlog[1].state \in {"sent", "orphan"}
<1>1. backlog \in Seq(Requests) /\ backlog # <<>> /\ backlog' = Tail(backlog)
  BY DEF Accept, TypeInv, NetworkTypes
<1>2. /\ backlog' \in Seq(Requests) /\ Shifts(backlog, backlog')
      /\ Head(backlog) = backlog[1] /\ Head(backlog) \in Requests
  BY <1>1, TailShifts
<1> QED
  BY <1>2 DEF Accept

(* The client reads the first of the responses.                            *)
LEMMA ReadShifts ==
  ASSUME TypeInv, NEW msg, Read(msg)
  PROVE  /\ responses' \in Seq(Messages)
         /\ Shifts(responses, responses')
         /\ Head(responses) = responses[1] /\ responses[1] = msg /\ msg \in Messages
         /\ client = "reading"
<1>1. responses \in Seq(Messages) /\ responses # <<>> /\ responses' = Tail(responses)
  BY DEF Read, TypeInv, NetworkTypes
<1>2. /\ responses' \in Seq(Messages) /\ Shifts(responses, responses')
      /\ Head(responses) = responses[1] /\ Head(responses) \in Messages
  BY <1>1, TailShifts
<1> QED
  BY <1>2 DEF Read

(* A response goes to the end of what an open connection holds, and        *)
(* nowhere if the connection is gone.                                      *)
LEMMA RespondGrows ==
  ASSUME TypeInv, NEW msg \in Messages, Respond(msg)
  PROVE  /\ responses' \in Seq(Messages)
         /\ main = "open" => Grows(responses, responses', msg)
         /\ main # "open" => responses' = responses
<1>1. responses \in Seq(Messages)
  BY DEF TypeInv, NetworkTypes
<1>2. CASE main = "open"
  <2>1. responses' = Append(responses, msg)
    BY <1>2 DEF Respond
  <2> QED
    BY <1>1, <1>2, <2>1, AppendGrows
<1>3. CASE main # "open"
  BY <1>1, <1>3 DEF Respond
<1> QED
  BY <1>2, <1>3

(* The death of the client leaves each of its connections to the server,   *)
(* except that nothing more comes on them.                                 *)
LEMMA DeathRestates ==
  ASSUME TypeInv, NEW signal, ClientDies(signal)
  PROVE  /\ Restated(backlog, backlog')
         /\ \A i \in DOMAIN backlog : OpensJob(backlog[i]) => ~Live(backlog'[i])
<1>1. backlog \in Seq(Requests)
  BY DEF TypeInv, NetworkTypes
<1>2. backlog' = [i \in DOMAIN backlog |-> backlog'[i]]
  BY DEF ClientDies
<1>3. ASSUME NEW i \in DOMAIN backlog
      PROVE  /\ backlog'[i] \in Requests
             /\ backlog'[i].req = backlog[i].req /\ backlog'[i].file = backlog[i].file
             /\ OpensJob(backlog[i]) => ~Live(backlog'[i])
  <2>1. backlog[i] \in Requests
    BY <1>1
  <2>2. backlog'[i] = [backlog[i] EXCEPT !.state =
                         CASE @ = "pending" -> "eof"
                           [] @ = "sent" /\ backlog[i].req # "success" -> "orphan"
                           [] OTHER -> @]
    BY DEF ClientDies
  <2>3. CASE backlog[i].state = "pending"
    BY <2>1, <2>2, <2>3 DEF Requests, Live
  <2>4. CASE backlog[i].state = "sent" /\ backlog[i].req # "success"
    BY <2>1, <2>2, <2>4 DEF Requests, Live
  <2>5. CASE backlog[i].state # "pending" /\ ~(backlog[i].state = "sent" /\ backlog[i].req # "success")
    BY <2>1, <2>2, <2>5 DEF Requests, Live, OpensJob
  <2> QED
    BY <2>3, <2>4, <2>5
<1>4. backlog' \in Seq(Requests) /\ Len(backlog') = Len(backlog)
      /\ DOMAIN backlog' = DOMAIN backlog
  BY <1>1, <1>2, <1>3, MapIsSequence
<1> QED
  BY <1>3, <1>4 DEF Restated

(* A task that fails closes the connection it has not yet written to.      *)
LEMMA FailureRestates ==
  ASSUME TypeInv, NEW f \in Files, TaskFails(f)
  PROVE  /\ Restated(backlog, backlog')
         /\ \A i \in DOMAIN backlog :
              IF backlog[i].file = f /\ backlog[i].state = "pending"
              THEN backlog'[i].state = "eof" ELSE backlog'[i] = backlog[i]
<1>1. backlog \in Seq(Requests)
  BY DEF TypeInv, NetworkTypes
<1>2. backlog' = [i \in DOMAIN backlog |-> backlog'[i]]
  BY DEF TaskFails
<1>3. ASSUME NEW i \in DOMAIN backlog
      PROVE  /\ backlog'[i] \in Requests
             /\ backlog'[i].req = backlog[i].req /\ backlog'[i].file = backlog[i].file
             /\ IF backlog[i].file = f /\ backlog[i].state = "pending"
                THEN backlog'[i].state = "eof" ELSE backlog'[i] = backlog[i]
  <2>1. backlog[i] \in Requests
    BY <1>1
  <2>2. backlog'[i] = IF backlog[i].file = f /\ backlog[i].state = "pending"
                      THEN [backlog[i] EXCEPT !.state = "eof"] ELSE backlog[i]
    BY DEF TaskFails
  <2> QED
    BY <2>1, <2>2 DEF Requests
<1>4. backlog' \in Seq(Requests) /\ Len(backlog') = Len(backlog)
      /\ DOMAIN backlog' = DOMAIN backlog
  BY <1>1, <1>2, <1>3, MapIsSequence
<1> QED
  BY <1>3, <1>4 DEF Restated

-------------------------------------------------------------------------------
(* Which actions change what; the others leave it as it is.                *)

(* The state of the client's main, but for what has become of to_complete. *)
phase == <<known, client, jobId, hint, outcome>>

(* The crawl leaves something out.                                         *)
LeavingOut ==
  \/ \E e \in Entries : LeaveOut(e)
  \/ \E d \in Dirs \cup {Root} : LeaveOutRest(d)

(* Which actions change the served files.                                  *)
LEMMA ServedFrame ==
  ASSUME Next
  PROVE  \/ UNCHANGED served
         \/ \E f \in Files : EditFile(f)
BY ZenonT(60)
DEF    Next, ClientMain, ClientTask, AcceptLoop, Manager, ServerTask,
       Environment, StartClient, SendFirstRequest, FirstRequestFails,
       ReadStarted, ReadDirectory, ReadFile, ReadFinished, ReadFails,
       ExitFinished, ExitAborted, ClientDies, StreamConnect, StreamRequest,
       StreamBlock, StreamEnds, Verify, EraseCompleted, ReportConnect,
       ReportSend, TaskFails, AcceptStart, AcceptContinue, AcceptRefused,
       AcceptFile, AcceptSuccess, ServerExits, ServerDies, ServerRestarts,
       SendStarted, HandleDirectory, HandleFile, CrawlEnds, SendFinished,
       HashFile, StreamFile, LeaveOut, LeaveOutRest, NetworkDrops, Fault,
       served, target, jobs, session, offers, network, process, tasks

(* Which actions change the destination.                                   *)
LEMMA TargetFrame ==
  ASSUME Next
  PROVE  \/ UNCHANGED target
         \/ \E d \in Dirs : ReadDirectory(d)
         \/ \E f \in Files : ReadFile(f) \/ StreamBlock(f)
BY ZenonT(60)
DEF    Next, ClientMain, ClientTask, AcceptLoop, Manager, ServerTask,
       Environment, StartClient, SendFirstRequest, FirstRequestFails,
       ReadStarted, ReadFinished, ReadFails, ExitFinished, ExitAborted,
       ClientDies, StreamConnect, StreamRequest, StreamEnds, Verify,
       EraseCompleted, ReportConnect, ReportSend, TaskFails, AcceptStart,
       AcceptContinue, AcceptRefused, AcceptFile, AcceptSuccess, ServerExits,
       ServerDies, ServerRestarts, SendStarted, HandleDirectory, HandleFile,
       CrawlEnds, SendFinished, HashFile, StreamFile, LeaveOut, LeaveOutRest,
       NetworkDrops, EditFile, Fault, served, target, jobs, session, offers,
       network, process, tasks

(* Which actions change the job on the server.                             *)
LEMMA JobsFrame ==
  ASSUME Next
  PROVE  \/ UNCHANGED <<up, jobs>>
         \/ AcceptStart \/ AcceptContinue \/ ServerExits \/ ServerDies \/ ServerRestarts
         \/ \E f \in Files : AcceptSuccess(f)
BY ZenonT(60)
DEF    Next, ClientMain, ClientTask, AcceptLoop, Manager, ServerTask,
       Environment, StartClient, SendFirstRequest, FirstRequestFails,
       ReadStarted, ReadDirectory, ReadFile, ReadFinished, ReadFails,
       ExitFinished, ExitAborted, ClientDies, StreamConnect, StreamRequest,
       StreamBlock, StreamEnds, Verify, EraseCompleted, ReportConnect,
       ReportSend, TaskFails, AcceptRefused, AcceptFile, SendStarted,
       HandleDirectory, HandleFile, CrawlEnds, SendFinished, HashFile,
       StreamFile, LeaveOut, LeaveOutRest, NetworkDrops, EditFile, Fault,
       served, target, jobs, session, offers, network, process, tasks

(* Which actions change the manager's state.                               *)
LEMMA SessionFrame ==
  ASSUME Next
  PROVE  \/ UNCHANGED <<session, offers>>
         \/ AcceptStart \/ AcceptContinue \/ ServerExits \/ ServerDies
         \/ SendStarted \/ CrawlEnds \/ SendFinished \/ LeavingOut
         \/ \E d \in Dirs : HandleDirectory(d)
         \/ \E f \in Files : HandleFile(f) \/ AcceptFile(f) \/ HashFile(f) \/ StreamFile(f)
BY ZenonT(60)
DEF    Next, ClientMain, ClientTask, AcceptLoop, Manager, ServerTask,
       Environment, StartClient, SendFirstRequest, FirstRequestFails,
       ReadStarted, ReadDirectory, ReadFile, ReadFinished, ReadFails,
       ExitFinished, ExitAborted, ClientDies, StreamConnect, StreamRequest,
       StreamBlock, StreamEnds, Verify, EraseCompleted, ReportConnect,
       ReportSend, TaskFails, AcceptRefused, AcceptSuccess, ServerRestarts,
       NetworkDrops, EditFile, Fault, served, target, jobs, session, offers,
       network, process, tasks, LeavingOut

(* Which actions change the backlog.                                       *)
LEMMA BacklogFrame ==
  ASSUME Next
  PROVE  \/ UNCHANGED backlog
         \/ StartClient \/ SendFirstRequest
         \/ \E signal \in {"SIGINT", "other"} : ClientDies(signal)
         \/ \E f \in Files : StreamConnect(f) \/ StreamRequest(f) \/ ReportConnect(f) \/ ReportSend(f)
         \/ \E f \in Files : TaskFails(f) \/ AcceptFile(f) \/ AcceptSuccess(f)
         \/ AcceptStart \/ AcceptContinue \/ AcceptRefused \/ ServerExits \/ ServerDies
BY ZenonT(60)
DEF    Next, ClientMain, ClientTask, AcceptLoop, Manager, ServerTask,
       Environment, FirstRequestFails, ReadStarted, ReadDirectory, ReadFile,
       ReadFinished, ReadFails, ExitFinished, ExitAborted, StreamBlock,
       StreamEnds, Verify, EraseCompleted, ServerRestarts, SendStarted,
       HandleDirectory, HandleFile, CrawlEnds, SendFinished, HashFile,
       StreamFile, LeaveOut, LeaveOutRest, NetworkDrops, EditFile, Fault,
       served, target, jobs, session, offers, network, process, tasks

(* Which actions make, or cut, the first connection.                       *)
LEMMA MainFrame ==
  ASSUME Next
  PROVE  \/ UNCHANGED main
         \/ StartClient \/ FirstRequestFails \/ ExitFinished \/ ExitAborted
         \/ \E signal \in {"SIGINT", "other"} : ClientDies(signal)
         \/ AcceptStart \/ AcceptContinue \/ AcceptRefused
         \/ ServerExits \/ ServerDies \/ NetworkDrops
BY ZenonT(60)
DEF    Next, ClientMain, ClientTask, AcceptLoop, Manager, ServerTask,
       Environment, SendFirstRequest, ReadStarted, ReadDirectory, ReadFile,
       ReadFinished, ReadFails, StreamConnect, StreamRequest, StreamBlock,
       StreamEnds, Verify, EraseCompleted, ReportConnect, ReportSend,
       TaskFails, AcceptFile, AcceptSuccess, ServerRestarts, SendStarted,
       HandleDirectory, HandleFile, CrawlEnds, SendFinished, HashFile,
       StreamFile, LeaveOutRest, LeaveOut, EditFile, served, target, jobs,
       session, offers, network, process, tasks

(* Which actions change what is to be read from it.                        *)
LEMMA ResponsesFrame ==
  ASSUME Next
  PROVE  \/ UNCHANGED <<main, responses>>
         \/ StartClient \/ FirstRequestFails \/ ExitFinished \/ ExitAborted
         \/ \E signal \in {"SIGINT", "other"} : ClientDies(signal)
         \/ ReadStarted \/ ReadFinished
         \/ \E d \in Dirs : ReadDirectory(d) \/ HandleDirectory(d)
         \/ \E f \in Files : ReadFile(f) \/ HashFile(f)
         \/ SendStarted \/ SendFinished
         \/ AcceptStart \/ AcceptContinue \/ AcceptRefused
         \/ ServerExits \/ ServerDies \/ NetworkDrops
BY ZenonT(60)
DEF    Next, ClientMain, ClientTask, AcceptLoop, Manager, ServerTask,
       Environment, SendFirstRequest, ReadFails, StreamConnect, StreamRequest,
       StreamBlock, StreamEnds, Verify, EraseCompleted, ReportConnect,
       ReportSend, TaskFails, AcceptFile, AcceptSuccess, ServerRestarts,
       HandleFile, CrawlEnds, StreamFile, LeaveOutRest, LeaveOut, EditFile,
       Fault, served, target, jobs, session, offers, network, process,
       tasks

(* Which actions change the connections of the transfers.                  *)
LEMMA StreamFrame ==
  ASSUME Next
  PROVE  \/ UNCHANGED stream
         \/ FirstRequestFails \/ ExitFinished \/ ExitAborted
         \/ \E signal \in {"SIGINT", "other"} : ClientDies(signal)
         \/ \E f \in Files : StreamConnect(f) \/ StreamBlock(f) \/ AcceptFile(f) \/ StreamFile(f)
         \/ ServerExits \/ ServerDies \/ NetworkDrops
BY ZenonT(60)
DEF    Next, ClientMain, ClientTask, AcceptLoop, Manager, ServerTask,
       Environment, StartClient, SendFirstRequest, ReadStarted, ReadDirectory,
       ReadFile, ReadFinished, ReadFails, StreamRequest, StreamEnds, Verify,
       EraseCompleted, ReportConnect, ReportSend, TaskFails, AcceptStart,
       AcceptContinue, AcceptRefused, AcceptSuccess, ServerRestarts,
       SendStarted, LeaveOut, LeaveOutRest, HandleDirectory, HandleFile,
       CrawlEnds, SendFinished, HashFile, EditFile, Fault, served, target,
       jobs, session, offers, network, process, tasks

(* Which actions change the state of the client's main.                    *)
LEMMA ProcessFrame ==
  ASSUME Next
  PROVE  \/ UNCHANGED phase
         \/ StartClient \/ SendFirstRequest \/ FirstRequestFails \/ ReadStarted \/ ReadFinished
         \/ ReadFails \/ ExitFinished \/ ExitAborted
         \/ \E signal \in {"SIGINT", "other"} : ClientDies(signal)
BY ZenonT(60)
DEF    Next, ClientMain, ClientTask, AcceptLoop, Manager, ServerTask,
       Environment, ReadDirectory, ReadFile, StreamConnect, StreamRequest,
       StreamBlock, StreamEnds, Verify, EraseCompleted, ReportConnect,
       ReportSend, TaskFails, AcceptStart, AcceptContinue, AcceptRefused,
       AcceptFile, AcceptSuccess, ServerExits, ServerDies, ServerRestarts,
       SendStarted, HandleDirectory, HandleFile, CrawlEnds, SendFinished,
       HashFile, StreamFile, LeaveOut, LeaveOutRest, NetworkDrops, EditFile,
       Fault, served, target, jobs, session, offers, network, process, phase,
       tasks

(* Which actions change the state of the client's tasks.                   *)
LEMMA TasksFrame ==
  ASSUME Next
  PROVE  \/ UNCHANGED tasks
         \/ FirstRequestFails \/ ExitFinished \/ ExitAborted
         \/ \E signal \in {"SIGINT", "other"} : ClientDies(signal)
         \/ \E d \in Dirs : ReadDirectory(d)
         \/ \E f \in Files : ReadFile(f) \/ StreamConnect(f) \/ StreamRequest(f) \/ StreamBlock(f)
         \/ \E f \in Files : StreamEnds(f) \/ Verify(f) \/ ReportConnect(f) \/ ReportSend(f)
         \/ \E f \in Files : TaskFails(f)
BY ZenonT(60)
DEF    Next, ClientMain, ClientTask, AcceptLoop, Manager, ServerTask,
       Environment, StartClient, SendFirstRequest, ReadStarted, ReadFinished,
       ReadFails, AcceptStart, AcceptContinue, AcceptRefused, AcceptFile,
       AcceptSuccess, ServerExits, ServerDies, ServerRestarts, SendStarted,
       HandleDirectory, HandleFile, CrawlEnds, SendFinished, HashFile,
       StreamFile, LeaveOutRest, LeaveOut, NetworkDrops, EditFile, Fault,
       served, target, jobs, session, offers, network, process, tasks

(* Which actions say something about the record of to_complete.            *)
LEMMA ExactFrame ==
  ASSUME Next
  PROVE  \/ UNCHANGED exact
         \/ StartClient
         \/ \E f \in Files : Verify(f)
BY ZenonT(60)
DEF    Next, ClientMain, ClientTask, AcceptLoop, Manager, ServerTask,
       Environment, SendFirstRequest, FirstRequestFails, ReadStarted,
       ReadDirectory, ReadFile, ReadFinished, ReadFails, ExitFinished,
       ExitAborted, ClientDies, StreamConnect, StreamRequest, StreamBlock,
       StreamEnds, ReportConnect, ReportSend, TaskFails, AcceptStart,
       AcceptContinue, AcceptRefused, AcceptFile, AcceptSuccess, ServerExits,
       ServerDies, ServerRestarts, SendStarted, HandleDirectory, HandleFile,
       CrawlEnds, SendFinished, HashFile, StreamFile, LeaveOut, LeaveOutRest,
       NetworkDrops, EditFile, Fault, served, target, jobs, session, offers,
       network, process, tasks

(* What a file's Verify does, whatever it finds.                           *)
LEMMA VerifyFacts ==
  ASSUME NEW f \in Files, Verify(f)
  PROVE  /\ task[f] = "check"
         /\ \/ /\ dst[f] = pull[f].sha256
               /\ task' = [task EXCEPT ![f] = "verified"]
               /\ to_complete' = to_complete \ {f}
            \/ /\ task' = [task EXCEPT ![f] = "ended"]
               /\ to_complete' = to_complete
         /\ exact' \in {exact, FALSE}
         /\ UNCHANGED <<served, target, up, jobs, session, offers, network, phase, pull,
                         received, faults>>
BY DEF Verify, EraseCompleted, phase

(* What is left out changes nothing else.                                  *)
LEMMA LeavingOutFacts ==
  ASSUME LeavingOut
  PROVE  /\ manager = "crawl"
         /\ omitted' \subseteq Entries \cup omitted /\ omitted \subseteq omitted'
         /\ UNCHANGED <<served, target, up, jobs, manager, visited, bytes, hashing, offers,
                         network, process, tasks>>
<1>1. ASSUME NEW e \in Entries, LeaveOut(e)
      PROVE  /\ manager = "crawl"
             /\ omitted' \subseteq Entries \cup omitted /\ omitted \subseteq omitted'
             /\ UNCHANGED <<served, target, up, jobs, manager, visited, bytes, hashing, offers,
                             network, process, tasks>>
  BY <1>1 DEF LeaveOut, Unvisited
<1>2. ASSUME NEW d \in Dirs \cup {Root}, LeaveOutRest(d)
      PROVE  /\ manager = "crawl"
             /\ omitted' \subseteq Entries \cup omitted /\ omitted \subseteq omitted'
             /\ UNCHANGED <<served, target, up, jobs, manager, visited, bytes, hashing, offers,
                             network, process, tasks>>
  BY <1>2 DEF LeaveOutRest, Unvisited
<1> QED
  BY <1>1, <1>2 DEF LeavingOut

-------------------------------------------------------------------------------
(* The types.                                                              *)

(* The finer types have the type invariant of the runs in them.            *)
LEMMA TypesImplyTypeOK == TypeInv => TypeOK
<1> SUFFICES ASSUME TypeInv PROVE TypeOK
  OBVIOUS
<1>1. \A i \in DOMAIN backlog : backlog[i] \in Requests
  BY DEF TypeInv, NetworkTypes
<1>2. \A f \in Files : dst[f] = Absent \/ dst[f] \in Seq(Blocks)
  BY DEF TypeInv, TargetTypes
<1>3. \A f \in Files : stream[f].data \in Seq(Blocks) /\ stream[f].closed \in BOOLEAN
  BY DEF TypeInv, NetworkTypes
<1>4. {up, loaded, logOk, known, jobId, hint} \subseteq BOOLEAN
  BY Zenon DEF TypeInv, JobTypes, ProcessTypes
<1> QED
  BY <1>1, <1>2, <1>3, <1>4
     DEF TypeOK, TypeInv, ServedTypes, TargetTypes, JobTypes, SessionTypes, NetworkTypes,
         ProcessTypes, TaskTypes, Requests

(* Contents are sequences of blocks, and their lengths numbers.            *)
LEMMA ContentFacts ==
  /\ Contents \subseteq Seq(Blocks)
  /\ \A c \in Contents : Len(c) \in Nat
  /\ Lengths \subseteq Nat
<1>1. Contents \subseteq Seq(Blocks)
  BY SourceAssumption DEF Blocks
<1>2. \A c \in Contents : Len(c) \in Nat
  BY <1>1
<1> QED
  BY <1>1, <1>2 DEF Lengths

(* The types hold at the beginning.                                        *)
LEMMA TypesInit == Init => TypeInv
<1> SUFFICES ASSUME Init PROVE TypeInv
  OBVIOUS
<1>1. ServedTypes /\ TargetTypes /\ SessionTypes /\ TaskTypes /\ faults \in 0 .. MaxFaults
  BY SourceAssumption DEF Init, ServedTypes, TargetTypes, SessionTypes, TaskTypes, Pulls, NoPull
<1>2. JobTypes /\ ProcessTypes
  BY Zenon DEF Init, JobTypes, ProcessTypes
<1>3. NetworkTypes
  BY DEF Init, NetworkTypes, Unused
<1> QED
  BY <1>1, <1>2, <1>3 DEF TypeInv

(* A content stays one of the versions when it is edited.                  *)
LEMMA ServedTypesStep == TypeInv /\ Next => ServedTypes'
<1> SUFFICES ASSUME TypeInv, Next PROVE ServedTypes'
  OBVIOUS
<1>1. ASSUME NEW f \in Files, EditFile(f) PROVE ServedTypes'
  BY <1>1, SourceAssumption DEF TypeInv, ServedTypes, EditFile
<1>2. CASE UNCHANGED served
  BY <1>2 DEF TypeInv, ServedTypes, served
<1> QED
  BY <1>1, <1>2, ServedFrame

(* A block goes over another one of the file, or to its end.               *)
LEMMA BlockIsWritten ==
  ASSUME TypeInv, NEW f \in Files, StreamBlock(f)
  PROVE  made' = made /\ \E s \in Seq(Blocks) : dst' = [dst EXCEPT ![f] = s]
<1> DEFINE block == Head(stream[f].data)
           offset == received[f] + 1
<1>1. stream[f].data \in Seq(Blocks) /\ stream[f].data # <<>>
  BY DEF StreamBlock, TypeInv, NetworkTypes
<1>2. PICK b \in Blocks : b = block
  BY <1>1
<1>3. dst[f] \in Seq(Blocks) /\ received[f] \in Nat
  BY DEF StreamBlock, TypeInv, TaskTypes
<1>4. offset <= Len(dst[f]) => [dst[f] EXCEPT ![offset] = b] \in Seq(Blocks)
  BY <1>3
<1>5. Append(dst[f], b) \in Seq(Blocks)
  BY <1>3
<1>6. dst' = [dst EXCEPT ![f] = IF offset <= Len(dst[f]) THEN [dst[f] EXCEPT ![offset] = b]
                                ELSE Append(dst[f], b)]
      /\ made' = made
  BY <1>2 DEF StreamBlock
<1> HIDE DEF offset, block
<1> QED
  BY <1>4, <1>5, <1>6

(* What is written are blocks, one after the other.                        *)
LEMMA TargetTypesStep == TypeInv /\ Next => TargetTypes'
<1> SUFFICES ASSUME TypeInv, Next PROVE TargetTypes'
  OBVIOUS
<1> USE DEF TypeInv, TargetTypes
<1>1. ASSUME NEW d \in Dirs, ReadDirectory(d) PROVE TargetTypes'
  BY <1>1 DEF ReadDirectory
<1>2. ASSUME NEW f \in Files, ReadFile(f) PROVE TargetTypes'
  <2>1. made' = made
    BY <1>2 DEF ReadFile
  <2>2. dst' = dst \/ dst' = [dst EXCEPT ![f] = <<>>]
    BY <1>2 DEF ReadFile
  <2>3. <<>> \in Seq(Blocks)
    OBVIOUS
  <2> QED
    BY <2>1, <2>2, <2>3
<1>3. ASSUME NEW f \in Files, StreamBlock(f) PROVE TargetTypes'
  BY <1>3, BlockIsWritten
<1>4. CASE UNCHANGED target
  BY <1>4 DEF target
<1> QED
  BY <1>1, <1>2, <1>3, <1>4, TargetFrame

(* The record of completed files is one of files.                          *)
LEMMA JobTypesStep == TypeInv /\ Next => JobTypes'
<1> SUFFICES ASSUME TypeInv, Next PROVE JobTypes'
  OBVIOUS
<1> USE DEF TypeInv, JobTypes
<1>1. CASE AcceptStart
  BY Zenon, <1>1 DEF AcceptStart
<1>2. CASE AcceptContinue
  BY Zenon, <1>2 DEF AcceptContinue
<1>3. ASSUME NEW f \in Files, AcceptSuccess(f) PROVE JobTypes'
  BY <1>3 DEF AcceptSuccess, jobs
<1>4. CASE ServerExits \/ ServerDies
  BY Zenon, <1>4 DEF ServerExits, ServerDies, ServerProcessEnds
<1>5. CASE ServerRestarts
  BY Zenon, <1>5 DEF ServerRestarts, jobs
<1>6. CASE UNCHANGED <<up, jobs>>
  BY <1>6 DEF jobs
<1> QED
  BY <1>1, <1>2, <1>3, <1>4, <1>5, <1>6, JobsFrame

(* The manager deals with entries, and offers files, that the crawler has  *)
(* handled.                                                                *)
LEMMA SessionTypesStep == TypeInv /\ Next => SessionTypes'
<1> SUFFICES ASSUME TypeInv, Next PROVE SessionTypes'
  OBVIOUS
<1> USE DEF TypeInv, SessionTypes
<1>1. CASE AcceptStart \/ AcceptContinue
  <2>1. StartManager
    BY <1>1 DEF AcceptStart, AcceptContinue
  <2> QED
    BY <2>1 DEF StartManager
<1>2. CASE ServerExits \/ ServerDies
  BY <1>2 DEF ServerExits, ServerDies, ServerProcessEnds
<1>3. CASE SendStarted \/ SendFinished \/ CrawlEnds
  BY <1>3 DEF SendStarted, SendFinished, CrawlEnds, offers
<1>4. ASSUME NEW d \in Dirs, HandleDirectory(d) PROVE SessionTypes'
  BY <1>4 DEF HandleDirectory, offers, Entries
<1>5. ASSUME NEW f \in Files, HandleFile(f) PROVE SessionTypes'
  <2>1. src[f] \in Contents
    BY DEF ServedTypes
  <2>2. Len(src[f]) \in Lengths \cap Nat
    BY <2>1, ContentFacts DEF Lengths
  <2> QED
    BY <1>5, <2>2 DEF HandleFile, Entries
<1>6. ASSUME NEW f \in Files, AcceptFile(f) PROVE SessionTypes'
  BY <1>6 DEF AcceptFile, session
<1>7. ASSUME NEW f \in Files, HashFile(f) PROVE SessionTypes'
  BY <1>7 DEF HashFile, offers
<1>8. ASSUME NEW f \in Files, StreamFile(f) PROVE SessionTypes'
  BY <1>8 DEF StreamFile, session
<1>9. CASE UNCHANGED <<session, offers>>
  BY <1>9 DEF session, offers
<1>10. CASE LeavingOut
  BY <1>10, LeavingOutFacts DEF offers
<1> QED
  BY <1>1, <1>2, <1>3, <1>4, <1>5, <1>6, <1>7, <1>8, <1>9, <1>10, SessionFrame

(* The backlog holds connections.                                          *)
LEMMA BacklogTypesStep == TypeInv /\ Next => backlog' \in Seq(Requests)
<1> SUFFICES ASSUME TypeInv, Next PROVE backlog' \in Seq(Requests)
  OBVIOUS
<1>1. CASE StartClient
  BY <1>1, ConnectGrows DEF StartClient
<1>2. CASE SendFirstRequest
  BY <1>2, SendRestates DEF SendFirstRequest, Restated
<1>3. ASSUME NEW signal \in {"SIGINT", "other"}, ClientDies(signal)
      PROVE  backlog' \in Seq(Requests)
  BY <1>3, DeathRestates DEF Restated
<1>4. ASSUME NEW f \in Files, StreamConnect(f) \/ ReportConnect(f)
      PROVE  backlog' \in Seq(Requests)
  BY <1>4, ConnectGrows DEF StreamConnect, ReportConnect, TypeInv, NetworkTypes
<1>5. ASSUME NEW f \in Files, StreamRequest(f) \/ ReportSend(f)
      PROVE  backlog' \in Seq(Requests)
  BY <1>5, SendRestates DEF StreamRequest, ReportSend, Restated, TypeInv, NetworkTypes
<1>6. ASSUME NEW f \in Files, TaskFails(f) PROVE backlog' \in Seq(Requests)
  BY <1>6, FailureRestates DEF Restated
<1>7. ASSUME NEW f \in Files, AcceptFile(f) \/ AcceptSuccess(f)
      PROVE  backlog' \in Seq(Requests)
  BY <1>7, AcceptShifts DEF AcceptFile, AcceptSuccess
<1>8. CASE AcceptStart \/ AcceptContinue \/ AcceptRefused
  BY <1>8, AcceptShifts DEF AcceptStart, AcceptContinue, AcceptRefused
<1>9. CASE ServerExits \/ ServerDies
  <2>1. backlog' = <<>>
    BY <1>9 DEF ServerExits, ServerDies, ServerProcessEnds
  <2> QED
    BY <2>1
<1>10. CASE UNCHANGED backlog
  BY <1>10 DEF TypeInv, NetworkTypes
<1> QED
  BY <1>1, <1>2, <1>3, <1>4, <1>5, <1>6, <1>7, <1>8, <1>9, <1>10, BacklogFrame

(* What the manager and its tasks say are messages.                        *)
LEMMA MessageFacts ==
  /\ Started \in Messages /\ Finished \in Messages
  /\ \A d \in Dirs : Object(d, NoPull) \in Messages
  /\ \A f \in Files : \A p \in [bytes : Lengths, sha256 : Contents] : Object(f, p) \in Messages
  /\ Started.type = "started" /\ Finished.type = "finished" /\ Started # Finished
  /\ \A e, p : Object(e, p).type = "object" /\ Object(e, p).entry = e /\ Object(e, p).pull = p
               /\ Object(e, p) # Started /\ Object(e, p) # Finished
<1>1. Started \in Messages /\ Finished \in Messages
  BY DEF Messages
<1>2. \A d \in Dirs : Object(d, NoPull) \in Messages
  BY DEF Messages
<1>3. \A f \in Files : \A p \in [bytes : Lengths, sha256 : Contents] : Object(f, p) \in Messages
  BY DEF Messages, Announcements
<1>4. Started.type = "started" /\ Finished.type = "finished" /\ Started # Finished
  BY DEF Started, Finished, Message
<1>5. ASSUME NEW e, NEW p
      PROVE  /\ Object(e, p).type = "object" /\ Object(e, p).entry = e /\ Object(e, p).pull = p
             /\ Object(e, p) # Started /\ Object(e, p) # Finished
  BY DEF Started, Finished, Object, Message
<1> QED
  BY <1>1, <1>2, <1>3, <1>4, <1>5

(* The announcement of a file carries its length and its digest.           *)
LEMMA AnnouncedPull ==
  ASSUME NEW f \in Files, NEW p, Object(f, p) \in Messages
  PROVE  p \in [bytes : Lengths, sha256 : Contents]
<1>1. \A d \in Dirs : Object(f, p) # Object(d, NoPull)
  BY MessageFacts, TreeAssumption
<1>2. PICK g \in Files, q \in [bytes : Lengths, sha256 : Contents] : Object(f, p) = Object(g, q)
  BY <1>1, MessageFacts DEF Messages, Announcements
<1> QED
  BY <1>2, MessageFacts

(* What a response announces is an entry.                                  *)
LEMMA AnnouncedEntry ==
  ASSUME NEW m \in Messages, m.type = "object"
  PROVE  /\ m.entry \in Entries
         /\ m.entry \in Dirs => m = Object(m.entry, NoPull)
<1>1. CASE \E d \in Dirs : m = Object(d, NoPull)
  BY <1>1, MessageFacts DEF Entries
<1>2. CASE \E f \in Files : \E p \in [bytes : Lengths, sha256 : Contents] : m = Object(f, p)
  BY <1>2, MessageFacts, TreeAssumption DEF Entries
<1> QED
  BY <1>1, <1>2, MessageFacts DEF Messages, Announcements

(* What the client has to read are messages.                               *)
LEMMA ResponsesTypesStep ==
  TypeInv /\ Next => responses' \in Seq(Messages) /\ main' \in {"none", "waiting", "open", "broken"}
<1> DEFINE Goal == responses' \in Seq(Messages)
                   /\ main' \in {"none", "waiting", "open", "broken"}
<1> SUFFICES ASSUME TypeInv, Next PROVE Goal
  OBVIOUS
<1>0. responses \in Seq(Messages) /\ main \in {"none", "waiting", "open", "broken"}
  BY DEF TypeInv, NetworkTypes
<1>1. CASE StartClient
  BY <1>0, <1>1 DEF StartClient
<1>2. ASSUME ProcessEnds PROVE Goal
  BY <1>2 DEF ProcessEnds
<1>3. CASE FirstRequestFails \/ ExitFinished \/ ExitAborted
  BY <1>2, <1>3 DEF FirstRequestFails, ExitFinished, ExitAborted
<1>4. ASSUME NEW signal \in {"SIGINT", "other"}, ClientDies(signal) PROVE Goal
  BY <1>2, <1>4 DEF ClientDies
<1>5. CASE ReadStarted \/ ReadFinished
  BY <1>0, <1>5, ReadShifts DEF ReadStarted, ReadFinished
<1>6. ASSUME NEW d \in Dirs, ReadDirectory(d) PROVE Goal
  BY <1>0, <1>6, ReadShifts DEF ReadDirectory
<1>7. ASSUME NEW f \in Files, ReadFile(f) PROVE Goal
  BY <1>0, <1>7, ReadShifts DEF ReadFile
<1>8. CASE SendStarted \/ SendFinished
  BY <1>0, <1>8, RespondGrows, MessageFacts DEF SendStarted, SendFinished
<1>9. ASSUME NEW d \in Dirs, HandleDirectory(d) PROVE Goal
  BY <1>0, <1>9, RespondGrows, MessageFacts DEF HandleDirectory
<1>10. ASSUME NEW f \in Files, HashFile(f) PROVE Goal
  <2>1. bytes[f] \in Lengths /\ src[f] \in Contents
    BY <1>10 DEF HashFile, TypeInv, ServedTypes, SessionTypes
  <2>2. Object(f, [bytes |-> bytes[f], sha256 |-> src[f]]) \in Messages
    BY <2>1, MessageFacts
  <2> QED
    BY <1>0, <1>10, <2>2, RespondGrows DEF HashFile
<1>11. CASE AcceptStart \/ AcceptContinue
  BY <1>0, <1>11 DEF AcceptStart, AcceptContinue, StartManager
<1>12. CASE AcceptRefused
  BY <1>0, <1>12 DEF AcceptRefused
<1>13. CASE ServerExits \/ ServerDies
  <2>1. CutMain
    BY <1>13 DEF ServerExits, ServerDies, ServerProcessEnds
  <2>2. responses' = responses \/ responses' = <<>>
    BY <2>1 DEF CutMain
  <2>3. main' \in {"none", "waiting", "open", "broken"}
    BY <1>0, <2>1 DEF CutMain
  <2> QED
    BY <1>0, <2>2, <2>3, EmptyIsSequence
<1>14. CASE NetworkDrops
  <2>1. responses' = responses \/ responses' = <<>>
    BY <1>14 DEF NetworkDrops
  <2>2. main' = main \/ main' = "broken"
    BY <1>14 DEF NetworkDrops
  <2> QED
    BY <1>0, <2>1, <2>2, EmptyIsSequence
<1>15. CASE UNCHANGED <<main, responses>>
  BY <1>0, <1>15
<1> QED
  BY <1>1, <1>3, <1>4, <1>5, <1>6, <1>7, <1>8, <1>9, <1>10, <1>11, <1>12, <1>13, <1>14,
     <1>15, ResponsesFrame

Streams == [Files -> [data : Seq(Blocks), closed : BOOLEAN]]

(* A prefix of a content is a sequence of blocks.                          *)
LEMMA PrefixIsSequence ==
  ASSUME NEW s \in Seq(Blocks), NEW n \in 0 .. Len(s)
  PROVE  SubSeq(s, 1, n) \in Seq(Blocks)
OBVIOUS

(* What the client's transfers receive are blocks.                         *)
LEMMA StreamTypesStep == TypeInv /\ Next => stream' \in Streams
<1> SUFFICES ASSUME TypeInv, Next PROVE stream' \in Streams
  OBVIOUS
<1>0. stream \in Streams
  BY DEF TypeInv, NetworkTypes, Streams
<1> USE DEF Streams
<1>1. ASSUME ProcessEnds PROVE stream' \in Streams
  BY <1>1 DEF ProcessEnds, Unused
<1>2. CASE FirstRequestFails \/ ExitFinished \/ ExitAborted
  BY <1>1, <1>2 DEF FirstRequestFails, ExitFinished, ExitAborted
<1>3. ASSUME NEW signal \in {"SIGINT", "other"}, ClientDies(signal) PROVE stream' \in Streams
  BY <1>1, <1>3 DEF ClientDies
<1>4. ASSUME NEW f \in Files, StreamConnect(f) PROVE stream' \in Streams
  <2>1. PICK none : none = <<>>
    OBVIOUS
  <2>2. stream' = stream \/ stream' = [stream EXCEPT ![f] = [data |-> none, closed |-> FALSE]]
    BY <1>4, <2>1 DEF StreamConnect
  <2>3. [data |-> none, closed |-> FALSE] \in [data : Seq(Blocks), closed : BOOLEAN]
    BY <2>1, EmptyIsSequence
  <2> QED
    BY <1>0, <2>2, <2>3
<1>5. ASSUME NEW f \in Files, StreamBlock(f) PROVE stream' \in Streams
  <2>1. stream[f] \in [data : Seq(Blocks), closed : BOOLEAN] /\ stream[f].data # <<>>
    BY <1>0, <1>5 DEF StreamBlock
  <2>2. PICK t \in Seq(Blocks) : t = Tail(stream[f].data)
    <3>1. \A s \in Seq(Blocks) : s # <<>> => Tail(s) \in Seq(Blocks)
      OBVIOUS
    <3> QED
      BY <2>1, <3>1
  <2>3. stream' = [stream EXCEPT ![f] = [stream[f] EXCEPT !.data = t]]
    BY <1>0, <1>5, <2>2 DEF StreamBlock
  <2> QED
    BY <1>0, <2>1, <2>3
<1>6. ASSUME NEW f \in Files, AcceptFile(f) PROVE stream' \in Streams
  <2>1. stream' = stream \/ stream' = [stream EXCEPT ![f] = [stream[f] EXCEPT !.closed = TRUE]]
    BY <1>0, <1>6 DEF AcceptFile
  <2>2. stream[f] \in [data : Seq(Blocks), closed : BOOLEAN]
    BY <1>0
  <2> QED
    BY <1>0, <2>1, <2>2
<1>7. ASSUME NEW f \in Files, StreamFile(f) PROVE stream' \in Streams
  <2>1. src[f] \in Seq(Blocks)
    BY ContentFacts DEF TypeInv, ServedTypes
  <2>2. bytes[f] \in Nat
    BY DEF TypeInv, SessionTypes
  <2>3. PICK n \in 0 .. Len(src[f]) :
          stream' = IF stream[f].closed THEN stream
                    ELSE [stream EXCEPT ![f] = [data |-> SubSeq(src[f], 1, n), closed |-> TRUE]]
    BY <1>7, <2>1, <2>2, SMTT(30) DEF StreamFile
  <2>4. PICK b \in Seq(Blocks) : b = SubSeq(src[f], 1, n)
    BY <2>1, PrefixIsSequence
  <2> QED
    BY <1>0, <2>3, <2>4
<1>8. ASSUME CutStreams PROVE stream' \in Streams
  <2>1. PICK keep \in BOOLEAN :
          stream' = [f \in Files |-> [data |-> IF keep THEN stream[f].data ELSE <<>>,
                                      closed |-> TRUE]]
    BY <1>8 DEF CutStreams
  <2>2. \A f \in Files : stream[f].data \in Seq(Blocks) /\ <<>> \in Seq(Blocks)
    BY <1>0
  <2> QED
    BY <2>1, <2>2
<1>9. CASE ServerExits \/ ServerDies \/ NetworkDrops
  BY <1>8, <1>9 DEF ServerExits, ServerDies, ServerProcessEnds, NetworkDrops
<1>10. CASE UNCHANGED stream
  BY <1>0, <1>10
<1> QED
  BY <1>2, <1>3, <1>4, <1>5, <1>6, <1>7, <1>9, <1>10, StreamFrame

(* The client's main is in one of its phases.                              *)
LEMMA ProcessTypesStep == TypeInv /\ Next => ProcessTypes'
<1> SUFFICES ASSUME TypeInv, Next PROVE ProcessTypes'
  OBVIOUS
<1> USE DEF TypeInv, ProcessTypes
<1> DEFINE PhaseTypes ==
      /\ known \in BOOLEAN /\ jobId \in BOOLEAN /\ hint \in BOOLEAN
      /\ client \in {"off", "connected", "reading", "draining", "aborting"}
      /\ outcome \in {"none", "clean", "incomplete", "aborted", "interrupted", "killed"}
<1>1. ASSUME StartClient PROVE PhaseTypes'
  BY Zenon, <1>1 DEF StartClient
<1>2. ASSUME SendFirstRequest PROVE PhaseTypes'
  BY Zenon, <1>2 DEF SendFirstRequest
<1>3. ASSUME FirstRequestFails PROVE PhaseTypes'
  BY Zenon, <1>3 DEF FirstRequestFails, ProcessEnds
<1>4. ASSUME ReadStarted PROVE PhaseTypes'
  BY Zenon, <1>4 DEF ReadStarted
<1>5. ASSUME ReadFinished PROVE PhaseTypes'
  BY Zenon, <1>5 DEF ReadFinished
<1>6. ASSUME ReadFails PROVE PhaseTypes'
  BY Zenon, <1>6 DEF ReadFails
<1>7. ASSUME ExitFinished PROVE PhaseTypes'
  BY Zenon, <1>7 DEF ExitFinished, ProcessEnds
<1>8. ASSUME ExitAborted PROVE PhaseTypes'
  BY Zenon, <1>8 DEF ExitAborted, ProcessEnds
<1>9. ASSUME NEW signal \in {"SIGINT", "other"}, ClientDies(signal) PROVE PhaseTypes'
  BY <1>9 DEF ClientDies, ProcessEnds
<1>10. ASSUME UNCHANGED phase PROVE PhaseTypes'
  BY <1>10 DEF phase
<1> HIDE DEF PhaseTypes
<1>11. PhaseTypes'
  BY <1>1, <1>2, <1>3, <1>4, <1>5, <1>6, <1>7, <1>8, <1>9, <1>10, ProcessFrame
<1>12. exact' \in BOOLEAN
  <2>1. CASE StartClient
    BY Zenon, <2>1 DEF StartClient
  <2>2. ASSUME NEW f \in Files, Verify(f) PROVE exact' \in BOOLEAN
    BY Zenon, <2>2, VerifyFacts
  <2> QED
    BY Zenon, <2>1, <2>2, ExactFrame
<1> QED
  BY Zenon, <1>11, <1>12 DEF PhaseTypes

(* A task has what its announcement said, and a file to write to.          *)
LEMMA TaskTypesStep == TypeInv /\ Next => TaskTypes'
<1> SUFFICES ASSUME TypeInv, Next PROVE TaskTypes'
  OBVIOUS
<1> USE DEF TypeInv, TaskTypes
<1>1. ASSUME ProcessEnds PROVE TaskTypes'
  BY <1>1 DEF ProcessEnds, Pulls
<1>2. CASE FirstRequestFails \/ ExitFinished \/ ExitAborted
  BY <1>1, <1>2 DEF FirstRequestFails, ExitFinished, ExitAborted
<1>3. ASSUME NEW signal \in {"SIGINT", "other"}, ClientDies(signal) PROVE TaskTypes'
  BY <1>1, <1>3 DEF ClientDies
<1>4. ASSUME NEW d \in Dirs, ReadDirectory(d) PROVE TaskTypes'
  BY <1>4 DEF ReadDirectory, Entries
<1>5. ASSUME NEW f \in Files, ReadFile(f) PROVE TaskTypes'
  <2>1. to_complete' \subseteq Entries /\ received' = received
    BY <1>5 DEF ReadFile, Entries
  <2>2. CASE UNCHANGED <<dst, task, pull>>
    BY <2>1, <2>2
  <2>3. CASE /\ dst' = IF dst[f] = Absent THEN [dst EXCEPT ![f] = <<>>] ELSE dst
             /\ task' = [task EXCEPT ![f] = "queued"]
             /\ pull' = [pull EXCEPT ![f] = Head(responses).pull]
    <3>1. Object(f, Head(responses).pull) \in Messages
      BY <1>5, ReadShifts DEF ReadFile
    <3>2. PICK p \in [bytes : Lengths, sha256 : Contents] : p = Head(responses).pull
      BY <3>1, AnnouncedPull
    <3>3. PICK s \in Seq(Blocks) : dst' = [dst EXCEPT ![f] = s]
      <4>1. CASE dst[f] = Absent
        BY <2>3, <4>1, EmptyIsSequence
      <4>2. CASE dst[f] # Absent
        BY <2>3, <4>2 DEF TargetTypes
      <4> QED
        BY <4>1, <4>2
    <3>4. pull' = [pull EXCEPT ![f] = p] /\ p \in Pulls /\ p.sha256 \in Contents
      BY <2>3, <3>2 DEF Pulls, Lengths
    <3> QED
      BY <2>1, <2>3, <3>3, <3>4 DEF TargetTypes
  <2> QED
    BY <1>5, <2>2, <2>3 DEF ReadFile
<1>6. ASSUME NEW f \in Files, StreamBlock(f) PROVE TaskTypes'
  <2>1. PICK s \in Seq(Blocks) : dst' = [dst EXCEPT ![f] = s]
    BY <1>6, BlockIsWritten
  <2>2. received' = [received EXCEPT ![f] = received[f] + 1] /\ UNCHANGED <<to_complete, task, pull>>
    BY <1>6 DEF StreamBlock
  <2> QED
    BY <2>1, <2>2 DEF TargetTypes
<1>7. ASSUME NEW f \in Files,
             StreamConnect(f) \/ StreamRequest(f) \/ StreamEnds(f) \/ Verify(f)
             \/ ReportConnect(f) \/ ReportSend(f) \/ TaskFails(f)
      PROVE  TaskTypes'
  <2> USE DEF EraseCompleted
  <2>1. /\ to_complete' \subseteq Entries
        /\ UNCHANGED <<dst, pull, received>>
        /\ task[f] # "none"
    BY <1>7 DEF StreamConnect, StreamRequest, StreamEnds, Verify, ReportConnect, ReportSend,
                TaskFails, target
  <2>2. PICK t \in {"open", "streaming", "check", "verified", "reporting", "ended"} :
          task' = [task EXCEPT ![f] = t]
    BY <1>7 DEF StreamConnect, StreamRequest, StreamEnds, Verify, ReportConnect, ReportSend,
                TaskFails
  <2> QED
    BY <2>1, <2>2
<1>8. CASE UNCHANGED <<target, tasks>>
  BY <1>8 DEF target, tasks
<1> QED
  BY <1>2, <1>3, <1>4, <1>5, <1>6, <1>7, <1>8, TasksFrame, TargetFrame

(* Faults are counted up to their bound.                                   *)
LEMMA FaultsStep == TypeInv /\ Next => faults' \in 0 .. MaxFaults
<1> SUFFICES ASSUME TypeInv, Next PROVE faults' \in 0 .. MaxFaults
  OBVIOUS
<1>1. UNCHANGED faults \/ Fault
  BY ZenonT(60)
  DEF    Next, ClientMain, ClientTask, AcceptLoop, Manager, ServerTask,
         Environment, StartClient, SendFirstRequest, FirstRequestFails,
         ReadStarted, ReadDirectory, ReadFile, ReadFinished, ReadFails,
         ExitFinished, ExitAborted, ClientDies, StreamConnect, StreamRequest,
         StreamBlock, StreamEnds, Verify, EraseCompleted, ReportConnect,
         ReportSend, TaskFails, AcceptStart, AcceptContinue, AcceptRefused,
         AcceptFile, AcceptSuccess, ServerExits, ServerDies, ServerRestarts,
         SendStarted, HandleDirectory, HandleFile, CrawlEnds, SendFinished,
         HashFile, StreamFile, LeaveOutRest, LeaveOut, NetworkDrops, EditFile
<1> QED
  BY <1>1, SourceAssumption DEF TypeInv, Fault

(* Every step keeps the types.                                             *)
LEMMA TypesStep == TypeInv /\ [Next]_vars => TypeInv'
<1> SUFFICES ASSUME TypeInv, [Next]_vars PROVE TypeInv'
  OBVIOUS
<1>1. CASE Next
  <2>1. NetworkTypes'
    BY <1>1, BacklogTypesStep, ResponsesTypesStep, StreamTypesStep DEF NetworkTypes, Streams
  <2> QED
    BY <1>1, <2>1, ServedTypesStep, TargetTypesStep, JobTypesStep, SessionTypesStep,
       ProcessTypesStep, TaskTypesStep, FaultsStep DEF TypeInv
<1>2. CASE UNCHANGED vars
  BY <1>2 DEF vars, served, target, jobs, session, offers, network, process, phase, tasks,
              TypeInv, ServedTypes, TargetTypes, JobTypes, SessionTypes, NetworkTypes,
              ProcessTypes, TaskTypes
<1> QED
  BY <1>1, <1>2

-------------------------------------------------------------------------------
(* Sessions: who is connected to whom, and in which order they speak.      *)

(* The session invariant holds at the beginning.                           *)
LEMMA SessionInit == Init => SessionInv
BY DEF Init, SessionInv, ClientMatchesMain, NoTasks, JobRequestsComeLast, ManagerWorksInOrder,
       StartedFirst, FinishedLast

(* The request that the server takes from a living client for its job is   *)
(* the last one in the backlog, and the client waits for the answer.       *)
LEMMA AcceptedClient ==
  ASSUME TypeInv, JobRequestsComeLast, NEW req \in {"start", "continue"}, Accept(req)
  PROVE  /\ main \in {"none", "waiting"}
         /\ req = "start" => ~known
         /\ HasClient => main = "waiting" /\ client = "reading" /\ backlog' = <<>>
         /\ HasClient <=> backlog[1].state = "sent"
<1>1. /\ Shifts(backlog, backlog') /\ backlog[1].req = req /\ Head(backlog) = backlog[1]
      /\ 1 \in DOMAIN backlog
  BY AcceptShifts DEF Shifts
<1>2. HasClient <=> backlog[1].state = "sent"
  BY <1>1 DEF HasClient
<1>3. HasClient => Len(backlog) = 1
  BY <1>1, <1>2 DEF JobRequestsComeLast, OpensJob, Live
<1> QED
  BY <1>1, <1>2, <1>3 DEF JobRequestsComeLast, OpensJob, Live, Shifts

(* What a client reads first is Started, and it knows its job's id after.  *)
LEMMA ReadingClient ==
  ASSUME TypeInv, SessionInv, NEW msg, Read(msg)
  PROVE  /\ main \in {"open", "broken"} /\ client = "reading"
         /\ msg = Started <=> ~jobId
         /\ responses # <<>>
<1>1. Shifts(responses, responses') /\ responses[1] = msg /\ client = "reading"
  BY ReadShifts
<1>2. responses # <<>> /\ 1 \in DOMAIN responses
  BY <1>1 DEF Shifts
<1>3. main \in {"open", "broken"}
  BY <1>2 DEF SessionInv, ClientMatchesMain, TypeInv, NetworkTypes
<1> QED
  BY <1>1, <1>2, <1>3 DEF SessionInv, StartedFirst

(* A connection is open, or has been, as long as there are tasks.          *)
LEMMA ClientMatchesMainStep == TypeInv /\ SessionInv /\ Next => ClientMatchesMain'
<1> SUFFICES ASSUME TypeInv, SessionInv, Next PROVE ClientMatchesMain'
  OBVIOUS
<1>0. ClientMatchesMain
  BY DEF SessionInv
<1> USE DEF ClientMatchesMain, NoTasks, process, phase
<1>1. CASE StartClient
  BY <1>0, <1>1 DEF StartClient, tasks
<1>2. CASE SendFirstRequest
  BY <1>0, <1>2 DEF SendFirstRequest, tasks
<1>3. ASSUME ProcessEnds, UNCHANGED <<jobId, known>> PROVE ClientMatchesMain'
  BY <1>0, <1>3 DEF ProcessEnds
<1>4. CASE FirstRequestFails \/ ExitFinished \/ ExitAborted
  BY <1>3, <1>4 DEF FirstRequestFails, ExitFinished, ExitAborted
<1>5. ASSUME NEW signal \in {"SIGINT", "other"}, ClientDies(signal) PROVE ClientMatchesMain'
  BY <1>3, <1>5 DEF ClientDies
<1>6. CASE ReadStarted
  <2>1. main \in {"open", "broken"} /\ client = "reading"
    BY <1>6, ReadingClient DEF ReadStarted
  <2> QED
    BY <1>6, <2>1 DEF ReadStarted, tasks
<1>7. CASE ReadFinished
  <2>1. main \in {"open", "broken"} /\ client = "reading"
    BY <1>7, ReadingClient DEF ReadFinished
  <2> QED
    BY <1>0, <1>7, <2>1 DEF ReadFinished, tasks
<1>8. CASE ReadFails
  BY <1>0, <1>8 DEF ReadFails, network, tasks
<1>9. ASSUME NEW d \in Dirs, ReadDirectory(d) PROVE ClientMatchesMain'
  <2>1. main \in {"open", "broken"} /\ client = "reading" /\ jobId
    BY <1>9, ReadingClient, MessageFacts DEF ReadDirectory
  <2> QED
    BY <1>0, <1>9, <2>1 DEF ReadDirectory, process, phase
<1>10. ASSUME NEW f \in Files, ReadFile(f) PROVE ClientMatchesMain'
  <2>1. main \in {"open", "broken"} /\ client = "reading" /\ jobId
    BY <1>10, ReadingClient, MessageFacts DEF ReadFile
  <2> QED
    BY <1>0, <1>10, <2>1 DEF ReadFile, process, phase
<1>11. ASSUME NEW f \in Files,
              StreamConnect(f) \/ StreamRequest(f) \/ StreamBlock(f) \/ StreamEnds(f) \/ Verify(f)
              \/ ReportConnect(f) \/ ReportSend(f) \/ TaskFails(f)
       PROVE  ClientMatchesMain'
  <2>1. task[f] # "none" /\ UNCHANGED <<main, responses, phase>>
    BY <1>11 DEF StreamConnect, StreamRequest, StreamBlock, StreamEnds, Verify, ReportConnect,
                 ReportSend, TaskFails, network
  <2>2. main \notin {"none", "waiting"} /\ jobId
    BY <1>0, <2>1
  <2> QED
    BY <1>0, <2>1, <2>2 DEF process, phase
<1>12. ASSUME NEW msg \in Messages, Respond(msg), UNCHANGED <<main, phase, tasks>>
       PROVE  ClientMatchesMain'
  BY <1>0, <1>12, RespondGrows DEF process, phase, tasks
<1>13. CASE SendStarted \/ SendFinished
  BY <1>12, <1>13, MessageFacts DEF SendStarted, SendFinished
<1>14. ASSUME NEW d \in Dirs, HandleDirectory(d) PROVE ClientMatchesMain'
  <2>1. UNCHANGED <<main, phase, tasks>>
    BY <1>14 DEF HandleDirectory
  <2>2. UNCHANGED responses \/ Respond(Object(d, NoPull))
    BY <1>14 DEF HandleDirectory
  <2> QED
    BY <1>0, <1>12, <2>1, <2>2, MessageFacts DEF process, phase, tasks
<1>15. ASSUME NEW f \in Files, HashFile(f) PROVE ClientMatchesMain'
  <2>1. UNCHANGED <<main, phase, tasks>>
    BY <1>15 DEF HashFile
  <2>2. Object(f, [bytes |-> bytes[f], sha256 |-> src[f]]) \in Messages
    BY <1>15, MessageFacts DEF HashFile, TypeInv, ServedTypes, SessionTypes
  <2>3. UNCHANGED responses \/ Respond(Object(f, [bytes |-> bytes[f], sha256 |-> src[f]]))
    BY <1>15 DEF HashFile
  <2> QED
    BY <1>0, <1>12, <2>1, <2>2, <2>3 DEF process, phase, tasks
<1>16. CASE AcceptStart \/ AcceptContinue \/ AcceptRefused
  <2>1. PICK req \in {"start", "continue"} : Accept(req)
    BY <1>16 DEF AcceptStart, AcceptContinue, AcceptRefused
  <2>2. HasClient => main = "waiting" /\ client = "reading"
    BY <2>1, AcceptedClient DEF SessionInv
  <2>3. /\ main' = main \/ (HasClient /\ main' \in {"open", "broken"})
        /\ UNCHANGED <<responses, phase, tasks>>
    BY <1>16 DEF AcceptStart, AcceptContinue, AcceptRefused, StartManager
  <2> QED
    BY <1>0, <2>2, <2>3 DEF process, phase, tasks
<1>17. ASSUME main' = main \/ (main \in {"waiting", "open"} /\ main' = "broken"),
              responses' = responses \/ responses' = <<>>,
              UNCHANGED <<phase, tasks>>
       PROVE  ClientMatchesMain'
  BY <1>0, <1>17 DEF process, phase, tasks
<1>18. CASE ServerExits \/ ServerDies
  <2>1. CutMain /\ UNCHANGED <<phase, tasks>>
    BY <1>18 DEF ServerExits, ServerDies, ServerProcessEnds
  <2> QED
    BY <1>17, <2>1 DEF CutMain
<1>19. CASE NetworkDrops
  BY <1>17, <1>19 DEF NetworkDrops
<1>20. CASE UNCHANGED <<main, responses, phase, tasks>>
  BY <1>0, <1>20 DEF process, phase, tasks
<1> QED
  BY <1>1, <1>2, <1>4, <1>5, <1>6, <1>7, <1>8, <1>9, <1>10, <1>11, <1>13, <1>14, <1>15, <1>16,
     <1>18, <1>19, <1>20, ResponsesFrame, ProcessFrame, TasksFrame

(* While a client has a connection that is, or was, open, no request for a *)
(* job is in the backlog.                                                  *)
LEMMA NoJobRequests ==
  ASSUME SessionInv, main \in {"open", "broken"}
  PROVE  \A i \in DOMAIN backlog : ~OpensJob(backlog[i])
BY DEF SessionInv, JobRequestsComeLast

(* A client with tasks has such a connection.                              *)
LEMMA TasksHaveMain ==
  ASSUME TypeInv, SessionInv, NEW f \in Files, task[f] # "none"
  PROVE  main \in {"open", "broken"} /\ jobId /\ known
BY DEF SessionInv, ClientMatchesMain, NoTasks, TypeInv, NetworkTypes

(* Requests for a job keep to their place in the backlog.                  *)
LEMMA JobRequestsComeLastStep == TypeInv /\ SessionInv /\ Next => JobRequestsComeLast'
<1> SUFFICES ASSUME TypeInv, SessionInv, Next PROVE JobRequestsComeLast'
  OBVIOUS
<1>0. JobRequestsComeLast /\ ClientMatchesMain
  BY DEF SessionInv
<1>1. CASE StartClient
  <2>1. main = "none" /\ client' = "connected" /\ main' = "waiting" /\ known' = known
    BY <1>0, <1>1 DEF StartClient, ClientMatchesMain
  <2> DEFINE first == IF known THEN "continue" ELSE "start"
  <2>2. Grows(backlog, backlog', Connection(first, Root))
    BY <1>1, ConnectGrows DEF StartClient
  <2>3. \A i \in DOMAIN backlog : OpensJob(backlog[i]) =>
          ~Live(backlog[i]) /\ (backlog[i].req = "start" => ~known)
    BY <1>0, <2>1 DEF JobRequestsComeLast
  <2> QED
    BY <2>1, <2>2, <2>3 DEF JobRequestsComeLast, Grows, Connection
<1>2. CASE SendFirstRequest
  <2>1. PICK req \in {"start", "continue"} : SendRequest(req, Root)
    BY <1>2 DEF SendFirstRequest
  <2>2. client' = "reading" /\ main' = main /\ known' = known
    BY <1>2 DEF SendFirstRequest
  <2>3. PICK i \in DOMAIN backlog : SentAt(i, req, Root)
    BY <2>1, SendRestates
  <2>4. Restated(backlog, backlog')
    BY <2>1, SendRestates
  <2>5. OpensJob(backlog[i]) /\ Live(backlog[i])
    BY <2>3 DEF OpensJob, Live, SentAt
  <2> QED
    BY <1>0, <2>2, <2>3, <2>4, <2>5 DEF JobRequestsComeLast, Restated, OpensJob, Live, SentAt
<1>3. ASSUME main \in {"open", "broken"},
             \A i \in DOMAIN backlog' : ~OpensJob(backlog'[i])
      PROVE  JobRequestsComeLast'
  BY <1>3 DEF JobRequestsComeLast
<1>4. CASE FirstRequestFails \/ ExitFinished \/ ExitAborted \/ ReadFails
  <2>1. main \in {"open", "broken"} /\ backlog' = backlog
    BY <1>0, <1>4 DEF FirstRequestFails, ExitFinished, ExitAborted, ReadFails, network,
                      ClientMatchesMain, TypeInv, NetworkTypes
  <2> QED
    BY <1>3, <2>1, NoJobRequests
<1>5. CASE ReadStarted \/ ReadFinished
  <2>1. main \in {"open", "broken"} /\ backlog' = backlog
    BY <1>5, ReadingClient DEF ReadStarted, ReadFinished
  <2> QED
    BY <1>3, <2>1, NoJobRequests
<1>6. ASSUME NEW signal \in {"SIGINT", "other"}, ClientDies(signal)
      PROVE  JobRequestsComeLast'
  <2>1. main' = "none" /\ known' = known
    BY <1>6 DEF ClientDies, ProcessEnds
  <2>2. /\ Restated(backlog, backlog')
        /\ \A i \in DOMAIN backlog : OpensJob(backlog[i]) => ~Live(backlog'[i])
    BY <1>6, DeathRestates
  <2> QED
    BY <1>0, <2>1, <2>2 DEF JobRequestsComeLast, Restated, OpensJob
<1>7. ASSUME NEW f \in Files, StreamConnect(f) \/ ReportConnect(f)
      PROVE  JobRequestsComeLast'
  <2>1. task[f] # "none"
    BY <1>7 DEF StreamConnect, ReportConnect
  <2>2. \/ backlog' = backlog
        \/ \E req \in {"file", "success"} : Grows(backlog, backlog', Connection(req, f))
    BY <1>7, ConnectGrows DEF StreamConnect, ReportConnect
  <2> QED
    BY <1>3, <2>1, <2>2, TasksHaveMain, NoJobRequests DEF Grows, Connection, OpensJob
<1>8. ASSUME NEW f \in Files, StreamRequest(f) \/ ReportSend(f) \/ TaskFails(f)
      PROVE  JobRequestsComeLast'
  <2>1. task[f] # "none"
    BY <1>8 DEF StreamRequest, ReportSend, TaskFails
  <2>2. backlog' = backlog \/ Restated(backlog, backlog')
    BY <1>8, SendRestates, FailureRestates DEF StreamRequest, ReportSend
  <2> QED
    BY <1>3, <2>1, <2>2, TasksHaveMain, NoJobRequests DEF Restated, OpensJob
<1>9. ASSUME NEW req, Accept(req), UNCHANGED <<main, known, client>>
      PROVE  JobRequestsComeLast'
  <2>1. Shifts(backlog, backlog')
    BY <1>9, AcceptShifts
  <2> QED
    BY <1>0, <1>9, <2>1 DEF JobRequestsComeLast, Shifts
<1>10. ASSUME NEW f \in Files, AcceptFile(f) \/ AcceptSuccess(f)
       PROVE  JobRequestsComeLast'
  BY <1>9, <1>10 DEF AcceptFile, AcceptSuccess, process, phase
<1>11. ASSUME backlog' = <<>> PROVE JobRequestsComeLast'
  BY <1>11 DEF JobRequestsComeLast
<1>12. CASE AcceptStart \/ AcceptContinue \/ AcceptRefused
  <2>1. PICK req \in {"start", "continue"} : Accept(req)
    BY <1>12 DEF AcceptStart, AcceptContinue, AcceptRefused
  <2>2. HasClient => backlog' = <<>>
    BY <1>0, <2>1, AcceptedClient
  <2>3. ~HasClient => UNCHANGED <<main, known, client>>
    BY <1>12 DEF AcceptStart, AcceptContinue, AcceptRefused, StartManager, process, phase
  <2> QED
    BY <1>9, <1>11, <2>1, <2>2, <2>3
<1>13. CASE ServerExits \/ ServerDies
  BY <1>11, <1>13 DEF ServerExits, ServerDies, ServerProcessEnds
<1>14. CASE NetworkDrops
  <2>1. /\ main = "open" \/ main' = main
        /\ UNCHANGED <<backlog, known, client>>
    BY <1>14 DEF NetworkDrops, process, phase
  <2> QED
    BY <1>0, <1>3, <2>1, NoJobRequests DEF JobRequestsComeLast
<1>15. CASE UNCHANGED <<backlog, main, phase>>
  BY <1>0, <1>15 DEF JobRequestsComeLast, process, phase
<1> QED
  BY <1>1, <1>2, <1>4, <1>5, <1>6, <1>7, <1>8, <1>10, <1>12, <1>13, <1>14, <1>15,
     BacklogFrame, MainFrame, ProcessFrame

(* The digest of a file is announced to the client, or to nobody.          *)
LEMMA HashResponds ==
  ASSUME TypeInv, NEW f \in Files, HashFile(f)
  PROVE  \E p \in [bytes : Lengths, sha256 : Contents] :
           \/ UNCHANGED responses
           \/ main = "open" /\ Grows(responses, responses', Object(f, p))
<1> DEFINE q == [bytes |-> bytes[f], sha256 |-> src[f]]
<1>1. q \in [bytes : Lengths, sha256 : Contents]
  BY DEF HashFile, TypeInv, ServedTypes, SessionTypes
<1>2. Object(f, q) \in Messages
  BY <1>1, MessageFacts
<1>3. UNCHANGED responses \/ Respond(Object(f, q))
  BY DEF HashFile
<1> HIDE DEF q
<1> QED
  BY <1>1, <1>2, <1>3, RespondGrows

(* A directory is announced as soon as it is handled: none is completed.   *)
LEMMA DirectoryResponds ==
  ASSUME TypeInv, NEW d \in Dirs, HandleDirectory(d)
  PROVE  IF main = "open" THEN Grows(responses, responses', Object(d, NoPull))
                          ELSE UNCHANGED responses
<1>1. Respond(Object(d, NoPull))
  BY TreeAssumption DEF HandleDirectory, TypeInv, JobTypes
<1> QED
  BY <1>1, RespondGrows, MessageFacts

(* Started and Finished go to the client, or to nobody.                    *)
LEMMA FrameResponds ==
  ASSUME TypeInv, NEW msg \in {Started, Finished}, Respond(msg)
  PROVE  IF main = "open" THEN Grows(responses, responses', msg) ELSE UNCHANGED responses
BY RespondGrows, MessageFacts

(* A cut leaves the connection not open, and what was to be read or none   *)
(* of it.                                                                  *)
LEMMA CutFacts ==
  ASSUME TypeInv, CutMain \/ NetworkDrops
  PROVE  /\ main' # "open" /\ main' \in {main, "broken"}
         /\ responses' = responses \/ responses' = <<>>
BY DEF CutMain, NetworkDrops

(* The crawler works from the root down, and ends when it is through.      *)
LEMMA ManagerWorksInOrderStep == TypeInv /\ SessionInv /\ Next => ManagerWorksInOrder'
<1> SUFFICES ASSUME TypeInv, SessionInv, Next PROVE ManagerWorksInOrder'
  OBVIOUS
<1>0. ManagerWorksInOrder
  BY DEF SessionInv
<1> USE DEF ManagerWorksInOrder, LeftOut
<1>1. CASE AcceptStart \/ AcceptContinue
  <2>1. StartManager
    BY <1>1 DEF AcceptStart, AcceptContinue
  <2> QED
    BY <2>1 DEF StartManager
<1>2. CASE ServerExits \/ ServerDies
  BY <1>0, <1>2 DEF ServerExits, ServerDies, ServerProcessEnds
<1>3. CASE SendStarted \/ CrawlEnds \/ SendFinished
  BY <1>0, <1>3 DEF SendStarted, CrawlEnds, SendFinished, Unvisited
<1>4. ASSUME NEW d \in Dirs, HandleDirectory(d) PROVE ManagerWorksInOrder'
  BY <1>0, <1>4 DEF HandleDirectory, Unvisited
<1>5. ASSUME NEW f \in Files, HandleFile(f) PROVE ManagerWorksInOrder'
  BY <1>0, <1>5 DEF HandleFile, Unvisited
<1>6. ASSUME NEW f \in Files, HashFile(f) PROVE ManagerWorksInOrder'
  BY <1>0, <1>6 DEF HashFile
<1>7. ASSUME NEW f \in Files, AcceptFile(f) \/ StreamFile(f) PROVE ManagerWorksInOrder'
  BY <1>0, <1>7 DEF AcceptFile, StreamFile, session
<1>8. CASE UNCHANGED <<session, offers>>
  BY <1>0, <1>8 DEF session
<1>9. CASE LeavingOut
  BY <1>0, <1>9, LeavingOutFacts
<1> QED
  BY <1>1, <1>2, <1>3, <1>4, <1>5, <1>6, <1>7, <1>8, <1>9, SessionFrame

(* Started opens the conversation.                                         *)
LEMMA StartedFirstStep == TypeInv /\ SessionInv /\ Next => StartedFirst'
<1> SUFFICES ASSUME TypeInv, SessionInv, Next PROVE StartedFirst'
  OBVIOUS
<1>0. StartedFirst /\ ClientMatchesMain /\ ManagerWorksInOrder
  BY DEF SessionInv
<1>1. ASSUME responses' = <<>>, main' # "open" PROVE StartedFirst'
  BY <1>1 DEF StartedFirst
<1>2. CASE StartClient
  BY <1>0, <1>1, <1>2 DEF StartClient, ClientMatchesMain
<1>3. CASE FirstRequestFails \/ ExitFinished \/ ExitAborted
  BY <1>1, <1>3 DEF FirstRequestFails, ExitFinished, ExitAborted, ProcessEnds
<1>4. ASSUME NEW signal \in {"SIGINT", "other"}, ClientDies(signal) PROVE StartedFirst'
  BY <1>1, <1>4 DEF ClientDies, ProcessEnds
<1>5. ASSUME NEW msg, Read(msg), jobId', UNCHANGED <<main, manager>> PROVE StartedFirst'
  <2>1. Shifts(responses, responses') /\ responses # <<>>
    BY <1>5, ReadShifts, ReadingClient
  <2>2. \A i \in DOMAIN responses' : responses'[i] # Started
    BY <1>0, <2>1 DEF StartedFirst, Shifts
  <2> QED
    BY <1>0, <1>5, <2>1, <2>2 DEF StartedFirst
<1>6. CASE ReadStarted
  BY <1>5, <1>6 DEF ReadStarted, session
<1>7. CASE ReadFinished
  BY <1>5, <1>7, ReadingClient, MessageFacts DEF ReadFinished, session
<1>8. ASSUME NEW d \in Dirs, ReadDirectory(d) PROVE StartedFirst'
  <2>1. Read(Object(d, NoPull)) /\ UNCHANGED <<main, jobId, manager>>
    BY <1>8 DEF ReadDirectory, process, phase, session
  <2> QED
    BY <1>5, <2>1, ReadingClient, MessageFacts
<1>9. ASSUME NEW f \in Files, ReadFile(f) PROVE StartedFirst'
  <2>1. Read(Object(f, Head(responses).pull)) /\ UNCHANGED <<main, jobId, manager>>
    BY <1>9 DEF ReadFile, process, phase, session
  <2> QED
    BY <1>5, <2>1, ReadingClient, MessageFacts
<1>10. CASE SendStarted
  <2>1. IF main = "open" THEN Grows(responses, responses', Started) ELSE UNCHANGED responses
    BY <1>10, FrameResponds DEF SendStarted
  <2>2. main = "open" => responses = <<>> /\ ~jobId
    BY <1>0, <1>10 DEF SendStarted, StartedFirst
  <2>3. UNCHANGED <<main, jobId>> /\ manager' # "starting"
    BY <1>10 DEF SendStarted, process, phase
  <2>4. CASE main = "open"
    <3>1. Len(responses') = 1 /\ responses'[1] = Started /\ DOMAIN responses' = 1 .. 1
      BY <2>1, <2>2, <2>4 DEF Grows
    <3> QED
      BY <2>2, <2>3, <2>4, <3>1 DEF StartedFirst
  <2> QED
    BY <1>0, <2>1, <2>3, <2>4 DEF StartedFirst
<1>11. ASSUME NEW msg, msg # Started, manager # "starting", manager' # "starting",
              UNCHANGED responses \/ (main = "open" /\ Grows(responses, responses', msg)),
              UNCHANGED <<main, jobId>>
       PROVE  StartedFirst'
  <2>1. CASE UNCHANGED responses
    BY <1>0, <1>11, <2>1 DEF StartedFirst
  <2>2. CASE main = "open" /\ Grows(responses, responses', msg)
    <3>1. \A i \in DOMAIN responses' : responses'[i] = Started => i \in DOMAIN responses
      BY <1>11, <2>2 DEF Grows
    <3>2. ~jobId => 1 \in DOMAIN responses
      BY <1>0, <1>11, <2>2 DEF StartedFirst, Grows
    <3> QED
      BY <1>0, <1>11, <2>2, <3>1, <3>2 DEF StartedFirst, Grows
  <2> QED
    BY <1>11, <2>1, <2>2
<1>12. CASE SendFinished
  BY <1>11, <1>12, FrameResponds, MessageFacts DEF SendFinished, process, phase
<1>13. ASSUME NEW d \in Dirs, HandleDirectory(d) PROVE StartedFirst'
  <2>1. manager = "crawl" /\ UNCHANGED <<main, jobId, manager>>
    BY <1>13 DEF HandleDirectory, Unvisited, process, phase
  <2> QED
    BY <1>11, <1>13, <2>1, DirectoryResponds, MessageFacts
<1>14. ASSUME NEW f \in Files, HashFile(f) PROVE StartedFirst'
  <2>1. manager # "starting" /\ UNCHANGED <<main, jobId, manager>>
    BY <1>0, <1>14 DEF HashFile, ManagerWorksInOrder, process, phase
  <2> QED
    BY <1>11, <1>14, <2>1, HashResponds, MessageFacts
<1>15. CASE CrawlEnds
  BY <1>11, <1>15, MessageFacts DEF CrawlEnds, network, process, phase
<1>16. ASSUME UNCHANGED <<responses, main, jobId, manager>> PROVE StartedFirst'
  BY <1>0, <1>16 DEF StartedFirst
<1>17. CASE AcceptStart \/ AcceptContinue \/ AcceptRefused
  <2>1. PICK req \in {"start", "continue"} : Accept(req)
    BY <1>17 DEF AcceptStart, AcceptContinue, AcceptRefused
  <2>2. main \in {"none", "waiting"} /\ (HasClient => main = "waiting")
    BY <2>1, AcceptedClient DEF SessionInv
  <2>3. responses = <<>> /\ responses' = responses /\ jobId' = jobId
    BY <1>0, <1>17, <2>2 DEF AcceptStart, AcceptContinue, AcceptRefused, ClientMatchesMain,
                             process, phase
  <2>4. main' = "open" => manager' = "starting" /\ ~jobId
    BY <1>0, <1>17, <2>2 DEF AcceptStart, AcceptContinue, AcceptRefused, StartManager,
                             ClientMatchesMain
  <2> QED
    BY <2>3, <2>4 DEF StartedFirst
<1>18. CASE ServerExits \/ ServerDies \/ NetworkDrops
  <2>1. (CutMain \/ NetworkDrops) /\ jobId' = jobId
    BY <1>18 DEF ServerExits, ServerDies, ServerProcessEnds, NetworkDrops, process, phase
  <2> QED
    BY <1>0, <2>1, CutFacts DEF StartedFirst
<1>19. ASSUME NEW f \in Files, HandleFile(f) \/ AcceptFile(f) \/ StreamFile(f)
       PROVE  StartedFirst'
  BY <1>16, <1>19 DEF HandleFile, AcceptFile, StreamFile, session, network, process, phase
<1>20. CASE SendFirstRequest \/ ReadFails
  BY <1>16, <1>20 DEF SendFirstRequest, ReadFails, session, network
<1>21. CASE UNCHANGED <<session, offers, main, responses, phase>>
  BY <1>16, <1>21 DEF session, process, phase
<1>22. CASE LeavingOut
  BY <1>16, <1>22, LeavingOutFacts DEF network, process, phase
<1> QED
  BY <1>2, <1>3, <1>4, <1>6, <1>7, <1>8, <1>9, <1>10, <1>12, <1>13, <1>14, <1>15, <1>17, <1>18,
     <1>19, <1>20, <1>21, <1>22, SessionFrame, ResponsesFrame, ProcessFrame

(* Finished ends the conversation.                                         *)
LEMMA FinishedLastStep == TypeInv /\ SessionInv /\ Next => FinishedLast'
<1> SUFFICES ASSUME TypeInv, SessionInv, Next PROVE FinishedLast'
  OBVIOUS
<1>0. FinishedLast /\ ClientMatchesMain /\ ManagerWorksInOrder
  BY DEF SessionInv
<1>1. ASSUME responses' = <<>>, client' # "draining" PROVE FinishedLast'
  BY <1>1 DEF FinishedLast
<1>2. CASE StartClient
  BY <1>0, <1>1, <1>2 DEF StartClient, ClientMatchesMain
<1>3. CASE FirstRequestFails \/ ExitFinished \/ ExitAborted
  BY <1>1, <1>3 DEF FirstRequestFails, ExitFinished, ExitAborted, ProcessEnds
<1>4. ASSUME NEW signal \in {"SIGINT", "other"}, ClientDies(signal) PROVE FinishedLast'
  BY <1>1, <1>4 DEF ClientDies, ProcessEnds
<1>5. ASSUME NEW msg, Read(msg), msg # Finished, UNCHANGED <<main, client, manager, hashing>>
      PROVE  FinishedLast'
  <2>1. Shifts(responses, responses') /\ client = "reading"
    BY <1>5, ReadShifts
  <2> QED
    BY <1>0, <1>5, <2>1 DEF FinishedLast, Shifts
<1>6. CASE ReadStarted
  BY <1>5, <1>6, MessageFacts DEF ReadStarted, session
<1>7. CASE ReadFinished
  <2>1. Shifts(responses, responses') /\ responses[1] = Finished
    BY <1>7, ReadShifts DEF ReadFinished
  <2>2. responses' = <<>> /\ manager = "idle" /\ hashing = {}
    BY <1>0, <2>1 DEF FinishedLast, Shifts
  <2> QED
    BY <1>7, <2>2 DEF ReadFinished, session, FinishedLast
<1>8. ASSUME NEW d \in Dirs, ReadDirectory(d) PROVE FinishedLast'
  <2>1. Read(Object(d, NoPull)) /\ UNCHANGED <<main, client, manager, hashing>>
    BY <1>8 DEF ReadDirectory, process, phase, session
  <2> QED
    BY <1>5, <2>1, MessageFacts
<1>9. ASSUME NEW f \in Files, ReadFile(f) PROVE FinishedLast'
  <2>1. Read(Object(f, Head(responses).pull)) /\ UNCHANGED <<main, client, manager, hashing>>
    BY <1>9 DEF ReadFile, process, phase, session
  <2> QED
    BY <1>5, <2>1, MessageFacts
<1>10. ASSUME NEW msg, msg # Finished, manager # "idle" \/ hashing # {},
              UNCHANGED responses \/ (main = "open" /\ Grows(responses, responses', msg)),
              UNCHANGED <<main, client>>
       PROVE  FinishedLast'
  <2>1. \A i \in DOMAIN responses : responses[i] # Finished
    BY <1>0, <1>10 DEF FinishedLast
  <2>2. main = "open" => client # "draining"
    BY <1>0, <1>10 DEF FinishedLast
  <2>3. \A i \in DOMAIN responses' : responses'[i] # Finished
    BY <1>10, <2>1 DEF Grows
  <2> QED
    BY <1>0, <1>10, <2>2, <2>3 DEF FinishedLast
<1>11. CASE SendStarted
  BY <1>10, <1>11, FrameResponds, MessageFacts DEF SendStarted, process, phase
<1>12. CASE SendFinished
  <2>1. /\ IF main = "open" THEN Grows(responses, responses', Finished) ELSE UNCHANGED responses
        /\ manager # "idle" /\ manager' = "idle" /\ hashing' = {}
        /\ UNCHANGED <<main, client>>
    BY <1>12, FrameResponds DEF SendFinished, process, phase
  <2>2. \A i \in DOMAIN responses : responses[i] # Finished
    BY <1>0, <2>1 DEF FinishedLast
  <2> QED
    BY <1>0, <2>1, <2>2 DEF FinishedLast, Grows
<1>13. ASSUME NEW d \in Dirs, HandleDirectory(d) PROVE FinishedLast'
  <2>1. manager = "crawl" /\ UNCHANGED <<main, client>>
    BY <1>13 DEF HandleDirectory, Unvisited, process, phase
  <2> QED
    BY <1>10, <1>13, <2>1, DirectoryResponds, MessageFacts
<1>14. ASSUME NEW f \in Files, HashFile(f) PROVE FinishedLast'
  <2>1. hashing # {} /\ UNCHANGED <<main, client>>
    BY <1>14 DEF HashFile, process, phase
  <2> QED
    BY <1>10, <1>14, <2>1, HashResponds, MessageFacts
<1>15. ASSUME NEW f \in Files, HandleFile(f) PROVE FinishedLast'
  BY <1>10, <1>15, MessageFacts DEF HandleFile, Unvisited, network, process, phase
<1>16. CASE CrawlEnds
  BY <1>10, <1>16, MessageFacts DEF CrawlEnds, network, process, phase
<1>17. CASE AcceptStart \/ AcceptContinue \/ AcceptRefused
  <2>1. PICK req \in {"start", "continue"} : Accept(req)
    BY <1>17 DEF AcceptStart, AcceptContinue, AcceptRefused
  <2>2. main \in {"none", "waiting"}
    BY <2>1, AcceptedClient DEF SessionInv
  <2>3. responses = <<>> /\ client # "draining" /\ UNCHANGED <<responses, client>>
    BY <1>0, <1>17, <2>2 DEF AcceptStart, AcceptContinue, AcceptRefused, ClientMatchesMain,
                             process, phase
  <2> QED
    BY <1>1, <2>3
<1>18. CASE ServerExits \/ ServerDies
  <2>1. CutMain /\ client' = client /\ manager' = "idle" /\ hashing' = {}
    BY <1>18 DEF ServerExits, ServerDies, ServerProcessEnds, process, phase
  <2> QED
    BY <1>0, <2>1, CutFacts DEF FinishedLast
<1>19. CASE NetworkDrops
  <2>1. UNCHANGED <<client, manager, hashing>>
    BY <1>19 DEF NetworkDrops, session, process, phase
  <2> QED
    BY <1>0, <1>19, <2>1, CutFacts DEF FinishedLast
<1>20. CASE SendFirstRequest \/ ReadFails
  BY <1>0, <1>20 DEF SendFirstRequest, ReadFails, session, network, FinishedLast
<1>21. ASSUME UNCHANGED <<responses, main, client, manager, hashing>> PROVE FinishedLast'
  BY <1>0, <1>21 DEF FinishedLast
<1>22. ASSUME NEW f \in Files, AcceptFile(f) \/ StreamFile(f) PROVE FinishedLast'
  BY <1>21, <1>22 DEF AcceptFile, StreamFile, session, process, phase
<1>23. CASE UNCHANGED <<session, offers, main, responses, phase>>
  BY <1>21, <1>23 DEF session, process, phase
<1>24. CASE LeavingOut
  BY <1>21, <1>24, LeavingOutFacts DEF network, process, phase
<1> QED
  BY <1>2, <1>3, <1>4, <1>6, <1>7, <1>8, <1>9, <1>11, <1>12, <1>13, <1>14, <1>15, <1>16, <1>17,
     <1>18, <1>19, <1>20, <1>22, <1>23, <1>24, SessionFrame, ResponsesFrame, ProcessFrame

(* Every step keeps the session invariant.                                 *)
LEMMA SessionStep == TypeInv /\ SessionInv /\ [Next]_vars => SessionInv'
<1> SUFFICES ASSUME TypeInv, SessionInv, [Next]_vars PROVE SessionInv'
  OBVIOUS
<1>1. CASE Next
  BY <1>1, ClientMatchesMainStep, JobRequestsComeLastStep, ManagerWorksInOrderStep,
     StartedFirstStep, FinishedLastStep DEF SessionInv
<1>2. CASE UNCHANGED vars
  BY <1>2 DEF vars, session, network, process, phase, tasks, SessionInv, ClientMatchesMain, NoTasks,
              JobRequestsComeLast, ManagerWorksInOrder, LeftOut, StartedFirst, FinishedLast
<1> QED
  BY <1>1, <1>2

-------------------------------------------------------------------------------
(* Entries are in one place at a time.                                     *)

(* Reading a response takes away what it announces, and nothing else.      *)
LEMMA AnnouncedAfterRead ==
  ASSUME TypeInv, NEW msg, Read(msg)
  PROVE  \A e : /\ Announced(e)' => Announced(e)
                /\ Announced(e) => Announced(e)' \/ Announces(msg, e)
<1>1. Shifts(responses, responses') /\ responses[1] = msg
  BY ReadShifts
<1> QED
  BY <1>1 DEF Shifts, Announced

(* A response adds what it announces, and nothing else.                    *)
LEMMA AnnouncedAfterResponse ==
  ASSUME NEW msg, Grows(responses, responses', msg)
  PROVE  \A e : Announced(e)' <=> Announced(e) \/ Announces(msg, e)
BY DEF Grows, Announced

(* An empty connection announces nothing.                                  *)
LEMMA NothingAnnounced ==
  ASSUME responses' = <<>>
  PROVE  \A e : ~Announced(e)'
BY DEF Announced

(* The same responses announce the same.                                   *)
LEMMA SameAnnounced ==
  ASSUME UNCHANGED responses
  PROVE  \A e : Announced(e)' <=> Announced(e)
BY DEF Announced

(* The steps that a task takes once it has begun.                          *)
TaskSteps(f) ==
  \/ StreamConnect(f) \/ StreamRequest(f) \/ StreamBlock(f) \/ StreamEnds(f) \/ Verify(f)
  \/ ReportConnect(f) \/ ReportSend(f) \/ TaskFails(f)

(* A task's steps are its own: they are no other file's, and no response's.*)
LEMMA TaskStepFacts ==
  ASSUME TypeInv, NEW f \in Files, TaskSteps(f)
  PROVE  /\ task[f] # "none" /\ task'[f] # "none"
         /\ \A g \in Files \ {f} : task'[g] = task[g]
         /\ UNCHANGED <<made, jobs, session, ready, main, responses, phase>>
<1>1. task[f] # "none" /\ UNCHANGED <<made, jobs, session, ready, main, responses, phase>>
  BY DEF TaskSteps, StreamConnect, StreamRequest, StreamBlock, StreamEnds, Verify, ReportConnect,
         ReportSend, TaskFails, network, target, offers, process, phase
<1>2. task' = task \/ \E t \in {"open", "streaming", "check", "verified", "reporting", "ended"} :
                        task' = [task EXCEPT ![f] = t]
  BY DEF TaskSteps, StreamConnect, StreamRequest, StreamBlock, StreamEnds, Verify, ReportConnect,
         ReportSend, TaskFails
<1> QED
  BY <1>1, <1>2 DEF TypeInv, TaskTypes

(* Entries are nowhere twice at the beginning.                             *)
LEMMA OnceInit == Init => OnceInv
BY DEF Init, OnceInv, AnnouncedOnce, Announced

(* Every step keeps each entry in one place.                               *)
LEMMA OnceStep == TypeInv /\ SessionInv /\ OnceInv /\ [Next]_vars => OnceInv'
<1> SUFFICES ASSUME TypeInv, SessionInv, OnceInv, [Next]_vars PROVE OnceInv'
  OBVIOUS
<1>1. ASSUME responses' = <<>>, \A f \in Files : task'[f] = "none" PROVE OnceInv'
  <2>1. AnnouncedOnce'
    BY <1>1 DEF AnnouncedOnce
  <2> QED
    BY <1>1, <2>1, NothingAnnounced DEF OnceInv, NoTaskYet
<1>2. CASE StartClient
  <2>1. responses' = <<>> /\ \A f \in Files : task'[f] = "none"
    BY <1>2 DEF StartClient, tasks, SessionInv, ClientMatchesMain, NoTasks
  <2> QED
    BY <1>1, <2>1
<1>3. CASE FirstRequestFails \/ ExitFinished \/ ExitAborted
  BY <1>1, <1>3 DEF FirstRequestFails, ExitFinished, ExitAborted, ProcessEnds
<1>4. ASSUME NEW signal \in {"SIGINT", "other"}, ClientDies(signal) PROVE OnceInv'
  BY <1>1, <1>4 DEF ClientDies, ProcessEnds
<1>5. ASSUME NEW msg, Read(msg) PROVE AnnouncedOnce'
  <2>1. Shifts(responses, responses')
    BY <1>5, ReadShifts
  <2> QED
    BY <2>1 DEF OnceInv, AnnouncedOnce, Shifts
<1>6. ASSUME NEW msg, Read(msg), UNCHANGED <<task, main, hashing, visited>> PROVE OnceInv'
  BY <1>5, <1>6, AnnouncedAfterRead DEF OnceInv, NoTaskYet
<1>7. CASE ReadStarted \/ ReadFinished
  BY <1>6, <1>7 DEF ReadStarted, ReadFinished, session, tasks
<1>8. ASSUME NEW d \in Dirs, ReadDirectory(d) PROVE OnceInv'
  BY <1>6, <1>8 DEF ReadDirectory, session
<1>9. ASSUME NEW f \in Files, ReadFile(f) PROVE OnceInv'
  <2>0. PICK msg : msg = Object(f, Head(responses).pull)
    OBVIOUS
  <2>1. Read(msg) /\ UNCHANGED <<main, hashing, visited>>
        /\ (UNCHANGED task \/ task' = [task EXCEPT ![f] = "queued"])
    BY <1>9, <2>0 DEF ReadFile, session
  <2>2. Shifts(responses, responses') /\ responses[1] = msg
    BY <2>1, ReadShifts
  <2>3. Announces(msg, f) /\ f \in Entries
    BY <2>0, MessageFacts DEF Announces, Entries
  <2>4. Announced(f) /\ ~Announced(f)'
    BY <2>2, <2>3 DEF Announced, Shifts, OnceInv, AnnouncedOnce
  <2>5. \A g \in Files \ {f} : task'[g] = task[g]
    BY <2>1 DEF TypeInv, TaskTypes
  <2>6. AnnouncedOnce'
    BY <1>5, <2>1
  <2>7. \A e : Announced(e)' => Announced(e)
    BY <2>1, AnnouncedAfterRead
  <2> QED
    BY <2>1, <2>4, <2>5, <2>6, <2>7 DEF OnceInv, NoTaskYet
<1>10. ASSUME NEW f \in Files, TaskSteps(f) PROVE OnceInv'
  <2>1. AnnouncedOnce'
    BY <1>10, TaskStepFacts DEF OnceInv, AnnouncedOnce
  <2>2. \A e : Announced(e)' <=> Announced(e)
    BY <1>10, TaskStepFacts, SameAnnounced
  <2>3. UNCHANGED <<hashing, visited, main>>
    BY <1>10, TaskStepFacts DEF session
  <2> QED
    BY <1>10, <2>1, <2>2, <2>3, TaskStepFacts DEF OnceInv, NoTaskYet
<1>11. ASSUME NEW msg, UNCHANGED responses \/ (main = "open" /\ Grows(responses, responses', msg)),
              \A e \in Entries : Announces(msg, e) => ~Announced(e)
       PROVE  AnnouncedOnce'
  <2>1. CASE UNCHANGED responses
    BY <2>1 DEF OnceInv, AnnouncedOnce
  <2>2. CASE Grows(responses, responses', msg)
    <3> SUFFICES ASSUME NEW i \in DOMAIN responses', NEW j \in DOMAIN responses', NEW e \in Entries,
                        Announces(responses'[i], e), Announces(responses'[j], e)
                 PROVE  i = j
      BY DEF AnnouncedOnce
    <3>1. CASE i \in DOMAIN responses /\ j \in DOMAIN responses
      BY <2>2, <3>1 DEF Grows, OnceInv, AnnouncedOnce
    <3>2. CASE i \in DOMAIN responses /\ j = Len(responses')
      BY <1>11, <2>2, <3>2 DEF Grows, Announced
    <3>3. CASE j \in DOMAIN responses /\ i = Len(responses')
      BY <1>11, <2>2, <3>3 DEF Grows, Announced
    <3> QED
      BY <2>2, <3>1, <3>2, <3>3 DEF Grows
  <2> QED
    BY <1>11, <2>1, <2>2
<1>12. CASE SendStarted \/ SendFinished
  <2>1. PICK msg \in {Started, Finished} : Respond(msg)
    BY <1>12 DEF SendStarted, SendFinished
  <2>2. IF main = "open" THEN Grows(responses, responses', msg) ELSE UNCHANGED responses
    BY <2>1, FrameResponds
  <2>3. \A e : ~Announces(msg, e)
    BY MessageFacts DEF Announces
  <2>4. \A e : Announced(e)' <=> Announced(e)
    BY <2>2, <2>3, AnnouncedAfterResponse, SameAnnounced
  <2>5. AnnouncedOnce'
    BY <1>11, <2>2, <2>3
  <2>6. UNCHANGED <<task, main, hashing, visited>>
    BY <1>12 DEF SendStarted, SendFinished, tasks
  <2> QED
    BY <2>4, <2>5, <2>6 DEF OnceInv, NoTaskYet
<1>13. ASSUME NEW d \in Dirs, HandleDirectory(d) PROVE OnceInv'
  <2> DEFINE msg == Object(d, NoPull)
  <2>1. IF main = "open" THEN Grows(responses, responses', msg) ELSE UNCHANGED responses
    BY <1>13, DirectoryResponds
  <2>2. visited' = visited \cup {d} /\ d \notin visited /\ UNCHANGED <<task, main, hashing>>
    BY <1>13 DEF HandleDirectory, Unvisited, tasks
  <2>3. \A e : Announces(msg, e) <=> e = d
    BY MessageFacts DEF Announces
  <2>4. main = "open" => ~Announced(d)
    BY <2>2 DEF OnceInv
  <2>5. AnnouncedOnce'
    BY <1>11, <2>1, <2>3, <2>4, SameAnnounced DEF OnceInv, AnnouncedOnce
  <2>6. \A e \in Entries \ {d} : Announced(e)' <=> Announced(e)
    BY <2>1, <2>3, AnnouncedAfterResponse, SameAnnounced
  <2> QED
    BY <2>2, <2>5, <2>6, TreeAssumption DEF OnceInv, NoTaskYet, Entries, TypeInv, SessionTypes
<1>14. ASSUME NEW f \in Files, HandleFile(f) PROVE OnceInv'
  <2>1. /\ UNCHANGED <<responses, task, main>> /\ f \notin visited
        /\ visited' = visited \cup {f} /\ hashing' \subseteq hashing \cup {f}
    BY <1>14 DEF HandleFile, Unvisited, network, tasks
  <2>2. AnnouncedOnce'
    BY <2>1 DEF OnceInv, AnnouncedOnce
  <2> QED
    BY <2>1, <2>2, SameAnnounced DEF OnceInv, NoTaskYet
<1>15. ASSUME NEW f \in Files, HashFile(f) PROVE OnceInv'
  <2>1. PICK p : \/ UNCHANGED responses
                 \/ main = "open" /\ Grows(responses, responses', Object(f, p))
    BY <1>15, HashResponds
  <2>2. /\ UNCHANGED <<task, main, visited>> /\ f \in hashing /\ f \in visited
        /\ hashing' = hashing \ {f}
    BY <1>15 DEF HashFile, tasks, TypeInv, SessionTypes
  <2>3. \A e : Announces(Object(f, p), e) <=> e = f
    BY MessageFacts DEF Announces
  <2>4. main = "open" => ~Announced(f) /\ task[f] = "none"
    BY <2>2 DEF OnceInv, NoTaskYet
  <2>5. AnnouncedOnce'
    BY <1>11, <2>1, <2>3, <2>4, SameAnnounced DEF OnceInv, AnnouncedOnce
  <2>6. \A e : Announced(e)' => Announced(e) \/ (e = f /\ main = "open")
    BY <2>1, <2>3, AnnouncedAfterResponse, SameAnnounced
  <2> QED
    BY <2>2, <2>4, <2>5, <2>6, TreeAssumption DEF OnceInv, NoTaskYet, Entries
<1>16. ASSUME main' # "open", responses' = responses \/ responses' = <<>>, UNCHANGED task
       PROVE  OnceInv'
  <2>1. AnnouncedOnce'
    BY <1>16 DEF OnceInv, AnnouncedOnce
  <2> QED
    BY <1>16, <2>1, SameAnnounced, NothingAnnounced DEF OnceInv
<1>17. CASE AcceptStart \/ AcceptContinue \/ AcceptRefused
  <2>1. PICK req \in {"start", "continue"} : Accept(req)
    BY <1>17 DEF AcceptStart, AcceptContinue, AcceptRefused
  <2>2. main \in {"none", "waiting"}
    BY <2>1, AcceptedClient DEF SessionInv
  <2>3. responses = <<>> /\ \A f \in Files : task[f] = "none"
    BY <2>2 DEF SessionInv, ClientMatchesMain, NoTasks
  <2> QED
    BY <1>1, <1>17, <2>3 DEF AcceptStart, AcceptContinue, AcceptRefused, tasks
<1>18. CASE ServerExits \/ ServerDies \/ NetworkDrops
  <2>1. (CutMain \/ NetworkDrops) /\ UNCHANGED task
    BY <1>18 DEF ServerExits, ServerDies, ServerProcessEnds, NetworkDrops, tasks
  <2> QED
    BY <1>16, <2>1, CutFacts
<1>19. ASSUME UNCHANGED <<task, main, responses, hashing, visited>> PROVE OnceInv'
  <2>1. AnnouncedOnce'
    BY <1>19 DEF OnceInv, AnnouncedOnce
  <2> QED
    BY <1>19, <2>1, SameAnnounced DEF OnceInv, NoTaskYet
<1>20. CASE CrawlEnds
  BY <1>19, <1>20 DEF CrawlEnds, network, tasks
<1>21. ASSUME NEW f \in Files, AcceptFile(f) \/ StreamFile(f) PROVE OnceInv'
  BY <1>19, <1>21 DEF AcceptFile, StreamFile, session, tasks
<1>22. CASE UNCHANGED <<session, offers, main, responses, tasks>>
  BY <1>19, <1>22 DEF session, tasks
<1>23. CASE UNCHANGED vars
  BY <1>19, <1>23 DEF vars, session, network, tasks
<1>24. CASE LeavingOut
  BY <1>19, <1>24, LeavingOutFacts DEF network, tasks
<1> QED
  BY <1>2, <1>3, <1>4, <1>7, <1>8, <1>9, <1>10, <1>12, <1>13, <1>14, <1>15, <1>17, <1>18, <1>20,
     <1>21, <1>22, <1>23, <1>24, SessionFrame, ResponsesFrame, TasksFrame DEF TaskSteps

-------------------------------------------------------------------------------
(* Directories come before what is in them.                                *)

(* Nothing is announced at the beginning.                                  *)
LEMMA ParentsInit == Init => ParentsInv
BY DEF Init, ParentsInv

(* The directory of an entry is a directory of the tree, or the root.      *)
LEMMA ParentFacts ==
  ASSUME TypeInv, NEW i \in DOMAIN responses, responses[i].type = "object"
  PROVE  Parent[responses[i].entry] \in Dirs \cup {Root}
<1>1. responses[i] \in Messages
  BY DEF TypeInv, NetworkTypes
<1> QED
  BY <1>1, AnnouncedEntry, TreeAssumption

(* Every step keeps directories before what is in them.                    *)
LEMMA ParentsStep == TypeInv /\ SessionInv /\ ParentsInv /\ [Next]_vars => ParentsInv'
<1> SUFFICES ASSUME TypeInv, SessionInv, ParentsInv, [Next]_vars PROVE ParentsInv'
  OBVIOUS
<1>1. ASSUME responses' = <<>>, main' # "open" PROVE ParentsInv'
  BY <1>1 DEF ParentsInv
<1>2. CASE StartClient
  <2>1. responses' = <<>> /\ main' = "waiting"
    BY <1>2 DEF StartClient, SessionInv, ClientMatchesMain
  <2> QED
    BY <1>1, <2>1
<1>3. CASE FirstRequestFails \/ ExitFinished \/ ExitAborted
  BY <1>1, <1>3 DEF FirstRequestFails, ExitFinished, ExitAborted, ProcessEnds
<1>4. ASSUME NEW signal \in {"SIGINT", "other"}, ClientDies(signal) PROVE ParentsInv'
  BY <1>1, <1>4 DEF ClientDies, ProcessEnds
<1>5. ASSUME NEW msg, Read(msg), made \subseteq made', to_complete \subseteq to_complete',
             \A d \in Dirs : msg = Object(d, NoPull) => Handed(d)',
             UNCHANGED <<main, visited>>
      PROVE  ParentsInv'
  <2>1. Shifts(responses, responses') /\ responses[1] = msg /\ msg \in Messages
    BY <1>5, ReadShifts
  <2>2. \A d : Handed(d) => Handed(d)'
    BY <1>5 DEF Handed
  <2>3. ASSUME main' = "open", NEW d \in visited' \cap Dirs PROVE Handed(d)' \/ Announced(d)'
    <3>1. Handed(d) \/ Announced(d)
      BY <1>5, <2>3 DEF ParentsInv
    <3>2. Announces(msg, d) => msg = Object(d, NoPull)
      BY <2>1, <2>3, AnnouncedEntry DEF Announces
    <3> QED
      BY <1>5, <2>2, <2>3, <3>1, <3>2, AnnouncedAfterRead
  <2>4. ASSUME NEW i \in DOMAIN responses', responses'[i].type = "object"
        PROVE  \/ Parent[responses'[i].entry] \in made' \cup to_complete' \cup {Root}
               \/ \E j \in 1 .. i - 1 : responses'[j] = Object(Parent[responses'[i].entry], NoPull)
    <3>1. PICK m : m = responses'[i]
      OBVIOUS
    <3>2. i \in Nat \ {0} /\ i + 1 \in DOMAIN responses /\ responses[i + 1] = m
      BY <2>1, <3>1 DEF Shifts
    <3>3. PICK p \in Dirs \cup {Root} : p = Parent[m.entry]
      BY <2>4, <3>1, <3>2, ParentFacts
    <3>4. Handed(p) \/ \E j \in 1 .. i : responses[j] = Object(p, NoPull)
      BY <2>4, <3>1, <3>2, <3>3 DEF ParentsInv
    <3>5. Handed(p) => Handed(p)'
      BY <2>2
    <3>6. ASSUME NEW j \in 1 .. i, responses[j] = Object(p, NoPull)
          PROVE  Handed(p)' \/ \E k \in 1 .. i - 1 : responses'[k] = Object(p, NoPull)
      <4>1. CASE j = 1
        BY <1>5, <2>1, <3>6, <4>1 DEF Handed
      <4>2. CASE j # 1
        <5>1. j - 1 \in 1 .. i - 1 /\ j \in DOMAIN responses
          BY <2>1, <3>2, <4>2 DEF Shifts
        <5>2. responses'[j - 1] = Object(p, NoPull)
          BY <2>1, <3>6, <4>2, <5>1 DEF Shifts
        <5> QED
          BY <5>1, <5>2
      <4> QED
        BY <4>1, <4>2
    <3> QED
      BY <3>1, <3>3, <3>4, <3>5, <3>6 DEF Handed
  <2> QED
    BY <2>3, <2>4 DEF ParentsInv, Handed
<1>6. CASE ReadStarted \/ ReadFinished
  BY <1>5, <1>6, MessageFacts DEF ReadStarted, ReadFinished, target, session, tasks
<1>7. ASSUME NEW d \in Dirs, ReadDirectory(d) PROVE ParentsInv'
  <2>1. /\ Read(Object(d, NoPull)) /\ UNCHANGED <<main, visited>>
        /\ made \subseteq made' /\ to_complete \subseteq to_complete'
        /\ d \in made' \/ d \in to_complete'
    BY <1>7 DEF ReadDirectory, session
  <2>2. \A e : Object(d, NoPull) = Object(e, NoPull) => d = e
    BY MessageFacts
  <2> QED
    BY <1>5, <2>1, <2>2 DEF Handed
<1>8. ASSUME NEW f \in Files, ReadFile(f) PROVE ParentsInv'
  <2>1. PICK p : p = Head(responses).pull
    OBVIOUS
  <2>2. /\ Read(Object(f, p)) /\ UNCHANGED <<main, visited>>
        /\ made \subseteq made' /\ to_complete \subseteq to_complete'
    BY <1>8, <2>1 DEF ReadFile, session
  <2>3. \A d \in Dirs : Object(f, p) # Object(d, NoPull)
    BY MessageFacts, TreeAssumption
  <2> QED
    BY <1>5, <2>2, <2>3
<1>9. ASSUME NEW f \in Files, TaskSteps(f) PROVE ParentsInv'
  <2>1. to_complete' \in {to_complete, to_complete \ {f}}
    BY <1>9, VerifyFacts DEF TaskSteps, StreamConnect, StreamRequest, StreamBlock, StreamEnds,
                             ReportConnect, ReportSend, TaskFails
  <2>2. \A d \in Dirs \cup {Root} : Handed(d)' <=> Handed(d)
    BY <1>9, <2>1, TaskStepFacts, TreeAssumption DEF Handed
  <2>3. UNCHANGED <<main, responses, visited>>
    BY <1>9, TaskStepFacts DEF session
  <2>4. \A i \in DOMAIN responses : responses[i].type = "object" =>
          Parent[responses[i].entry] \in Dirs \cup {Root}
    BY ParentFacts
  <2> QED
    BY <2>2, <2>3, <2>4, SameAnnounced DEF ParentsInv
<1>10. ASSUME NEW msg, Grows(responses, responses', msg), UNCHANGED <<made, to_complete>>,
              msg.type = "object" =>
                \/ Handed(Parent[msg.entry])
                \/ \E j \in DOMAIN responses : responses[j] = Object(Parent[msg.entry], NoPull),
              main = "open" => \A d \in visited' \cap Dirs : d \in visited \/ Announces(msg, d),
              main' = main
       PROVE  ParentsInv'
  <2>1. \A d : Handed(d)' <=> Handed(d)
    BY <1>10 DEF Handed
  <2>2. main' = "open" => \A d \in visited' \cap Dirs : Handed(d)' \/ Announced(d)'
    BY <1>10, <2>1, AnnouncedAfterResponse DEF ParentsInv
  <2>3. ASSUME NEW i \in DOMAIN responses', responses'[i].type = "object"
        PROVE  \/ Parent[responses'[i].entry] \in made' \cup to_complete' \cup {Root}
               \/ \E j \in 1 .. i - 1 : responses'[j] = Object(Parent[responses'[i].entry], NoPull)
    <3>1. PICK m : m = responses'[i]
      OBVIOUS
    <3>2. CASE i \in DOMAIN responses
      <4>1. responses[i] = m /\ \A j \in 1 .. i - 1 : j \in DOMAIN responses
        BY <1>10, <3>1, <3>2 DEF Grows
      <4>2. \/ Handed(Parent[m.entry])
            \/ \E j \in 1 .. i - 1 : responses[j] = Object(Parent[m.entry], NoPull)
        BY <2>3, <3>1, <3>2, <4>1 DEF ParentsInv
      <4> QED
        BY <1>10, <3>1, <3>2, <4>1, <4>2 DEF Grows, Handed
    <3>3. CASE i = Len(responses')
      <4>1. m = msg /\ \A j \in DOMAIN responses : j \in 1 .. i - 1 /\ responses'[j] = responses[j]
        BY <1>10, <3>1, <3>3 DEF Grows
      <4> QED
        BY <1>10, <2>3, <3>1, <4>1 DEF Handed
    <3> QED
      BY <1>10, <3>2, <3>3 DEF Grows
  <2> QED
    BY <2>2, <2>3 DEF ParentsInv, Handed
<1>11. ASSUME main' = main, UNCHANGED <<made, to_complete, responses>>,
              main = "open" => visited' \cap Dirs \subseteq visited
       PROVE  ParentsInv'
  BY <1>11, SameAnnounced DEF ParentsInv, Handed
<1>12. CASE SendStarted \/ SendFinished
  <2>1. PICK msg \in {Started, Finished} : Respond(msg)
    BY <1>12 DEF SendStarted, SendFinished
  <2>2. IF main = "open" THEN Grows(responses, responses', msg) ELSE UNCHANGED responses
    BY <2>1, FrameResponds
  <2>3. UNCHANGED <<main, made, to_complete, visited>> /\ msg.type # "object"
    BY <1>12, MessageFacts DEF SendStarted, SendFinished, target, tasks
  <2> QED
    BY <1>10, <1>11, <2>2, <2>3
(* The directory of a visited entry has been announced.                    *)
<1>13. ASSUME main = "open", NEW e \in Entries, Parent[e] \in visited \cup {Root}
       PROVE  \/ Handed(Parent[e])
              \/ \E j \in DOMAIN responses : responses[j] = Object(Parent[e], NoPull)
  <2>1. CASE Parent[e] = Root
    BY <2>1 DEF Handed
  <2>2. CASE Parent[e] # Root
    <3>1. Parent[e] \in visited \cap Dirs
      BY <1>13, <2>2, TreeAssumption
    <3>2. Handed(Parent[e]) \/ Announced(Parent[e])
      BY <1>13, <3>1 DEF ParentsInv
    <3>3. ASSUME NEW j \in DOMAIN responses, Announces(responses[j], Parent[e])
          PROVE  responses[j] = Object(Parent[e], NoPull)
      <4>1. responses[j] \in Messages
        BY DEF TypeInv, NetworkTypes
      <4> QED
        BY <3>1, <3>3, <4>1, AnnouncedEntry DEF Announces
    <3> QED
      BY <3>2, <3>3 DEF Announced
  <2> QED
    BY <2>1, <2>2
<1>14. ASSUME NEW d \in Dirs, HandleDirectory(d) PROVE ParentsInv'
  <2>1. IF main = "open" THEN Grows(responses, responses', Object(d, NoPull))
                         ELSE UNCHANGED responses
    BY <1>14, DirectoryResponds
  <2>2. /\ Parent[d] \in visited \cup {Root} /\ visited' = visited \cup {d} /\ d \in Entries
        /\ UNCHANGED <<main, made, to_complete>>
    BY <1>14 DEF HandleDirectory, Unvisited, target, tasks, Entries
  <2>3. Object(d, NoPull).entry = d /\ Announces(Object(d, NoPull), d)
    BY MessageFacts DEF Announces
  <2> QED
    BY <1>10, <1>11, <1>13, <2>1, <2>2, <2>3
<1>15. ASSUME NEW f \in Files, HandleFile(f) PROVE ParentsInv'
  BY <1>11, <1>15, TreeAssumption DEF HandleFile, network, target, tasks
<1>16. ASSUME NEW f \in Files, HashFile(f) PROVE ParentsInv'
  <2>1. PICK p : \/ UNCHANGED responses
                 \/ main = "open" /\ Grows(responses, responses', Object(f, p))
    BY <1>16, HashResponds
  <2>2. f \in visited /\ f \in Entries /\ UNCHANGED <<main, made, to_complete, visited>>
    BY <1>16 DEF HashFile, target, tasks, TypeInv, SessionTypes
  <2>3. Parent[f] \in visited \cup {Root}
    BY <2>2 DEF SessionInv, ManagerWorksInOrder
  <2>4. Object(f, p).entry = f
    BY MessageFacts
  <2> QED
    BY <1>10, <1>11, <1>13, <2>1, <2>2, <2>3, <2>4
<1>17. CASE AcceptStart \/ AcceptContinue \/ AcceptRefused
  <2>1. PICK req \in {"start", "continue"} : Accept(req)
    BY <1>17 DEF AcceptStart, AcceptContinue, AcceptRefused
  <2>2. main \in {"none", "waiting"}
    BY <2>1, AcceptedClient DEF SessionInv
  <2>3. responses' = <<>>
    BY <1>17, <2>2 DEF AcceptStart, AcceptContinue, AcceptRefused, SessionInv, ClientMatchesMain
  <2>4. main' = "open" => visited' = {}
    BY <1>17, <2>2 DEF AcceptStart, AcceptContinue, AcceptRefused, StartManager
  <2> QED
    BY <2>3, <2>4 DEF ParentsInv
<1>18. CASE ServerExits \/ ServerDies \/ NetworkDrops
  <2>1. (CutMain \/ NetworkDrops) /\ UNCHANGED <<made, to_complete>>
    BY <1>18 DEF ServerExits, ServerDies, ServerProcessEnds, NetworkDrops, target, tasks
  <2> QED
    BY <1>1, <2>1, CutFacts DEF ParentsInv, Handed
<1>19. CASE CrawlEnds
  BY <1>11, <1>19 DEF CrawlEnds, network, target, tasks
<1>20. ASSUME NEW f \in Files, AcceptFile(f) \/ StreamFile(f) PROVE ParentsInv'
  BY <1>11, <1>20 DEF AcceptFile, StreamFile, session, target, tasks
<1>21. CASE UNCHANGED <<session, offers, main, responses, tasks, target>>
  BY <1>11, <1>21 DEF session, tasks, target
<1>22. CASE UNCHANGED vars
  BY <1>11, <1>22 DEF vars, session, network, tasks, target
<1>23. CASE LeavingOut
  BY <1>11, <1>23, LeavingOutFacts DEF network, target, tasks
<1> QED
  BY <1>2, <1>3, <1>4, <1>6, <1>7, <1>8, <1>9, <1>12, <1>14, <1>15, <1>16, <1>17, <1>18, <1>19,
     <1>20, <1>21, <1>22, <1>23, SessionFrame, ResponsesFrame, TasksFrame, TargetFrame DEF TaskSteps

-------------------------------------------------------------------------------
(* What is recorded is delivered, and stays as it is.                      *)

(* The success messages in the backlog, after each kind of change.         *)
LEMMA SucceedingAfterConnect ==
  ASSUME NEW c, Grows(backlog, backlog', c)
  PROVE  \A f : Succeeding(f)' <=> Succeeding(f) \/ (c.req = "success" /\ c.file = f)
BY DEF Grows, Succeeding

(* See above.                                                              *)
LEMMA SucceedingAfterRestated ==
  ASSUME Restated(backlog, backlog')
  PROVE  \A f : Succeeding(f)' <=> Succeeding(f)
BY DEF Restated, Succeeding

(* See above.                                                              *)
LEMMA SucceedingAfterAccept ==
  ASSUME Shifts(backlog, backlog')
  PROVE  \A f : /\ Succeeding(f)' => Succeeding(f)
                /\ backlog[1].req = "success" /\ backlog[1].file = f => Succeeding(f)
BY DEF Shifts, Succeeding

(* See above.                                                              *)
LEMMA SucceedingUnchanged ==
  ASSUME UNCHANGED backlog
  PROVE  \A f : Succeeding(f)' <=> Succeeding(f)
BY DEF Succeeding

(* See above.                                                              *)
LEMMA NothingSucceeding ==
  ASSUME backlog' = <<>>
  PROVE  \A f : ~Succeeding(f)'
BY DEF Succeeding

(* The two steps that write do so to a file that may be written, and to no *)
(* other.                                                                  *)
LEMMA OneFileIsWritten ==
  ASSUME TypeInv, NEW f \in Files, ReadFile(f) \/ StreamBlock(f)
  PROVE  Writable(f) /\ \A g \in Files \ {f} : dst'[g] = dst[g]
<1>1. CASE ReadFile(f)
  <2>1. Shifts(responses, responses') /\ responses[1] = Object(f, Head(responses).pull)
    BY <1>1, ReadShifts DEF ReadFile
  <2>2. Announces(responses[1], f)
    BY <2>1, MessageFacts DEF Announces
  <2>3. Announced(f)
    BY <2>1, <2>2 DEF Announced, Shifts
  <2>4. dst' = dst \/ dst' = [dst EXCEPT ![f] = <<>>]
    BY <1>1 DEF ReadFile
  <2> QED
    BY <2>3, <2>4 DEF Writable, TypeInv, TargetTypes
<1>2. CASE StreamBlock(f)
  <2>1. task[f] = "streaming"
    BY <1>2 DEF StreamBlock
  <2> QED
    BY <1>2, <2>1, BlockIsWritten DEF Writable, TypeInv, TargetTypes
<1> QED
  BY <1>1, <1>2

(* A step writes to no file but one that may be written.                   *)
LEMMA OnlyWritableIsWritten ==
  ASSUME TypeInv, Next
  PROVE  \A f \in Files : dst'[f] = dst[f] \/ Writable(f)
<1>1. ASSUME NEW d \in Dirs, ReadDirectory(d) PROVE dst' = dst
  BY <1>1 DEF ReadDirectory
<1>2. CASE UNCHANGED target
  BY <1>2 DEF target
<1> QED
  BY <1>1, <1>2, OneFileIsWritten, TargetFrame

(* Nothing is recorded at the beginning.                                   *)
LEMMA DeliveredInit == Init => DeliveredInv
BY DEF Init, DeliveredInv, CompletedIsDelivered, Succeeding, Writable, Announced

(* Every step keeps what is recorded delivered.                            *)
LEMMA DeliveredStep ==
  TypeInv /\ SessionInv /\ OnceInv /\ DeliveredInv /\ [Next]_vars => DeliveredInv'
<1> SUFFICES ASSUME TypeInv, SessionInv, OnceInv, DeliveredInv, [Next]_vars PROVE DeliveredInv'
  OBVIOUS
<1> USE DEF process, phase
(* A step after which nothing more is recorded, about to be, or writable.  *)
<1>1. ASSUME \A f \in Files : Succeeding(f)' => Succeeding(f),
             \A f \in Files : Writable(f)' => Writable(f),
             \A f \in Files : task'[f] \in {"verified", "reporting"} =>
               dst'[f] = dst[f] /\ (task[f] \in {"verified", "reporting"} \/ dst[f] \in Contents),
             main' = "open" => main = "open" /\ visited \subseteq visited',
             known => known',
             UNCHANGED <<completed, logged, loaded>>
      PROVE  DeliveredInv'
  <2>1. \A f \in Files : dst'[f] = dst[f] \/ Writable(f)
    <3>1. CASE Next
      BY <3>1, OnlyWritableIsWritten
    <3>2. CASE UNCHANGED vars
      BY <3>2 DEF vars, target
    <3> QED
      BY <3>1, <3>2
  <2>2. CompletedIsDelivered'
    BY <1>1, <2>1 DEF DeliveredInv, CompletedIsDelivered
  <2>3. \A f \in Files : Writable(f)' => f \notin completed' \cup logged' /\ ~Succeeding(f)'
    BY <1>1 DEF DeliveredInv
  <2>4. main' = "open" => loaded' /\ \A f \in Files \ visited' : ~Succeeding(f)'
    BY <1>1 DEF DeliveredInv
  <2>5. \A f \in Files : task'[f] \in {"verified", "reporting"} => dst'[f] \in Contents
    BY <1>1 DEF DeliveredInv
  <2>6. /\ loaded' => logged' \subseteq completed'
        /\ ~known' => logged' = {} /\ \A f \in Files : ~Succeeding(f)'
    BY <1>1 DEF DeliveredInv
  <2> QED
    BY <2>2, <2>3, <2>4, <2>5, <2>6 DEF DeliveredInv
(* The same, where no task gets on either.                                 *)
<1>2. ASSUME \A f \in Files : Succeeding(f)' => Succeeding(f),
             \A f \in Files : Writable(f)' => Writable(f),
             \A f \in Files : task'[f] \in {"verified", "reporting"} =>
                                task[f] \in {"verified", "reporting"},
             main' = "open" => main = "open" /\ visited \subseteq visited',
             known => known',
             UNCHANGED <<dst, completed, logged, loaded>>
      PROVE  DeliveredInv'
  BY <1>1, <1>2
<1>3. ASSUME UNCHANGED <<responses, task, hashing, main>>
      PROVE  \A f \in Files : Writable(f)' => Writable(f)
  BY <1>3, SameAnnounced DEF Writable
<1>4. CASE StartClient
  <2>1. \A f \in Files : Succeeding(f)' => Succeeding(f)
    <3>1. PICK req \in {"start", "continue"} : Connect(req, Root)
      BY <1>4 DEF StartClient
    <3>2. Grows(backlog, backlog', Connection(req, Root))
      BY <3>1, ConnectGrows
    <3> QED
      BY <3>2, SucceedingAfterConnect DEF Connection
  <2>2. \A f \in Files : Writable(f)' => Writable(f)
    BY <1>4, SameAnnounced DEF StartClient, Writable, tasks
  <2> QED
    BY <1>2, <1>4, <2>1, <2>2 DEF StartClient, target, jobs, tasks
<1>5. CASE SendFirstRequest
  <2>1. \A f \in Files : Succeeding(f)' => Succeeding(f)
    BY <1>5, SendRestates, SucceedingAfterRestated DEF SendFirstRequest
  <2> QED
    BY <1>2, <1>3, <1>5, <2>1 DEF SendFirstRequest, target, jobs, session, tasks
<1>6. ASSUME ProcessEnds, Restated(backlog, backlog') \/ UNCHANGED backlog,
             UNCHANGED <<target, jobs, known>>
      PROVE  DeliveredInv'
  <2>1. \A f \in Files : Succeeding(f)' => Succeeding(f)
    BY <1>6, SucceedingUnchanged, SucceedingAfterRestated
  <2>2. \A f \in Files : task'[f] = "none" /\ ~Writable(f)'
    BY <1>6, NothingAnnounced DEF ProcessEnds, Writable
  <2> QED
    BY <1>2, <1>6, <2>1, <2>2 DEF ProcessEnds, target, jobs
<1>7. CASE FirstRequestFails \/ ExitFinished \/ ExitAborted
  BY <1>6, <1>7 DEF FirstRequestFails, ExitFinished, ExitAborted
<1>8. ASSUME NEW signal \in {"SIGINT", "other"}, ClientDies(signal) PROVE DeliveredInv'
  BY <1>6, <1>8, DeathRestates DEF ClientDies
<1>9. ASSUME NEW msg, Read(msg), UNCHANGED <<dst, jobs, hashing, visited, backlog, main, task>>,
             known => known'
      PROVE  DeliveredInv'
  BY <1>2, <1>9, AnnouncedAfterRead, SucceedingUnchanged DEF Writable, jobs
<1>10. CASE ReadStarted \/ ReadFinished
  BY <1>9, <1>10 DEF ReadStarted, ReadFinished, target, session, tasks
<1>11. ASSUME NEW d \in Dirs, ReadDirectory(d) PROVE DeliveredInv'
  BY <1>9, <1>11 DEF ReadDirectory, session, process, phase
<1>12. ASSUME NEW f \in Files, ReadFile(f) PROVE DeliveredInv'
  <2>1. PICK p : p = Head(responses).pull
    OBVIOUS
  <2>2. Read(Object(f, p)) /\ UNCHANGED <<jobs, hashing, visited, backlog, main, known>>
    BY <1>12, <2>1 DEF ReadFile, session, process, phase
  <2>3. Shifts(responses, responses') /\ Announces(responses[1], f)
    BY <2>2, ReadShifts, MessageFacts DEF Announces
  <2>4. Announced(f)
    BY <2>3 DEF Announced, Shifts
  <2>5. \/ UNCHANGED <<dst, task>>
        \/ task' = [task EXCEPT ![f] = "queued"] /\ \A g \in Files \ {f} : dst'[g] = dst[g]
    BY <1>12 DEF ReadFile, TypeInv, TargetTypes
  <2>6. \A g \in Files \ {f} : task'[g] = task[g]
    BY <2>5 DEF TypeInv, TaskTypes
  <2>7. \A g \in Files : Writable(g)' => Writable(g)
    BY <2>2, <2>4, <2>6, AnnouncedAfterRead DEF Writable
  <2>8. \A g \in Files : task'[g] \in {"verified", "reporting"} =>
          dst'[g] = dst[g] /\ task[g] \in {"verified", "reporting"}
    BY <2>5 DEF TypeInv, TaskTypes
  <2>9. \A g \in Files : Succeeding(g)' => Succeeding(g)
    BY <2>2, SucceedingUnchanged
  <2> QED
    BY <1>1, <2>2, <2>7, <2>8, <2>9 DEF jobs
<1>13. CASE ReadFails
  BY <1>2, <1>3, <1>13, SucceedingUnchanged DEF ReadFails, target, jobs, session, network, tasks
(* The steps of a task.                                                    *)
<1>14. ASSUME NEW f \in Files, StreamConnect(f) PROVE DeliveredInv'
  <2>1. /\ task[f] = "queued" /\ \A g \in Files \ {f} : task'[g] = task[g]
        /\ task'[f] \in {"open", "ended"}
        /\ UNCHANGED <<dst, jobs, session, main, responses, known>>
    BY <1>14 DEF StreamConnect, target, process, phase, TypeInv, TaskTypes
  <2>2. \A g \in Files : Writable(g)' => Writable(g)
    BY <2>1, SameAnnounced DEF Writable, session
  <2>3. \A g \in Files : Succeeding(g)' => Succeeding(g)
    <3>1. UNCHANGED backlog \/ Grows(backlog, backlog', Connection("file", f))
      BY <1>14, ConnectGrows DEF StreamConnect
    <3> QED
      BY <3>1, SucceedingAfterConnect, SucceedingUnchanged DEF Connection
  <2> QED
    BY <1>2, <2>1, <2>2, <2>3 DEF jobs, session
<1>15. ASSUME NEW f \in Files, StreamRequest(f) \/ StreamEnds(f) \/ ReportSend(f) \/ TaskFails(f)
       PROVE  DeliveredInv'
  <2>1. /\ \A g \in Files \ {f} : task'[g] = task[g]
        /\ \/ task[f] = "open" /\ task'[f] \in {"streaming", "ended"}
           \/ task[f] = "streaming" /\ task'[f] \in {"check", "ended"}
           \/ task'[f] = "ended"
        /\ UNCHANGED <<dst, jobs, session, main, responses, known>>
    BY <1>15 DEF StreamRequest, StreamEnds, ReportSend, TaskFails, target, network, process, phase,
                 TypeInv, TaskTypes
  <2>2. \A g \in Files : Writable(g)' => Writable(g)
    BY <2>1, SameAnnounced DEF Writable, session
  <2>3. UNCHANGED backlog \/ Restated(backlog, backlog')
    BY <1>15, SendRestates, FailureRestates DEF StreamRequest, StreamEnds, ReportSend, network
  <2>4. \A g \in Files : Succeeding(g)' => Succeeding(g)
    BY <2>3, SucceedingAfterRestated, SucceedingUnchanged
  <2> QED
    BY <1>2, <2>1, <2>2, <2>4 DEF jobs, session
<1>16. ASSUME NEW f \in Files, StreamBlock(f) PROVE DeliveredInv'
  <2>1. /\ task[f] = "streaming" /\ \A g \in Files \ {f} : dst'[g] = dst[g]
        /\ UNCHANGED <<jobs, session, backlog, main, responses, known, task>>
    BY <1>16, BlockIsWritten DEF StreamBlock, process, phase, TypeInv, TargetTypes
  <2>2. \A g \in Files : Succeeding(g)' => Succeeding(g)
    BY <2>1, SucceedingUnchanged
  <2>3. \A g \in Files : Writable(g)' => Writable(g)
    BY <1>3, <2>1 DEF session
  <2>4. \A g \in Files : task'[g] \in {"verified", "reporting"} =>
          dst'[g] = dst[g] /\ task[g] \in {"verified", "reporting"}
    BY <2>1
  <2> QED
    BY <1>1, <2>1, <2>2, <2>3, <2>4 DEF jobs, session
<1>17. ASSUME NEW f \in Files, Verify(f) PROVE DeliveredInv'
  <2>1. /\ task[f] = "check" /\ \A g \in Files \ {f} : task'[g] = task[g]
        /\ \/ task'[f] = "ended"
           \/ task'[f] = "verified" /\ dst[f] = pull[f].sha256
        /\ UNCHANGED <<dst, jobs, session, backlog, main, responses, known>>
    BY <1>17 DEF Verify, target, network, process, phase, TypeInv, TaskTypes
  <2>2. pull[f].sha256 \in Contents
    BY <2>1 DEF TypeInv, TaskTypes
  <2>3. \A g \in Files : Writable(g)' => Writable(g)
    BY <2>1, SameAnnounced DEF Writable, session
  <2>4. \A g \in Files : task'[g] \in {"verified", "reporting"} =>
          dst'[g] = dst[g] /\ (task[g] \in {"verified", "reporting"} \/ dst[g] \in Contents)
    BY <2>1, <2>2
  <2> QED
    BY <1>1, <2>1, <2>3, <2>4, SucceedingUnchanged DEF jobs, session
<1>18. ASSUME NEW f \in Files, ReportConnect(f) PROVE DeliveredInv'
  <2>1. /\ task[f] = "verified" /\ \A g \in Files \ {f} : task'[g] = task[g]
        /\ task'[f] \in {"reporting", "ended"}
        /\ UNCHANGED <<dst, jobs, session, main, responses, known>>
    BY <1>18 DEF ReportConnect, target, process, phase, TypeInv, TaskTypes
  <2>2. \A g \in Files : Succeeding(g)' => Succeeding(g) \/ g = f
    <3>1. UNCHANGED backlog \/ Grows(backlog, backlog', Connection("success", f))
      BY <1>18, ConnectGrows DEF ReportConnect
    <3> QED
      BY <3>1, SucceedingAfterConnect, SucceedingUnchanged DEF Connection
  <2>3. \A g \in Files : Writable(g)' => Writable(g) /\ g # f
    BY <2>1, SameAnnounced DEF Writable, session, OnceInv, NoTaskYet
  <2>4. known /\ known' /\ dst[f] \in Contents
    BY <2>1, TasksHaveMain DEF DeliveredInv
  <2>5. main = "open" => f \in visited
    BY <2>1 DEF OnceInv, NoTaskYet
  <2>6. CompletedIsDelivered'
    BY <2>1, <2>2, <2>4 DEF DeliveredInv, CompletedIsDelivered, jobs
  <2>7. /\ \A g \in Files : Writable(g)' => g \notin completed' \cup logged' /\ ~Succeeding(g)'
        /\ main' = "open" => loaded' /\ \A g \in Files \ visited' : ~Succeeding(g)'
    BY <2>1, <2>2, <2>3, <2>5 DEF DeliveredInv, jobs, session
  <2>8. /\ loaded' => logged' \subseteq completed'
        /\ \A g \in Files : task'[g] \in {"verified", "reporting"} => dst'[g] \in Contents
    BY <2>1, <2>4 DEF DeliveredInv, jobs
  <2> QED
    BY <2>4, <2>6, <2>7, <2>8 DEF DeliveredInv
(* The accept loop.                                                        *)
<1>19. ASSUME NEW f \in Files, AcceptFile(f) PROVE DeliveredInv'
  <2>1. \A g \in Files : Succeeding(g)' => Succeeding(g)
    BY <1>19, AcceptShifts, SucceedingAfterAccept DEF AcceptFile
  <2> QED
    BY <1>2, <1>3, <1>19, <2>1 DEF AcceptFile, target, jobs, session, process, phase, tasks
<1>20. ASSUME NEW f \in Files, AcceptSuccess(f) PROVE DeliveredInv'
  <2>1. /\ Shifts(backlog, backlog') /\ Head(backlog) = backlog[1]
        /\ backlog[1].req = "success" /\ backlog[1].file = f
    BY <1>20, AcceptShifts DEF AcceptSuccess
  <2>2. Succeeding(f) /\ \A g \in Files : Succeeding(g)' => Succeeding(g)
    BY <2>1, SucceedingAfterAccept
  <2>3. /\ completed' \in {completed, completed \cup {f}} /\ logged' \in {logged, logged \cup {f}}
        /\ loaded' = loaded /\ (loaded => f \in completed')
        /\ UNCHANGED <<dst, session, main, responses, known, task>>
    BY <1>20 DEF AcceptSuccess, jobs, target, process, phase, tasks
  <2>4. \A g \in Files : Writable(g)' => Writable(g) /\ g # f
    BY <1>3, <2>2, <2>3 DEF session, DeliveredInv
  <2>5. dst[f] \in Contents /\ known
    BY <2>2 DEF DeliveredInv, CompletedIsDelivered
  <2>6. CompletedIsDelivered'
    BY <2>2, <2>3, <2>5 DEF DeliveredInv, CompletedIsDelivered
  <2>7. /\ \A g \in Files : Writable(g)' => g \notin completed' \cup logged' /\ ~Succeeding(g)'
        /\ main' = "open" => loaded' /\ \A g \in Files \ visited' : ~Succeeding(g)'
    BY <2>2, <2>3, <2>4 DEF DeliveredInv, session
  <2>8. loaded' => logged' \subseteq completed'
    BY <1>20, <2>3 DEF DeliveredInv, AcceptSuccess, jobs
  <2> QED
    BY <2>3, <2>5, <2>6, <2>7, <2>8 DEF DeliveredInv
<1>21. CASE AcceptStart \/ AcceptContinue
  <2>1. PICK req \in {"start", "continue"} :
          Accept(req) /\ (AcceptStart => req = "start")
    BY <1>21 DEF AcceptStart, AcceptContinue
  <2>2. /\ main \in {"none", "waiting"} /\ HasClient => backlog' = <<>>
        /\ AcceptStart => ~known
    BY <2>1, AcceptedClient DEF SessionInv
  <2>3. /\ main' = (IF HasClient THEN "open" ELSE main) /\ loaded' /\ hashing' = {}
        /\ UNCHANGED <<dst, responses, known, task>>
    BY <1>21 DEF AcceptStart, AcceptContinue, StartManager, target, process, phase, tasks
  <2>4. /\ completed' \subseteq completed \cup logged /\ logged' \subseteq logged
        /\ logged' \subseteq completed'
    BY <1>21 DEF AcceptStart, AcceptContinue, DeliveredInv
  <2>5. Shifts(backlog, backlog')
    BY <2>1, AcceptShifts
  <2>6. \A f \in Files : Succeeding(f)' => Succeeding(f)
    BY <2>5, SucceedingAfterAccept
  <2>7. main' = "open" => \A f \in Files : ~Succeeding(f)'
    BY <2>2, <2>3, NothingSucceeding, AcceptedClient, <2>1 DEF SessionInv
  <2>8. \A f \in Files : Writable(f)' => Writable(f)
    BY <2>3, SameAnnounced DEF Writable
  <2>9. CompletedIsDelivered'
    BY <2>3, <2>4, <2>6 DEF DeliveredInv, CompletedIsDelivered
  <2> QED
    BY <2>3, <2>4, <2>6, <2>7, <2>8, <2>9 DEF DeliveredInv
<1>22. CASE AcceptRefused
  <2>1. PICK req \in {"start", "continue"} : Accept(req)
    BY <1>22 DEF AcceptRefused
  <2>2. main \in {"none", "waiting"} /\ Shifts(backlog, backlog')
    BY <2>1, AcceptedClient, AcceptShifts DEF SessionInv
  <2>3. main' # "open" /\ UNCHANGED <<target, jobs, session, responses, phase, tasks>>
    BY <1>22, <2>2 DEF AcceptRefused
  <2>4. \A f \in Files : Writable(f)' => Writable(f)
    BY <2>3, SameAnnounced DEF Writable, tasks
  <2> QED
    BY <1>2, <2>2, <2>3, <2>4, SucceedingAfterAccept DEF target, jobs, process, phase, tasks
<1>23. CASE ServerExits \/ ServerDies
  <2>1. /\ CutMain /\ backlog' = <<>> /\ completed' = {} /\ ~loaded'
        /\ UNCHANGED <<dst, logged, known, task>>
    BY <1>23 DEF ServerExits, ServerDies, ServerProcessEnds, target, process, phase, tasks
  <2>2. main' # "open" /\ (responses' = responses \/ responses' = <<>>)
    BY <2>1, CutFacts
  <2>3. \A f \in Files : Writable(f)' => Writable(f)
    BY <2>1, <2>2, SameAnnounced, NothingAnnounced DEF Writable
  <2>4. \A f \in Files : ~Succeeding(f)'
    BY <2>1, NothingSucceeding
  <2> QED
    BY <2>1, <2>2, <2>3, <2>4 DEF DeliveredInv, CompletedIsDelivered
<1>24. CASE NetworkDrops
  <2>1. UNCHANGED <<target, jobs, session, backlog, phase, tasks>>
    BY <1>24 DEF NetworkDrops
  <2>2. main' # "open" /\ (responses' = responses \/ responses' = <<>>)
    BY <1>24, CutFacts
  <2>3. \A f \in Files : Writable(f)' => Writable(f)
    BY <2>1, <2>2, SameAnnounced, NothingAnnounced DEF Writable, tasks
  <2> QED
    BY <1>2, <2>1, <2>2, <2>3, SucceedingUnchanged DEF target, jobs, process, phase, tasks
(* The manager.                                                            *)
<1>25. CASE SendStarted \/ SendFinished
  <2>1. PICK msg \in {Started, Finished} : Respond(msg)
    BY <1>25 DEF SendStarted, SendFinished
  <2>2. IF main = "open" THEN Grows(responses, responses', msg) ELSE UNCHANGED responses
    BY <2>1, FrameResponds
  <2>3. \A e : Announced(e)' <=> Announced(e)
    BY <2>2, AnnouncedAfterResponse, SameAnnounced, MessageFacts DEF Announces
  <2>4. UNCHANGED <<target, jobs, visited, hashing, main, backlog, phase, tasks>>
    BY <1>25 DEF SendStarted, SendFinished
  <2>5. \A f \in Files : Writable(f)' => Writable(f)
    BY <2>3, <2>4 DEF Writable, tasks
  <2> QED
    BY <1>2, <2>4, <2>5, SucceedingUnchanged DEF target, jobs, process, phase, tasks
<1>26. ASSUME NEW d \in Dirs, HandleDirectory(d) PROVE DeliveredInv'
  <2>1. IF main = "open" THEN Grows(responses, responses', Object(d, NoPull))
                         ELSE UNCHANGED responses
    BY <1>26, DirectoryResponds
  <2>2. \A f \in Files : Announced(f)' <=> Announced(f)
    BY <2>1, AnnouncedAfterResponse, SameAnnounced, MessageFacts, TreeAssumption DEF Announces
  <2>3. /\ UNCHANGED <<target, jobs, hashing, main, backlog, phase, tasks>>
        /\ visited \subseteq visited'
    BY <1>26 DEF HandleDirectory
  <2>4. \A f \in Files : Writable(f)' => Writable(f)
    BY <2>2, <2>3 DEF Writable, tasks
  <2> QED
    BY <1>2, <2>3, <2>4, SucceedingUnchanged DEF target, jobs, process, phase, tasks
<1>27. ASSUME NEW f \in Files, HandleFile(f) PROVE DeliveredInv'
  <2>1. /\ UNCHANGED <<target, jobs, main, responses, backlog, phase, tasks>>
        /\ f \notin visited /\ visited' = visited \cup {f}
        /\ hashing' = hashing \/ (f \notin completed /\ hashing' = hashing \cup {f})
    BY <1>27 DEF HandleFile, Unvisited, network
  <2>2. \A g \in Files : Succeeding(g)' <=> Succeeding(g)
    BY <2>1, SucceedingUnchanged
  <2>3. \A g \in Files : Writable(g)' =>
          Writable(g) \/ (g = f /\ main = "open" /\ f \notin completed)
    BY <2>1, SameAnnounced DEF Writable, tasks
  <2>4. main = "open" /\ f \notin completed => f \notin completed \cup logged /\ ~Succeeding(f)
    BY <2>1 DEF DeliveredInv
  <2> QED
    BY <2>1, <2>2, <2>3, <2>4 DEF DeliveredInv, CompletedIsDelivered, target, jobs, tasks
<1>28. ASSUME NEW f \in Files, HashFile(f) PROVE DeliveredInv'
  <2>1. PICK p : \/ UNCHANGED responses
                 \/ main = "open" /\ Grows(responses, responses', Object(f, p))
    BY <1>28, HashResponds
  <2>2. \A e : Announced(e)' => Announced(e) \/ (e = f /\ main = "open")
    BY <2>1, AnnouncedAfterResponse, SameAnnounced, MessageFacts DEF Announces
  <2>3. /\ UNCHANGED <<target, jobs, visited, main, backlog, phase, tasks>>
        /\ f \in hashing /\ hashing' = hashing \ {f}
    BY <1>28 DEF HashFile
  <2>4. \A g \in Files : Writable(g)' => Writable(g)
    BY <2>2, <2>3 DEF Writable, tasks
  <2> QED
    BY <1>2, <2>3, <2>4, SucceedingUnchanged DEF target, jobs, process, phase, tasks
<1>29. ASSUME UNCHANGED <<target, jobs, hashing, visited, main, responses, backlog, phase, tasks>>
       PROVE  DeliveredInv'
  BY <1>2, <1>3, <1>29, SucceedingUnchanged DEF target, jobs, process, phase, tasks
<1>30. CASE CrawlEnds
  BY <1>29, <1>30 DEF CrawlEnds, network
<1>31. ASSUME NEW f \in Files, StreamFile(f) PROVE DeliveredInv'
  BY <1>29, <1>31 DEF StreamFile, session
<1>32. CASE ServerRestarts
  BY <1>29, <1>32 DEF ServerRestarts, session, network
<1>33. CASE UNCHANGED <<target, up, jobs, session, offers, main, responses, backlog, phase, tasks>>
  BY <1>29, <1>33 DEF session
<1>34. CASE UNCHANGED vars
  BY <1>29, <1>34 DEF vars, session, network
<1>35. CASE LeavingOut
  BY <1>29, <1>35, LeavingOutFacts DEF network
<1> QED
  BY <1>4, <1>5, <1>7, <1>8, <1>10, <1>11, <1>12, <1>13, <1>14, <1>15, <1>16, <1>17, <1>18, <1>19,
     <1>20, <1>21, <1>22, <1>23, <1>24, <1>25, <1>26, <1>27, <1>28, <1>30, <1>31, <1>32, <1>33,
     <1>34, <1>35, TargetFrame, JobsFrame, SessionFrame, ResponsesFrame, BacklogFrame, ProcessFrame,
     TasksFrame DEF jobs

-------------------------------------------------------------------------------
(* The ids that the client knows are good.                                 *)

(* Nobody has asked for a file at the beginning.                           *)
LEMMA FileRequestsInit == Init => FileRequestsInv
BY DEF Init, FileRequestsInv

(* A file of which a request is in the backlog has a task that is past     *)
(* connecting.                                                             *)
LEMMA NoRequestBefore ==
  ASSUME FileRequestsInv, main = "open", NEW f, task[f] \in {"none", "queued"}
  PROVE  \A i \in DOMAIN backlog : backlog[i].req = "file" => backlog[i].file # f
BY DEF FileRequestsInv, FileRequest

(* Every step keeps the requests for files in step with their tasks.       *)
LEMMA FileRequestsStep ==
  TypeInv /\ SessionInv /\ OnceInv /\ FileRequestsInv /\ [Next]_vars => FileRequestsInv'
<1> SUFFICES ASSUME TypeInv, SessionInv, OnceInv, FileRequestsInv, [Next]_vars
             PROVE  FileRequestsInv'
  OBVIOUS
<1>1. ASSUME main' # "open" PROVE FileRequestsInv'
  BY <1>1 DEF FileRequestsInv
<1>2. CASE StartClient
  BY <1>1, <1>2 DEF StartClient
<1>3. CASE SendFirstRequest \/ ReadFails
  BY <1>1, <1>3 DEF SendFirstRequest, ReadFails, network, SessionInv, ClientMatchesMain
<1>4. CASE FirstRequestFails \/ ExitFinished \/ ExitAborted
  BY <1>1, <1>4 DEF FirstRequestFails, ExitFinished, ExitAborted, ProcessEnds
<1>5. ASSUME NEW signal \in {"SIGINT", "other"}, ClientDies(signal) PROVE FileRequestsInv'
  BY <1>1, <1>5 DEF ClientDies, ProcessEnds
<1>6. CASE ServerExits \/ ServerDies \/ NetworkDrops
  BY <1>1, <1>6, CutFacts DEF ServerExits, ServerDies, ServerProcessEnds
<1>7. CASE AcceptStart \/ AcceptContinue \/ AcceptRefused
  <2>1. PICK req \in {"start", "continue"} : Accept(req)
    BY <1>7 DEF AcceptStart, AcceptContinue, AcceptRefused
  <2>2. main \in {"none", "waiting"} /\ (HasClient => backlog' = <<>>)
    BY <2>1, AcceptedClient DEF SessionInv
  <2>3. main' = "open" => HasClient
    BY <1>7, <2>2 DEF AcceptStart, AcceptContinue, AcceptRefused, StartManager
  <2> QED
    BY <2>2, <2>3 DEF FileRequestsInv
(* The tasks go on, and the requests stay as they are.                     *)
<1>8. ASSUME main' = main, Restated(backlog, backlog'),
             \A i \in DOMAIN backlog : backlog[i].req = "file" =>
               backlog'[i].state = backlog[i].state \/ backlog'[i].state = "eof",
             \A f \in Files : task'[f] = task[f] \/ task'[f] \notin {"none", "queued", "open"}
                              \/ task[f] \in {"none", "queued"}
      PROVE  FileRequestsInv'
  <2> SUFFICES ASSUME main = "open" PROVE FileRequestsInv'
    BY <1>1, <1>8
  <2>1. ASSUME NEW i \in DOMAIN backlog', backlog'[i].req = "file" PROVE FileRequest(i)'
    <3>1. /\ i \in DOMAIN backlog /\ backlog[i].req = "file" /\ backlog[i].file = backlog'[i].file
          /\ backlog'[i].state = backlog[i].state \/ backlog'[i].state = "eof"
      BY <1>8, <2>1 DEF Restated
    <3>2. FileRequest(i)
      BY <3>1 DEF FileRequestsInv
    <3> QED
      BY <1>8, <3>1, <3>2 DEF FileRequest
  <2> QED
    BY <1>8, <2>1 DEF FileRequestsInv, Restated
<1>9. ASSUME UNCHANGED <<main, backlog>>,
             \A f \in Files : task'[f] = task[f] \/ task'[f] \notin {"none", "queued", "open"}
                              \/ task[f] \in {"none", "queued"}
      PROVE  FileRequestsInv'
  <2>1. Restated(backlog, backlog')
    BY <1>9 DEF Restated, TypeInv, NetworkTypes
  <2> QED
    BY <1>8, <1>9, <2>1
<1>10. CASE ReadStarted \/ ReadFinished
  BY <1>9, <1>10 DEF ReadStarted, ReadFinished, tasks
<1>11. ASSUME NEW d \in Dirs, ReadDirectory(d) PROVE FileRequestsInv'
  BY <1>9, <1>11 DEF ReadDirectory
<1>12. ASSUME NEW f \in Files, ReadFile(f) PROVE FileRequestsInv'
  <2>1. PICK p : p = Head(responses).pull
    OBVIOUS
  <2>2. Read(Object(f, p)) /\ UNCHANGED <<main, backlog>>
        /\ (UNCHANGED task \/ task' = [task EXCEPT ![f] = "queued"])
    BY <1>12, <2>1 DEF ReadFile
  <2>3. Shifts(responses, responses') /\ Announces(responses[1], f)
    BY <2>2, ReadShifts, MessageFacts DEF Announces
  <2>4. Announced(f)
    BY <2>3 DEF Announced, Shifts
  <2>5. task[f] = "none"
    BY <2>4 DEF OnceInv
  <2> QED
    BY <1>9, <2>2, <2>5 DEF TypeInv, TaskTypes
<1>13. ASSUME NEW c, Grows(backlog, backlog', c), main' = main,
              c.req = "file" => /\ c.file \in Files /\ c.state = "pending"
                                /\ task[c.file] = "queued" /\ task'[c.file] = "open",
              \A f \in Files : \/ task'[f] = task[f]
                               \/ task'[f] \notin {"none", "queued", "open"}
                               \/ task[f] = "queued"
       PROVE  FileRequestsInv'
  <2> SUFFICES ASSUME main = "open" PROVE FileRequestsInv'
    BY <1>1, <1>13
  <2>1. c.req = "file" =>
          \A i \in DOMAIN backlog : backlog[i].req = "file" => backlog[i].file # c.file
    BY <1>13, NoRequestBefore
  <2>2. ASSUME NEW i \in DOMAIN backlog', backlog'[i].req = "file" PROVE FileRequest(i)'
    <3>1. CASE i \in DOMAIN backlog
      <4>1. backlog'[i] = backlog[i] /\ FileRequest(i)
        BY <1>13, <2>2, <3>1 DEF Grows, FileRequestsInv
      <4> QED
        BY <1>13, <4>1 DEF FileRequest
    <3>2. CASE i = Len(backlog')
      <4>1. backlog'[i] = c
        BY <1>13, <3>2 DEF Grows
      <4> QED
        BY <1>13, <2>2, <4>1 DEF FileRequest
    <3> QED
      BY <1>13, <3>1, <3>2 DEF Grows
  <2>3. ASSUME NEW i \in DOMAIN backlog', NEW j \in DOMAIN backlog',
               backlog'[i].req = "file", backlog'[j].req = "file",
               backlog'[i].file = backlog'[j].file
        PROVE  i = j
    <3>1. CASE i \in DOMAIN backlog /\ j \in DOMAIN backlog
      BY <1>13, <2>3, <3>1 DEF Grows, FileRequestsInv
    <3>2. CASE i \in DOMAIN backlog /\ j = Len(backlog')
      BY <1>13, <2>1, <2>3, <3>2 DEF Grows
    <3>3. CASE j \in DOMAIN backlog /\ i = Len(backlog')
      BY <1>13, <2>1, <2>3, <3>3 DEF Grows
    <3> QED
      BY <1>13, <3>1, <3>2, <3>3 DEF Grows
  <2> QED
    BY <2>2, <2>3 DEF FileRequestsInv
<1>14. ASSUME NEW f \in Files, StreamConnect(f) PROVE FileRequestsInv'
  <2>1. /\ main' = main /\ task[f] = "queued" /\ \A g \in Files \ {f} : task'[g] = task[g]
        /\ \/ UNCHANGED backlog /\ task'[f] = "ended"
           \/ Grows(backlog, backlog', Connection("file", f)) /\ task'[f] = "open"
    BY <1>14, ConnectGrows DEF StreamConnect, TypeInv, TaskTypes
  <2> QED
    BY <1>9, <1>13, <2>1 DEF Connection
<1>15. ASSUME NEW f \in Files, ReportConnect(f) PROVE FileRequestsInv'
  <2>1. /\ main' = main /\ task'[f] \in {"reporting", "ended"}
        /\ \A g \in Files \ {f} : task'[g] = task[g]
        /\ UNCHANGED backlog \/ Grows(backlog, backlog', Connection("success", f))
    BY <1>15, ConnectGrows DEF ReportConnect, TypeInv, TaskTypes
  <2> QED
    BY <1>9, <1>13, <2>1 DEF Connection
<1>16. ASSUME NEW f \in Files, StreamBlock(f) \/ StreamEnds(f) \/ Verify(f)
       PROVE  FileRequestsInv'
  BY <1>9, <1>16 DEF StreamBlock, StreamEnds, Verify, network, TypeInv, TaskTypes
<1>17. ASSUME NEW f \in Files, TaskFails(f) PROVE FileRequestsInv'
  <2>1. main' = main /\ task'[f] = "ended" /\ \A g \in Files \ {f} : task'[g] = task[g]
    BY <1>17 DEF TaskFails, TypeInv, TaskTypes
  <2> QED
    BY <1>8, <1>17, <2>1, FailureRestates
<1>18. ASSUME NEW f \in Files, ReportSend(f) PROVE FileRequestsInv'
  <2>1. main' = main /\ task'[f] = "ended" /\ \A g \in Files \ {f} : task'[g] = task[g]
    BY <1>18 DEF ReportSend, TypeInv, TaskTypes
  <2>2. CASE UNCHANGED backlog
    BY <1>9, <2>1, <2>2
  <2>3. CASE SendRequest("success", f)
    <3>1. PICK i \in DOMAIN backlog : SentAt(i, "success", f)
      BY <2>3, SendRestates
    <3>2. Restated(backlog, backlog')
      BY <2>3, SendRestates
    <3> QED
      BY <1>8, <2>1, <3>1, <3>2 DEF SentAt
  <2> QED
    BY <1>18, <2>2, <2>3 DEF ReportSend
<1>19. ASSUME NEW f \in Files, StreamRequest(f) PROVE FileRequestsInv'
  <2>1. /\ main' = main /\ task[f] = "open" /\ task'[f] \in {"streaming", "ended"}
        /\ \A g \in Files \ {f} : task'[g] = task[g]
    BY <1>19 DEF StreamRequest, TypeInv, TaskTypes
  <2>2. CASE UNCHANGED backlog
    BY <1>9, <2>1, <2>2
  <2>3. CASE SendRequest("file", f)
    <3> SUFFICES ASSUME main = "open" PROVE FileRequestsInv'
      BY <1>1, <2>1
    <3>1. /\ Restated(backlog, backlog')
          /\ \A j \in DOMAIN backlog : backlog'[j] = backlog[j]
                                       \/ (backlog[j].file = f /\ backlog'[j].state = "sent")
      <4>1. PICK i \in DOMAIN backlog : SentAt(i, "file", f)
        BY <2>3, SendRestates
      <4> QED
        BY <2>3, <4>1, SendRestates DEF SentAt
    <3>2. ASSUME NEW i \in DOMAIN backlog', backlog'[i].req = "file" PROVE FileRequest(i)'
      <4>1. /\ i \in DOMAIN backlog /\ backlog[i].req = "file"
            /\ backlog[i].file = backlog'[i].file /\ FileRequest(i)
        BY <3>1, <3>2 DEF Restated, FileRequestsInv
      <4> QED
        BY <2>1, <3>1, <4>1 DEF FileRequest
    <3> QED
      BY <3>1, <3>2 DEF FileRequestsInv, Restated
  <2> QED
    BY <1>19, <2>2, <2>3 DEF StreamRequest
<1>20. ASSUME NEW f \in Files, AcceptFile(f) \/ AcceptSuccess(f) PROVE FileRequestsInv'
  <2>1. Shifts(backlog, backlog') /\ main' = main /\ task' = task
    BY <1>20, AcceptShifts DEF AcceptFile, AcceptSuccess, tasks
  <2> SUFFICES ASSUME main = "open" PROVE FileRequestsInv'
    BY <1>1, <2>1
  <2>2. ASSUME NEW i \in DOMAIN backlog', backlog'[i].req = "file" PROVE FileRequest(i)'
    <3>1. i + 1 \in DOMAIN backlog /\ backlog'[i] = backlog[i + 1]
      BY <2>1 DEF Shifts
    <3>2. FileRequest(i + 1)
      BY <2>2, <3>1 DEF FileRequestsInv
    <3> QED
      BY <2>1, <3>1, <3>2 DEF FileRequest
  <2> QED
    BY <2>1, <2>2 DEF FileRequestsInv, Shifts
<1>21. CASE UNCHANGED <<main, backlog, tasks>>
  BY <1>9, <1>21 DEF tasks
<1>22. CASE UNCHANGED vars
  BY <1>21, <1>22 DEF vars, network
<1> QED
  BY <1>2, <1>3, <1>4, <1>5, <1>6, <1>7, <1>10, <1>11, <1>12, <1>14, <1>15, <1>16, <1>17, <1>18,
     <1>19, <1>20, <1>21, <1>22, MainFrame, BacklogFrame, TasksFrame

(* The ids are good at the beginning.                                      *)
LEMMA ReadyInit == Init => ReadyInv
BY FileRequestsInit DEF Init, ReadyInv, AnnouncedIsReady

(* The requests that have been sent, after each kind of change.            *)
LEMMA RequestedFacts ==
  ASSUME TypeInv, NEW i \in DOMAIN backlog, NEW f,
         backlog[i] = [Connection("file", f) EXCEPT !.state = "sent"]
  PROVE  backlog[i].req = "file" /\ backlog[i].file = f /\ backlog[i].state = "sent"
BY DEF Connection

(* See above.                                                              *)
LEMMA RequestedAfterAccept ==
  ASSUME Shifts(backlog, backlog')
  PROVE  \A f : Requested(f)' => Requested(f)
BY DEF Shifts, Requested

(* See above.                                                              *)
LEMMA RequestedAfterConnect ==
  ASSUME NEW c, Grows(backlog, backlog', c), c.state = "pending"
  PROVE  \A f : Requested(f)' => Requested(f)
BY DEF Grows, Requested, Connection

(* A task asks for its own file, once it is open.                          *)
LEMMA RequestedAfterTask ==
  ASSUME TypeInv, NEW f \in Files, TaskSteps(f)
  PROVE  \A g : Requested(g)' => Requested(g) \/ (g = f /\ task[f] = "open")
<1>1. CASE UNCHANGED backlog
  BY <1>1 DEF Requested
<1>2. ASSUME NEW req \in {"file", "success"}, Connect(req, f)
      PROVE  \A g : Requested(g)' => Requested(g)
  <2>1. Grows(backlog, backlog', Connection(req, f))
    BY <1>2, ConnectGrows
  <2> QED
    BY <2>1, RequestedAfterConnect DEF Connection
<1>3. ASSUME NEW req \in {"file", "success"}, SendRequest(req, f), req = "file" => task[f] = "open"
      PROVE  \A g : Requested(g)' => Requested(g) \/ (g = f /\ task[f] = "open")
  <2>1. Restated(backlog, backlog')
    BY <1>3, SendRestates
  <2>2. PICK i \in DOMAIN backlog : SentAt(i, req, f)
    BY <1>3, SendRestates
  <2>3. backlog'[i].req = req /\ backlog'[i].file = f
    BY <2>1, <2>2 DEF Restated, SentAt
  <2> QED
    BY <1>3, <2>1, <2>2, <2>3 DEF Restated, SentAt, Requested, Connection
<1>4. CASE TaskFails(f)
  <2>1. /\ Restated(backlog, backlog')
        /\ \A i \in DOMAIN backlog : backlog'[i].state = "eof" \/ backlog'[i] = backlog[i]
    BY <1>4, FailureRestates
  <2> QED
    BY <2>1 DEF Restated, Requested, Connection
<1> QED
  BY <1>1, <1>2, <1>3, <1>4
     DEF TaskSteps, StreamConnect, StreamRequest, StreamBlock, StreamEnds, Verify, ReportConnect,
         ReportSend, network

(* No task connects twice.                                                 *)
LEMMA WaitingTask ==
  ASSUME TypeInv, NEW f \in Files, TaskSteps(f), task'[f] \in {"queued", "open"}
  PROVE  task[f] \in {"queued", "open"}
BY DEF TaskSteps, StreamConnect, StreamRequest, StreamBlock, StreamEnds, Verify, ReportConnect,
       ReportSend, TaskFails, TypeInv, TaskTypes

(* Every step keeps the ids good that the client knows and has not used.   *)
LEMMA ReadyStep == TypeInv /\ SessionInv /\ OnceInv /\ ReadyInv /\ [Next]_vars => ReadyInv'
<1> SUFFICES ASSUME TypeInv, SessionInv, OnceInv, ReadyInv, [Next]_vars PROVE AnnouncedIsReady'
  BY FileRequestsStep DEF ReadyInv
<1>0. FileRequestsInv /\ AnnouncedIsReady
  BY DEF ReadyInv
<1>1. ASSUME main' # "open" PROVE AnnouncedIsReady'
  BY <1>1 DEF AnnouncedIsReady
<1>2. ASSUME main' = main,
             main = "open" => \A f \in Files : f \in visited' /\ Awaited(f)' =>
                                \/ f \in ready'
                                \/ f \in visited /\ Awaited(f) /\ (f \in ready => f \in ready')
      PROVE  AnnouncedIsReady'
  <2> SUFFICES ASSUME main = "open", NEW f \in Files \cap visited', Awaited(f)'
               PROVE  f \in ready'
    BY <1>2 DEF AnnouncedIsReady, Awaited, Announced, Announces, Requested
  <2>1. f \in visited /\ Awaited(f) => f \in ready
    BY <1>0 DEF AnnouncedIsReady, Awaited, Announced, Announces, Requested
  <2> QED
    BY <1>2, <2>1
<1>3. ASSUME UNCHANGED <<main, visited, ready>>, hashing' \subseteq hashing,
             \A f \in Files : /\ Announced(f)' => Awaited(f)
                              /\ task'[f] \in {"queued", "open"} => Awaited(f)
                              /\ Requested(f)' => Awaited(f)
      PROVE  AnnouncedIsReady'
  BY <1>2, <1>3 DEF Awaited
<1>4. CASE StartClient
  BY <1>1, <1>4 DEF StartClient
<1>5. CASE SendFirstRequest \/ ReadFails
  BY <1>1, <1>5 DEF SendFirstRequest, ReadFails, network, SessionInv, ClientMatchesMain
<1>6. CASE FirstRequestFails \/ ExitFinished \/ ExitAborted
  BY <1>1, <1>6 DEF FirstRequestFails, ExitFinished, ExitAborted, ProcessEnds
<1>7. ASSUME NEW signal \in {"SIGINT", "other"}, ClientDies(signal) PROVE AnnouncedIsReady'
  BY <1>1, <1>7 DEF ClientDies, ProcessEnds
<1>8. CASE ServerExits \/ ServerDies \/ NetworkDrops
  BY <1>1, <1>8, CutFacts DEF ServerExits, ServerDies, ServerProcessEnds
<1>9. CASE AcceptStart \/ AcceptContinue
  BY <1>9 DEF AcceptStart, AcceptContinue, StartManager, AnnouncedIsReady
<1>10. CASE AcceptRefused
  <2>1. PICK req \in {"start", "continue"} : Accept(req)
    BY <1>10 DEF AcceptRefused
  <2>2. main \in {"none", "waiting"}
    BY <2>1, AcceptedClient DEF SessionInv
  <2> QED
    BY <1>1, <1>10, <2>2 DEF AcceptRefused
(* The client's main.                                                      *)
<1>11. ASSUME NEW msg, Read(msg), UNCHANGED <<main, visited, ready, hashing, backlog>>,
              \A f \in Files : task'[f] = task[f] \/ Announced(f)
       PROVE  AnnouncedIsReady'
  <2>1. \A f : Announced(f)' => Announced(f)
    BY <1>11, AnnouncedAfterRead
  <2>2. \A f : Requested(f)' => Requested(f)
    BY <1>11 DEF Requested
  <2> QED
    BY <1>3, <1>11, <2>1, <2>2 DEF Awaited
<1>12. CASE ReadStarted \/ ReadFinished
  BY <1>11, <1>12 DEF ReadStarted, ReadFinished, session, offers, tasks
<1>13. ASSUME NEW d \in Dirs, ReadDirectory(d) PROVE AnnouncedIsReady'
  BY <1>11, <1>13 DEF ReadDirectory, session, offers
<1>14. ASSUME NEW f \in Files, ReadFile(f) PROVE AnnouncedIsReady'
  <2>1. PICK p : p = Head(responses).pull
    OBVIOUS
  <2>2. Read(Object(f, p)) /\ UNCHANGED <<main, backlog, session, offers>>
        /\ (UNCHANGED task \/ task' = [task EXCEPT ![f] = "queued"])
    BY <1>14, <2>1 DEF ReadFile
  <2>3. Shifts(responses, responses') /\ Announces(responses[1], f)
    BY <2>2, ReadShifts, MessageFacts DEF Announces
  <2>4. Announced(f)
    BY <2>3 DEF Announced, Shifts
  <2> QED
    BY <1>11, <2>2, <2>4 DEF session, offers, TypeInv, TaskTypes
<1>15. ASSUME NEW f \in Files, TaskSteps(f) PROVE AnnouncedIsReady'
  <2>1. /\ UNCHANGED <<main, responses, session, ready>>
        /\ \A g \in Files \ {f} : task'[g] = task[g]
    BY <1>15, TaskStepFacts
  <2>2. task'[f] \in {"queued", "open"} => task[f] \in {"queued", "open"}
    BY <1>15, WaitingTask
  <2>3. \A g : Requested(g)' => Requested(g) \/ (g = f /\ task[f] = "open")
    BY <1>15, RequestedAfterTask
  <2> QED
    BY <1>3, <2>1, <2>2, <2>3, SameAnnounced DEF Awaited, session
(* The accept loop.                                                        *)
<1>16. ASSUME NEW f \in Files, AcceptFile(f) PROVE AnnouncedIsReady'
  <2>1. /\ UNCHANGED <<main, responses, hashing, visited, task>>
        /\ ready' = ready \ {f} /\ Accept("file") /\ Head(backlog).file = f
    BY <1>16 DEF AcceptFile, session, tasks
  <2>2. /\ Shifts(backlog, backlog') /\ 1 \in DOMAIN backlog
        /\ backlog[1].req = "file" /\ backlog[1].file = f /\ backlog[1].state # "eof"
        /\ backlog[1].state \in {"sent", "orphan"}
    BY <2>1, AcceptShifts DEF Shifts
  <2>3. main = "open" => /\ task[f] \notin {"none", "queued", "open"}
                         /\ f \notin hashing /\ ~Announced(f)
    BY <1>0, <2>2 DEF FileRequestsInv, FileRequest, OnceInv, NoTaskYet
  <2>4. main = "open" => ~Requested(f)'
    <3> SUFFICES ASSUME main = "open", NEW i \in DOMAIN backlog',
                        backlog'[i] = [Connection("file", f) EXCEPT !.state = "sent"]
                 PROVE  FALSE
      BY DEF Requested
    <3>1. i + 1 \in DOMAIN backlog /\ backlog[i + 1] = backlog'[i] /\ i + 1 # 1
      BY <2>2 DEF Shifts
    <3>2. backlog[i + 1].req = "file" /\ backlog[i + 1].file = f
      BY <3>1 DEF Connection
    <3> QED
      BY <1>0, <2>2, <3>1, <3>2 DEF FileRequestsInv
  <2>5. \A g : Requested(g)' => Requested(g)
    BY <2>2, RequestedAfterAccept
  <2> QED
    BY <1>2, <2>1, <2>3, <2>4, <2>5, SameAnnounced DEF Awaited
<1>17. ASSUME NEW f \in Files, AcceptSuccess(f) PROVE AnnouncedIsReady'
  <2>1. Shifts(backlog, backlog') /\ UNCHANGED <<main, responses, session, offers, task>>
    BY <1>17, AcceptShifts DEF AcceptSuccess, tasks
  <2> QED
    BY <1>3, <2>1, RequestedAfterAccept, SameAnnounced DEF Awaited, session, offers
(* The manager.                                                            *)
<1>18. ASSUME UNCHANGED <<main, ready, hashing, task, backlog>>,
              visited' = visited \/ \E d \in Dirs : visited' = visited \cup {d},
              \A f \in Files : Announced(f)' => Announced(f)
       PROVE  AnnouncedIsReady'
  <2>1. \A f \in Files : Awaited(f)' => Awaited(f)
    BY <1>18 DEF Awaited, Requested
  <2> QED
    BY <1>2, <1>18, <2>1, TreeAssumption
<1>19. CASE SendStarted \/ SendFinished
  <2>1. PICK msg \in {Started, Finished} : Respond(msg)
    BY <1>19 DEF SendStarted, SendFinished
  <2>2. IF main = "open" THEN Grows(responses, responses', msg) ELSE UNCHANGED responses
    BY <2>1, FrameResponds
  <2>3. \A e : Announced(e)' <=> Announced(e)
    BY <2>2, AnnouncedAfterResponse, SameAnnounced, MessageFacts DEF Announces
  <2> QED
    BY <1>18, <1>19, <2>3 DEF SendStarted, SendFinished, offers, tasks
<1>20. ASSUME NEW d \in Dirs, HandleDirectory(d) PROVE AnnouncedIsReady'
  <2>1. IF main = "open" THEN Grows(responses, responses', Object(d, NoPull))
                         ELSE UNCHANGED responses
    BY <1>20, DirectoryResponds
  <2>2. \A f \in Files : Announced(f)' <=> Announced(f)
    BY <2>1, AnnouncedAfterResponse, SameAnnounced, MessageFacts, TreeAssumption DEF Announces
  <2> QED
    BY <1>18, <1>20, <2>2 DEF HandleDirectory, offers, tasks
<1>21. ASSUME NEW f \in Files, HandleFile(f) PROVE AnnouncedIsReady'
  <2>1. /\ UNCHANGED <<main, responses, task, backlog>>
        /\ f \notin visited /\ visited' = visited \cup {f}
        /\ \/ f \in ready' /\ ready \subseteq ready' /\ hashing' \subseteq hashing \cup {f}
           \/ UNCHANGED <<ready, hashing>>
    BY <1>21 DEF HandleFile, Unvisited, network, tasks
  <2>2. \A g \in Files : Announced(g)' => Announced(g)
    BY <2>1, SameAnnounced
  <2>3. \A g \in Files : Requested(g)' => Requested(g)
    BY <2>1 DEF Requested
  <2>4. main = "open" => ~Announced(f) /\ task[f] = "none" /\ f \notin hashing
    BY <2>1 DEF OnceInv, NoTaskYet, TypeInv, SessionTypes
  <2>5. main = "open" => ~Requested(f)
    BY <1>0, <2>4, NoRequestBefore, RequestedFacts DEF Requested
  <2> QED
    BY <1>2, <2>1, <2>2, <2>3, <2>4, <2>5 DEF Awaited
<1>22. ASSUME NEW f \in Files, HashFile(f) PROVE AnnouncedIsReady'
  <2>1. PICK p : \/ UNCHANGED responses
                 \/ main = "open" /\ Grows(responses, responses', Object(f, p))
    BY <1>22, HashResponds
  <2>2. \A e : Announced(e)' => Announced(e) \/ e = f
    BY <2>1, AnnouncedAfterResponse, SameAnnounced, MessageFacts DEF Announces
  <2>3. /\ UNCHANGED <<visited, main, backlog, task, ready>>
        /\ f \in hashing /\ hashing' \subseteq hashing
    BY <1>22 DEF HashFile, offers, tasks
  <2> QED
    BY <1>3, <2>2, <2>3 DEF Awaited, Requested
<1>23. ASSUME UNCHANGED <<main, visited, ready, hashing, responses, task, backlog>>
       PROVE  AnnouncedIsReady'
  BY <1>18, <1>23, SameAnnounced
<1>24. CASE CrawlEnds
  BY <1>23, <1>24 DEF CrawlEnds, network, offers, tasks
<1>25. ASSUME NEW f \in Files, StreamFile(f) PROVE AnnouncedIsReady'
  BY <1>23, <1>25 DEF StreamFile, session, tasks
<1>26. CASE UNCHANGED <<session, offers, main, responses, backlog, tasks>>
  BY <1>23, <1>26 DEF session, offers, tasks
<1>27. CASE UNCHANGED vars
  BY <1>26, <1>27 DEF vars, network
<1>28. CASE LeavingOut
  BY <1>23, <1>28, LeavingOutFacts DEF network, offers, tasks
<1> QED
  BY <1>4, <1>5, <1>6, <1>7, <1>8, <1>9, <1>10, <1>12, <1>13, <1>14, <1>15, <1>16, <1>17, <1>19,
     <1>20, <1>21, <1>22, <1>24, <1>25, <1>26, <1>27, <1>28, MainFrame,
     SessionFrame, ResponsesFrame, BacklogFrame, TasksFrame DEF TaskSteps

-------------------------------------------------------------------------------
(* A run that ends cleanly has lost nothing.                               *)

(* Nothing has been lost at the beginning.                                 *)
LEMMA CleanInit == Init => CleanInv
BY DEF Init, CleanInv, UnfinishedIsNoted, HandledIsAccounted, AllSaid, AllIsAccounted,
       CleanIsOver, CleanRunIsComplete

(* A file whose transfer has begun stays in to_complete until the copy has *)
(* been verified.                                                          *)
LEMMA UnfinishedIsNotedStep == TypeInv /\ UnfinishedIsNoted /\ Next => UnfinishedIsNoted'
<1> SUFFICES ASSUME TypeInv, UnfinishedIsNoted, Next PROVE UnfinishedIsNoted'
  OBVIOUS
<1>1. CASE FirstRequestFails \/ ExitFinished \/ ExitAborted
  BY <1>1 DEF FirstRequestFails, ExitFinished, ExitAborted, ProcessEnds, UnfinishedIsNoted
<1>2. ASSUME NEW signal \in {"SIGINT", "other"}, ClientDies(signal) PROVE UnfinishedIsNoted'
  BY <1>2 DEF ClientDies, ProcessEnds, UnfinishedIsNoted
<1>3. ASSUME NEW d \in Dirs, ReadDirectory(d) PROVE UnfinishedIsNoted'
  BY <1>3 DEF ReadDirectory, UnfinishedIsNoted
<1>4. ASSUME NEW f \in Files, ReadFile(f) PROVE UnfinishedIsNoted'
  BY <1>4 DEF ReadFile, UnfinishedIsNoted, TypeInv, TaskTypes
<1>5. ASSUME NEW f \in Files, StreamConnect(f) \/ StreamRequest(f) \/ StreamBlock(f) \/ StreamEnds(f)
      PROVE  UnfinishedIsNoted'
  BY <1>5 DEF StreamConnect, StreamRequest, StreamBlock, StreamEnds, UnfinishedIsNoted, TypeInv,
              TaskTypes
<1>6. ASSUME NEW f \in Files, Verify(f) PROVE UnfinishedIsNoted'
  BY <1>6, VerifyFacts DEF UnfinishedIsNoted, TypeInv, TaskTypes
<1>7. ASSUME NEW f \in Files, ReportConnect(f) \/ ReportSend(f) \/ TaskFails(f)
      PROVE  UnfinishedIsNoted'
  BY <1>7 DEF ReportConnect, ReportSend, TaskFails, UnfinishedIsNoted, TypeInv, TaskTypes
<1>8. CASE UNCHANGED tasks
  BY <1>8 DEF tasks, UnfinishedIsNoted
<1> QED
  BY <1>1, <1>2, <1>3, <1>4, <1>5, <1>6, <1>7, <1>8, TasksFrame

(* What is accounted for stays so.                                         *)
Stays == \A e \in Entries : Accounted(e) => Accounted(e)'

(* What is accounted for stays so, except that the end of the client, a    *)
(* new session or a cut of the connection may forget it.                   *)
LEMMA AccountedStays ==
  ASSUME TypeInv, SessionInv, UnfinishedIsNoted, Next
  PROVE  \/ Stays
         \/ FirstRequestFails \/ ExitFinished \/ ExitAborted
         \/ \E signal \in {"SIGINT", "other"} : ClientDies(signal)
         \/ AcceptStart \/ AcceptContinue
         \/ (ServerExits \/ ServerDies \/ NetworkDrops) /\ responses' # responses
<1>1. ASSUME made \subseteq made', omitted \subseteq omitted',
             \A e \in to_complete : e \in to_complete' \/ (e \in Files /\ dst'[e] \in Contents),
             \A f \in Files : dst'[f] = dst[f] \/ f \in to_complete',
             \A e \in Entries : Announced(e) => Announced(e)' \/ e \in made' \cup to_complete'
      PROVE  Stays
  BY <1>1 DEF Accounted, Stays
<1>2. ASSUME UNCHANGED <<made, dst, to_complete>>, omitted \subseteq omitted',
             \A e \in Entries : Announced(e) => Announced(e)'
      PROVE  Stays
  BY <1>1, <1>2
<1>3. ASSUME NEW msg, Read(msg), \A e \in Entries : ~Announces(msg, e),
             UNCHANGED <<made, dst, to_complete, omitted>>
      PROVE  Stays
  BY <1>2, <1>3, AnnouncedAfterRead
<1>4. CASE ReadStarted \/ ReadFinished
  <2>1. \A e : ~Announces(Started, e) /\ ~Announces(Finished, e)
    BY MessageFacts DEF Announces
  <2> QED
    BY <1>3, <1>4, <2>1 DEF ReadStarted, ReadFinished, target, session, tasks
<1>5. ASSUME NEW d \in Dirs, ReadDirectory(d) PROVE Stays
  <2>1. /\ Read(Object(d, NoPull)) /\ UNCHANGED <<dst, omitted>>
        /\ made \subseteq made' /\ to_complete \subseteq to_complete'
        /\ d \in made' \cup to_complete'
    BY <1>5 DEF ReadDirectory, session
  <2>2. \A e : Announces(Object(d, NoPull), e) => e = d
    BY MessageFacts DEF Announces
  <2> QED
    BY <1>1, <2>1, <2>2, AnnouncedAfterRead
<1>6. ASSUME NEW f \in Files, ReadFile(f) PROVE Stays
  <2>1. PICK msg : msg = Object(f, Head(responses).pull)
    OBVIOUS
  <2>2. /\ Read(msg) /\ UNCHANGED <<made, omitted>> /\ to_complete' = to_complete \cup {f}
        /\ dst' = dst \/ dst' = [dst EXCEPT ![f] = <<>>]
    BY <1>6, <2>1 DEF ReadFile, session
  <2>3. \A g \in Files \ {f} : dst'[g] = dst[g]
    BY <2>2 DEF TypeInv, TargetTypes
  <2>4. \A e : Announces(msg, e) => e = f
    BY <2>1, MessageFacts DEF Announces
  <2> QED
    BY <1>1, <2>2, <2>3, <2>4, AnnouncedAfterRead
<1>7. ASSUME NEW f \in Files, TaskSteps(f) PROVE Stays
  <2>1. UNCHANGED <<made, session, responses>>
    BY <1>7, TaskStepFacts
  <2>2. \A e : Announced(e) => Announced(e)'
    BY <2>1, SameAnnounced
  <2>3. CASE StreamBlock(f)
    <3>1. f \in to_complete /\ UNCHANGED to_complete
      BY <2>3 DEF StreamBlock, UnfinishedIsNoted
    <3>2. \A g \in Files \ {f} : dst'[g] = dst[g]
      BY <2>3, BlockIsWritten DEF TypeInv, TargetTypes
    <3> QED
      BY <1>1, <2>1, <2>2, <3>1, <3>2 DEF session
  <2>4. CASE Verify(f)
    <3>1. UNCHANGED dst /\ (\/ to_complete' = to_complete
                            \/ to_complete' = to_complete \ {f} /\ dst[f] = pull[f].sha256)
      BY <2>4, VerifyFacts DEF target
    <3>2. pull[f].sha256 \in Contents
      BY <1>7, TaskStepFacts DEF TypeInv, TaskTypes
    <3> QED
      BY <1>1, <2>1, <2>2, <3>1, <3>2 DEF session
  <2>5. CASE UNCHANGED <<dst, to_complete>>
    BY <1>2, <2>1, <2>2, <2>5 DEF session
  <2> QED
    BY <1>7, <2>3, <2>4, <2>5
       DEF TaskSteps, StreamConnect, StreamRequest, StreamEnds, ReportConnect, ReportSend, TaskFails,
           target, tasks
<1>8. CASE StartClient
  BY <1>2, <1>8, SameAnnounced DEF StartClient, target, session, tasks
<1>9. CASE SendStarted \/ SendFinished
  <2>1. PICK msg \in {Started, Finished} : Respond(msg)
    BY <1>9 DEF SendStarted, SendFinished
  <2>2. \A e : Announced(e) => Announced(e)'
    BY <2>1, FrameResponds, AnnouncedAfterResponse, SameAnnounced
  <2> QED
    BY <1>2, <1>9, <2>2 DEF SendStarted, SendFinished, target, tasks
<1>10. ASSUME NEW d \in Dirs, HandleDirectory(d) PROVE Stays
  <2>1. \A e : Announced(e) => Announced(e)'
    BY <1>10, DirectoryResponds, AnnouncedAfterResponse, SameAnnounced
  <2> QED
    BY <1>2, <1>10, <2>1 DEF HandleDirectory, target, tasks
<1>11. ASSUME NEW f \in Files, HashFile(f) PROVE Stays
  <2>1. PICK p : \/ UNCHANGED responses
                 \/ main = "open" /\ Grows(responses, responses', Object(f, p))
    BY <1>11, HashResponds
  <2>2. \A e : Announced(e) => Announced(e)'
    BY <2>1, AnnouncedAfterResponse, SameAnnounced
  <2> QED
    BY <1>2, <1>11, <2>2 DEF HashFile, target, tasks
<1>12. ASSUME UNCHANGED <<made, dst, to_complete, omitted, responses>> PROVE Stays
  BY <1>2, <1>12, SameAnnounced
<1>13. CASE AcceptRefused
  BY <1>12, <1>13 DEF AcceptRefused, target, session, tasks
<1>14. CASE (ServerExits \/ ServerDies \/ NetworkDrops) /\ responses' = responses
  BY <1>12, <1>14 DEF ServerExits, ServerDies, ServerProcessEnds, NetworkDrops, target, session,
                      tasks
<1>15. ASSUME NEW f \in Files, HandleFile(f) \/ AcceptFile(f) \/ StreamFile(f) PROVE Stays
  BY <1>12, <1>15 DEF HandleFile, AcceptFile, StreamFile, target, session, network, tasks
<1>16. CASE CrawlEnds
  BY <1>12, <1>16 DEF CrawlEnds, target, network, tasks
<1>17. CASE UNCHANGED <<target, session, offers, main, responses, tasks>>
  BY <1>12, <1>17 DEF target, session, tasks
<1>18. CASE ServerExits \/ ServerDies \/ NetworkDrops
  BY <1>14, <1>18
<1>19. CASE FirstRequestFails \/ ExitFinished \/ ExitAborted \/ AcceptStart \/ AcceptContinue
  BY <1>19
<1>20. CASE LeavingOut
  BY <1>2, <1>20, LeavingOutFacts, SameAnnounced DEF target, network, tasks
<1> QED
  <2> SUFFICES ASSUME ~(ServerExits \/ ServerDies \/ NetworkDrops),
                      ~(FirstRequestFails \/ ExitFinished \/ ExitAborted
                        \/ AcceptStart \/ AcceptContinue),
                      ~(\E signal \in {"SIGINT", "other"} : ClientDies(signal))
               PROVE  Stays
    BY <1>18, <1>19
  <2> QED
    BY <1>4, <1>5, <1>6, <1>7, <1>8, <1>9, <1>10, <1>11, <1>13, <1>15, <1>16, <1>17, <1>20,
       TargetFrame, SessionFrame, ResponsesFrame, TasksFrame DEF TaskSteps

(* What the crawler has handled is being hashed, or accounted for.         *)
LEMMA HandledIsAccountedStep ==
  TypeInv /\ SessionInv /\ DeliveredInv /\ CleanInv /\ Next => HandledIsAccounted'
<1> SUFFICES ASSUME TypeInv, SessionInv, DeliveredInv, CleanInv, Next PROVE HandledIsAccounted'
  OBVIOUS
<1>0. UnfinishedIsNoted /\ HandledIsAccounted
  BY DEF CleanInv
<1>1. ASSUME main' # "open" PROVE HandledIsAccounted'
  BY <1>1 DEF HandledIsAccounted
<1>2. CASE FirstRequestFails \/ ExitFinished \/ ExitAborted
  BY <1>1, <1>2 DEF FirstRequestFails, ExitFinished, ExitAborted, ProcessEnds
<1>3. ASSUME NEW signal \in {"SIGINT", "other"}, ClientDies(signal) PROVE HandledIsAccounted'
  BY <1>1, <1>3 DEF ClientDies, ProcessEnds
<1>4. CASE StartClient
  BY <1>1, <1>4 DEF StartClient
<1>5. CASE AcceptStart \/ AcceptContinue
  BY <1>5 DEF AcceptStart, AcceptContinue, StartManager, HandledIsAccounted
<1>6. CASE AcceptRefused
  <2>1. PICK req \in {"start", "continue"} : Accept(req)
    BY <1>6 DEF AcceptRefused
  <2>2. main \in {"none", "waiting"}
    BY <2>1, AcceptedClient DEF SessionInv
  <2> QED
    BY <1>1, <1>6, <2>2 DEF AcceptRefused
<1>7. CASE ServerExits \/ ServerDies \/ NetworkDrops
  BY <1>1, <1>7, CutFacts DEF ServerExits, ServerDies, ServerProcessEnds
<1>8. ASSUME Stays, main' = main,
             main = "open" => \A e \in visited' \ visited : Accounted(e)' \/ e \in hashing',
             main = "open" => \A e \in hashing : Accounted(e)' \/ e \in hashing'
      PROVE  HandledIsAccounted'
  BY <1>0, <1>8 DEF HandledIsAccounted, Stays, TypeInv, SessionTypes
<1>9. ASSUME Stays, UNCHANGED <<main, visited, hashing>> PROVE HandledIsAccounted'
  BY <1>8, <1>9
<1>10. ASSUME NEW d \in Dirs, HandleDirectory(d), Stays PROVE HandledIsAccounted'
  <2>1. IF main = "open" THEN Grows(responses, responses', Object(d, NoPull))
                         ELSE UNCHANGED responses
    BY <1>10, DirectoryResponds
  <2>2. main = "open" => Announced(d)'
    BY <2>1, AnnouncedAfterResponse, MessageFacts DEF Announces
  <2>3. visited' = visited \cup {d} /\ UNCHANGED <<main, hashing>>
    BY <1>10 DEF HandleDirectory
  <2> QED
    BY <1>8, <1>10, <2>2, <2>3 DEF Accounted
<1>11. ASSUME NEW f \in Files, HandleFile(f), Stays PROVE HandledIsAccounted'
  <2>1. /\ visited' = visited \cup {f} /\ UNCHANGED <<main, dst>> /\ hashing \subseteq hashing'
        /\ f \in completed \/ f \in hashing'
    BY <1>11 DEF HandleFile, network, target
  <2>2. f \in completed => dst[f] \in Contents
    BY DEF DeliveredInv, CompletedIsDelivered
  <2> QED
    BY <1>8, <1>11, <2>1, <2>2 DEF Accounted
<1>12. ASSUME NEW f \in Files, HashFile(f), Stays PROVE HandledIsAccounted'
  <2> DEFINE p == [bytes |-> bytes[f], sha256 |-> src[f]]
  <2>1. /\ UNCHANGED <<main, visited>> /\ hashing' = hashing \ {f}
        /\ f \in omitted' \/ Respond(Object(f, p))
    BY <1>12 DEF HashFile
  <2>2. p \in [bytes : Lengths, sha256 : Contents]
    BY <1>12 DEF HashFile, TypeInv, ServedTypes, SessionTypes
  <2> HIDE DEF p
  <2>3. main = "open" /\ Respond(Object(f, p)) => Announced(f)'
    BY <2>2, RespondGrows, AnnouncedAfterResponse, MessageFacts DEF Announces
  <2> QED
    BY <1>8, <1>12, <2>1, <2>3 DEF Accounted
<1>13. CASE Stays /\ (SendStarted \/ CrawlEnds \/ SendFinished)
  BY <1>9, <1>13 DEF SendStarted, CrawlEnds, SendFinished, network
<1>14. ASSUME NEW f \in Files, AcceptFile(f) \/ StreamFile(f), Stays PROVE HandledIsAccounted'
  BY <1>9, <1>14 DEF AcceptFile, StreamFile, session
<1>15. CASE Stays /\ UNCHANGED <<session, offers, main>>
  BY <1>9, <1>15 DEF session
<1>16. CASE Stays /\ LeavingOut
  BY <1>9, <1>16, LeavingOutFacts DEF network
<1>17. CASE Stays
  BY <1>2, <1>3, <1>4, <1>5, <1>6, <1>7, <1>10, <1>11, <1>12, <1>13, <1>14, <1>15, <1>16, <1>17,
     MainFrame, SessionFrame
<1> QED
  BY <1>0, <1>2, <1>3, <1>5, <1>7, <1>17, AccountedStays

(* The crawl is over when the manager is idle, and stays what it was until *)
(* the next session.                                                       *)
LEMMA NothingMoreIsVisited ==
  ASSUME Next, manager = "idle", ~AcceptStart, ~AcceptContinue
  PROVE  /\ manager' = "idle" /\ visited' = visited /\ omitted \subseteq omitted'
         /\ \A e \in Entries : LeftOut(e) => LeftOut(e)'
<1>1. CASE ServerExits \/ ServerDies
  BY <1>1 DEF ServerExits, ServerDies, ServerProcessEnds, LeftOut
<1>2. CASE SendStarted \/ CrawlEnds \/ SendFinished \/ LeavingOut
  BY <1>2, LeavingOutFacts DEF SendStarted, CrawlEnds, SendFinished
<1>3. ASSUME NEW e \in Entries, HandleDirectory(e) \/ HandleFile(e) PROVE FALSE
  BY <1>3 DEF HandleDirectory, HandleFile, Unvisited
<1>4. ASSUME NEW f \in Files, HashFile(f)
      PROVE  /\ manager' = "idle" /\ visited' = visited /\ omitted \subseteq omitted'
             /\ \A e \in Entries : LeftOut(e) => LeftOut(e)'
  BY <1>4 DEF HashFile, LeftOut
<1>5. CASE UNCHANGED session
  BY <1>5 DEF session, LeftOut
<1>6. ASSUME NEW f \in Files, AcceptFile(f) \/ StreamFile(f) PROVE UNCHANGED session
  BY <1>6 DEF AcceptFile, StreamFile
<1> QED
  BY <1>1, <1>2, <1>3, <1>4, <1>5, <1>6, SessionFrame DEF Entries

(* Finished is said when everything that is not left out has been handled  *)
(* and hashed.                                                             *)
LEMMA AllIsAccountedStep == TypeInv /\ SessionInv /\ CleanInv /\ Next => AllIsAccounted'
<1> SUFFICES ASSUME TypeInv, SessionInv, CleanInv, Next PROVE AllIsAccounted'
  OBVIOUS
<1>0. UnfinishedIsNoted /\ HandledIsAccounted /\ AllIsAccounted
  BY DEF CleanInv
<1>1. ASSUME ~AllSaid' PROVE AllIsAccounted'
  BY <1>1 DEF AllIsAccounted
<1>2. CASE FirstRequestFails \/ ExitFinished \/ ExitAborted
  BY <1>1, <1>2 DEF FirstRequestFails, ExitFinished, ExitAborted, ProcessEnds, AllSaid
<1>3. ASSUME NEW signal \in {"SIGINT", "other"}, ClientDies(signal) PROVE AllIsAccounted'
  BY <1>1, <1>3 DEF ClientDies, ProcessEnds, AllSaid
<1>4. CASE StartClient
  BY <1>1, <1>4 DEF StartClient, SessionInv, ClientMatchesMain, AllSaid
<1>5. CASE AcceptStart \/ AcceptContinue
  <2>1. PICK req \in {"start", "continue"} : Accept(req)
    BY <1>5 DEF AcceptStart, AcceptContinue
  <2>2. main \in {"none", "waiting"}
    BY <2>1, AcceptedClient DEF SessionInv
  <2>3. responses = <<>> /\ client # "draining"
    BY <2>2 DEF SessionInv, ClientMatchesMain
  <2>4. responses' = responses /\ client' = client
    BY <1>5 DEF AcceptStart, AcceptContinue, process, phase
  <2> QED
    BY <1>1, <2>3, <2>4 DEF AllSaid
<1> SUFFICES ASSUME ~AcceptStart, ~AcceptContinue PROVE AllIsAccounted'
  BY <1>5
<1>6. CASE (ServerExits \/ ServerDies \/ NetworkDrops) /\ responses' # responses
  <2>1. (CutMain \/ NetworkDrops) /\ client' = client
    BY <1>6 DEF ServerExits, ServerDies, ServerProcessEnds, NetworkDrops, process, phase
  <2>2. responses' = <<>> /\ responses # <<>>
    BY <1>6, <2>1, CutFacts
  <2>3. client # "draining"
    BY <2>2 DEF SessionInv, FinishedLast
  <2> QED
    BY <1>1, <2>1, <2>2, <2>3 DEF AllSaid
<1>7. ASSUME Stays, AllSaid' => AllSaid PROVE AllIsAccounted'
  <2> SUFFICES ASSUME AllSaid PROVE AllIsAccounted'
    BY <1>1, <1>7
  <2>1. manager = "idle"
    BY DEF AllSaid, SessionInv, FinishedLast
  <2>2. visited' = visited /\ \A e \in Entries : LeftOut(e) => LeftOut(e)'
    BY <2>1, NothingMoreIsVisited
  <2> QED
    BY <1>0, <1>7, <2>2 DEF AllIsAccounted, Stays
<1>8. ASSUME NEW msg, Read(msg), Stays, client' = client \/ msg = Finished PROVE AllIsAccounted'
  <2>1. Shifts(responses, responses') /\ responses[1] = msg /\ 1 \in DOMAIN responses
    BY <1>8, ReadShifts DEF Shifts
  <2> QED
    BY <1>7, <1>8, <2>1 DEF AllSaid, Shifts
<1>9. CASE Stays /\ (ReadStarted \/ ReadFinished)
  BY <1>8, <1>9 DEF ReadStarted, ReadFinished
<1>10. ASSUME NEW d \in Dirs, ReadDirectory(d), Stays PROVE AllIsAccounted'
  BY <1>8, <1>10 DEF ReadDirectory, process, phase
<1>11. ASSUME NEW f \in Files, ReadFile(f), Stays PROVE AllIsAccounted'
  <2>1. PICK msg : msg = Object(f, Head(responses).pull)
    OBVIOUS
  <2>2. Read(msg) /\ client' = client
    BY <1>11, <2>1 DEF ReadFile, process, phase
  <2> QED
    BY <1>8, <1>11, <2>2
<1>12. ASSUME NEW msg, UNCHANGED responses \/ Grows(responses, responses', msg), msg # Finished,
              client' = client, Stays
       PROVE  AllIsAccounted'
  BY <1>7, <1>12 DEF AllSaid, Grows
<1>13. CASE Stays /\ SendStarted
  BY <1>12, <1>13, FrameResponds, MessageFacts DEF SendStarted, process, phase
<1>14. ASSUME NEW d \in Dirs, HandleDirectory(d), Stays PROVE AllIsAccounted'
  <2>1. UNCHANGED responses \/ Grows(responses, responses', Object(d, NoPull))
    BY <1>14, DirectoryResponds
  <2> QED
    BY <1>12, <1>14, <2>1, MessageFacts DEF HandleDirectory, process, phase
<1>15. ASSUME NEW f \in Files, HashFile(f), Stays PROVE AllIsAccounted'
  <2>1. PICK p : UNCHANGED responses \/ Grows(responses, responses', Object(f, p))
    BY <1>15, HashResponds
  <2> QED
    BY <1>12, <1>15, <2>1, MessageFacts DEF HashFile, process, phase
<1>16. CASE Stays /\ SendFinished
  <2>1. /\ \A e \in Entries : LeftOut(e) \/ e \in visited
        /\ hashing = {} /\ UNCHANGED <<client, visited, omitted>>
    BY <1>16 DEF SendFinished, SessionInv, ManagerWorksInOrder, process
  <2>2. CASE main = "open"
    <3>1. \A e \in Entries : LeftOut(e) => LeftOut(e)'
      BY <2>1 DEF LeftOut
    <3>2. \A e \in visited : Accounted(e)
      BY <1>0, <2>1, <2>2 DEF HandledIsAccounted
    <3> QED
      BY <1>16, <2>1, <3>1, <3>2 DEF AllIsAccounted, Stays
  <2>3. CASE main # "open"
    BY <1>7, <1>16, <2>1, <2>3 DEF SendFinished, Respond, AllSaid
  <2> QED
    BY <2>2, <2>3
<1>17. ASSUME Stays, UNCHANGED responses, client' = client \/ client' # "draining"
       PROVE  AllIsAccounted'
  BY <1>7, <1>17 DEF AllSaid
<1>18. CASE Stays /\ (SendFirstRequest \/ ReadFails)
  BY <1>17, <1>18 DEF SendFirstRequest, ReadFails, network
<1>19. CASE Stays /\ (ServerExits \/ ServerDies \/ NetworkDrops) /\ UNCHANGED responses
  BY <1>17, <1>19 DEF ServerExits, ServerDies, ServerProcessEnds, NetworkDrops, process
<1>20. CASE Stays /\ AcceptRefused
  BY <1>17, <1>20 DEF AcceptRefused, process, phase
<1>21. CASE Stays /\ UNCHANGED <<main, responses, phase>>
  BY <1>17, <1>21 DEF process, phase
<1>22. CASE Stays
  BY <1>2, <1>3, <1>4, <1>5, <1>6, <1>9, <1>10, <1>11, <1>13, <1>14, <1>15, <1>16, <1>18, <1>19,
     <1>20, <1>21, <1>22, ResponsesFrame, ProcessFrame
<1> QED
  BY <1>0, <1>2, <1>3, <1>5, <1>6, <1>22, AccountedStays

(* A clean end stays what it is, until the client is run again.            *)
LEMMA CleanIsOverStep ==
  TypeInv /\ SessionInv /\ CleanInv /\ Next => CleanIsOver' /\ CleanRunIsComplete'
<1> SUFFICES ASSUME TypeInv, SessionInv, CleanInv, Next
             PROVE  CleanIsOver' /\ CleanRunIsComplete'
  OBVIOUS
<1>0. AllIsAccounted /\ CleanIsOver /\ CleanRunIsComplete
  BY DEF CleanInv
<1> USE DEF process, phase
<1>1. ASSUME outcome' # "clean" PROVE CleanIsOver' /\ CleanRunIsComplete'
  BY <1>1 DEF CleanIsOver, CleanRunIsComplete
<1>2. CASE StartClient \/ FirstRequestFails \/ ExitAborted
  BY <1>1, <1>2 DEF StartClient, FirstRequestFails, ExitAborted
<1>3. ASSUME NEW signal \in {"SIGINT", "other"}, ClientDies(signal)
      PROVE  CleanIsOver' /\ CleanRunIsComplete'
  <2>1. outcome' \in {"interrupted", "killed"}
    BY <1>3 DEF ClientDies
  <2> QED
    BY <1>1, <2>1
<1>4. CASE SendFirstRequest \/ ReadStarted \/ ReadFinished \/ ReadFails
  <2>1. client # "off" /\ outcome' = outcome
    BY <1>4 DEF SendFirstRequest, ReadStarted, ReadFinished, ReadFails, Read
  <2> QED
    BY <1>0, <1>1, <2>1 DEF CleanIsOver
<1>5. CASE ExitFinished
  <2> SUFFICES ASSUME exact => to_complete = {} PROVE CleanIsOver' /\ CleanRunIsComplete'
    BY <1>1, <1>5 DEF ExitFinished
  <2>1. /\ client = "draining" /\ client' = "off"
        /\ UNCHANGED <<made, dst, manager, visited, omitted, backlog, exact>>
    BY <1>5 DEF ExitFinished, ProcessEnds, target, session
  <2>2. responses = <<>> /\ main \in {"open", "broken"} /\ manager = "idle"
    BY <2>1 DEF SessionInv, FinishedLast, ClientMatchesMain, TypeInv, NetworkTypes
  <2>3. \A e \in Entries : LeftOut(e) \/ (e \in visited /\ Accounted(e))
    BY <1>0, <2>1 DEF AllIsAccounted, AllSaid
  <2>4. ASSUME exact PROVE \A e \in Entries : LeftOut(e) \/ (e \in visited /\ There(e))
    BY <2>2, <2>3, <2>4 DEF Accounted, Announced, There, LeftOut
  <2>5. CleanRunIsComplete'
    BY <2>1, <2>4 DEF CleanRunIsComplete, LeftOut, There
  <2>6. \A i \in DOMAIN backlog : ~OpensJob(backlog[i])
    BY <2>2, NoJobRequests
  <2> QED
    BY <2>1, <2>2, <2>5, <2>6 DEF CleanIsOver, OpensJob
<1>6. ASSUME UNCHANGED phase,
             outcome = "clean" =>
               /\ UNCHANGED <<made, dst>>
               /\ \A i \in DOMAIN backlog' : OpensJob(backlog'[i]) =>
                    \E j \in DOMAIN backlog : OpensJob(backlog[j])
      PROVE  CleanIsOver' /\ CleanRunIsComplete'
  <2> SUFFICES ASSUME outcome = "clean" PROVE CleanIsOver' /\ CleanRunIsComplete'
    BY <1>1, <1>6
  <2>1. /\ client = "off" /\ manager = "idle" /\ main = "none"
        /\ \A i \in DOMAIN backlog : ~OpensJob(backlog[i])
    BY <1>0 DEF CleanIsOver, SessionInv, ClientMatchesMain
  <2>2. ~AcceptStart /\ ~AcceptContinue
    <3> SUFFICES ASSUME NEW req \in {"start", "continue"}, Accept(req) PROVE FALSE
      BY DEF AcceptStart, AcceptContinue
    <3> QED
      BY <2>1, AcceptShifts DEF Shifts, OpensJob
  <2>3. /\ manager' = "idle" /\ visited' = visited
        /\ \A e \in Entries : LeftOut(e) => LeftOut(e)'
    BY <2>1, <2>2, NothingMoreIsVisited
  <2>4. exact' = exact
    <3>1. ~StartClient
      BY <1>6 DEF StartClient
    <3>2. ASSUME NEW f \in Files PROVE ~Verify(f)
      BY <2>1, VerifyFacts DEF SessionInv, ClientMatchesMain, NoTasks
    <3> QED
      BY <3>1, <3>2, ExactFrame
  <2>5. CleanIsOver'
    BY <1>6, <2>1, <2>3 DEF CleanIsOver, OpensJob
  <2>6. CleanRunIsComplete'
    BY <1>0, <1>6, <2>3, <2>4 DEF CleanRunIsComplete, There
  <2> QED
    BY <2>5, <2>6
<1>7. ASSUME UNCHANGED phase, client # "off" PROVE CleanIsOver' /\ CleanRunIsComplete'
  BY <1>0, <1>6, <1>7 DEF CleanIsOver
<1>8. ASSUME NEW d \in Dirs, ReadDirectory(d) PROVE CleanIsOver' /\ CleanRunIsComplete'
  BY <1>7, <1>8 DEF ReadDirectory, Read
<1>9. ASSUME NEW f \in Files, ReadFile(f) PROVE CleanIsOver' /\ CleanRunIsComplete'
  BY <1>7, <1>9 DEF ReadFile
<1>10. ASSUME NEW f \in Files, TaskSteps(f) PROVE CleanIsOver' /\ CleanRunIsComplete'
  <2>1. task[f] # "none" /\ UNCHANGED phase
    BY <1>10, TaskStepFacts
  <2>2. client # "off"
    BY <2>1, TasksHaveMain DEF SessionInv, ClientMatchesMain
  <2> QED
    BY <1>7, <2>1, <2>2
<1>11. CASE AcceptStart \/ AcceptContinue \/ AcceptRefused
  <2>1. PICK req \in {"start", "continue"} : Accept(req)
    BY <1>11 DEF AcceptStart, AcceptContinue, AcceptRefused
  <2>2. 1 \in DOMAIN backlog /\ OpensJob(backlog[1])
    BY <2>1, AcceptShifts DEF Shifts, OpensJob
  <2>3. outcome # "clean"
    BY <1>0, <2>2 DEF CleanIsOver
  <2> QED
    BY <1>6, <1>11, <2>3 DEF AcceptStart, AcceptContinue, AcceptRefused
<1>12. ASSUME NEW f \in Files, AcceptFile(f) \/ AcceptSuccess(f)
       PROVE  CleanIsOver' /\ CleanRunIsComplete'
  <2>1. Shifts(backlog, backlog') /\ UNCHANGED <<target, session, phase>>
    BY <1>12, AcceptShifts DEF AcceptFile, AcceptSuccess
  <2> QED
    BY <1>6, <2>1 DEF Shifts, target, session
<1>13. CASE ServerExits \/ ServerDies
  BY <1>6, <1>13 DEF ServerExits, ServerDies, ServerProcessEnds, target
<1>14. ASSUME UNCHANGED <<target, phase, backlog>>
       PROVE  CleanIsOver' /\ CleanRunIsComplete'
  BY <1>6, <1>14 DEF target
<1>15. CASE SendStarted \/ CrawlEnds \/ SendFinished
  BY <1>14, <1>15 DEF SendStarted, CrawlEnds, SendFinished, network
<1>16. ASSUME NEW d \in Dirs, HandleDirectory(d) PROVE CleanIsOver' /\ CleanRunIsComplete'
  BY <1>14, <1>16 DEF HandleDirectory
<1>17. ASSUME NEW f \in Files, HandleFile(f) \/ HashFile(f) \/ StreamFile(f)
       PROVE  CleanIsOver' /\ CleanRunIsComplete'
  BY <1>14, <1>17 DEF HandleFile, HashFile, StreamFile, network, session
<1>18. CASE UNCHANGED <<target, phase, session, offers, backlog>>
  BY <1>14, <1>18
<1>19. CASE LeavingOut
  BY <1>14, <1>19, LeavingOutFacts DEF network
<1> QED
  BY <1>2, <1>3, <1>4, <1>5, <1>8, <1>9, <1>10, <1>11, <1>12, <1>13, <1>15, <1>16, <1>17, <1>18,
     <1>19, TargetFrame, ProcessFrame, SessionFrame, BacklogFrame DEF TaskSteps

(* Every step keeps what makes a clean run complete.                       *)
LEMMA CleanStep ==
  TypeInv /\ SessionInv /\ DeliveredInv /\ CleanInv /\ [Next]_vars => CleanInv'
<1> SUFFICES ASSUME TypeInv, SessionInv, DeliveredInv, CleanInv, [Next]_vars PROVE CleanInv'
  OBVIOUS
<1>1. CASE Next
  BY <1>1, UnfinishedIsNotedStep, HandledIsAccountedStep, AllIsAccountedStep, CleanIsOverStep
     DEF CleanInv
<1>2. CASE UNCHANGED vars
  BY <1>2 DEF vars, target, session, network, process, phase, tasks, CleanInv, UnfinishedIsNoted,
              HandledIsAccounted, Accounted, Announced, AllSaid, AllIsAccounted, CleanIsOver,
              OpensJob, CleanRunIsComplete, LeftOut, There
<1> QED
  BY <1>1, <1>2

-------------------------------------------------------------------------------
(* The invariant, and what follows from it.                                *)

(* The inductive invariant holds at the beginning.                         *)
LEMMA InvariantInit == Init => IInv
BY TypesInit, SessionInit, OnceInit, ParentsInit, DeliveredInit, ReadyInit, CleanInit DEF IInv

(* Every step keeps it.                                                    *)
LEMMA InvariantStep == IInv /\ [Next]_vars => IInv'
BY TypesStep, SessionStep, OnceStep, ParentsStep, DeliveredStep, ReadyStep, CleanStep DEF IInv

(* The inductive invariant holds whatever the client, the server, the      *)
(* network and the user do.                                                *)
THEOREM Invariance == Spec => []IInv
BY InvariantInit, InvariantStep, PTL DEF Spec

(* The variables keep their types; in particular the server works on       *)
(* entries that its crawler has handled, and on no others.                 *)
THEOREM TypeCorrect == Spec => []TypeOK
<1>1. IInv => TypeOK
  BY TypesImplyTypeOK DEF IInv
<1> QED
  BY <1>1, Invariance, PTL

(* A file that is in the log or in completed_paths, or whose success       *)
(* message is on its way (also that of a client long gone), is at the      *)
(* destination in some whole version.                                      *)
THEOREM CompletedIsThere == Spec => []CompletedIsDelivered
<1>1. IInv => CompletedIsDelivered
  BY DEF IInv, DeliveredInv
<1> QED
  BY <1>1, Invariance, PTL

(* No step of any session touches a file that the server counts as         *)
(* completed, or has counted: the tasks that could write to it are over.   *)
THEOREM CompletedIsLeftAlone == Spec => CompletedStaysDelivered
<1>1. ASSUME IInv, [Next]_vars
      PROVE  [\A f \in completed \cup logged : dst'[f] = dst[f]]_vars
  <2> SUFFICES ASSUME Next, NEW f \in completed \cup logged PROVE dst'[f] = dst[f]
    BY <1>1
  <2>1. f \in Files /\ ~Writable(f)
    BY <1>1 DEF IInv, TypeInv, JobTypes, DeliveredInv
  <2> QED
    BY <1>1, <2>1, OnlyWritableIsWritten DEF IInv
<1> QED
  BY <1>1, Invariance, PTL DEF Spec, CompletedStaysDelivered

(* The client reads Started first and once, each entry at most once and    *)
(* after its directory, and Finished last, when the server has nothing     *)
(* left to say.                                                            *)
THEOREM ProtocolInOrder == Spec => []ResponsesInOrder
<1>1. ASSUME IInv PROVE ResponsesInOrder
  <2>1. ASSUME NEW i \in DOMAIN responses, NEW j \in DOMAIN responses,
               responses[i].type = "object", responses[j].type = "object",
               responses[i].entry = responses[j].entry
        PROVE  i = j
    <3>1. responses[i] \in Messages
      BY <1>1 DEF IInv, TypeInv, NetworkTypes
    <3>2. responses[i].entry \in Entries
      BY <2>1, <3>1, AnnouncedEntry
    <3> QED
      BY <1>1, <2>1, <3>2 DEF IInv, OnceInv, AnnouncedOnce, Announces
  <2>2. StartedFirst /\ FinishedLast /\ ParentsInv
    BY <1>1 DEF IInv, SessionInv
  <2> QED
    BY <2>1, <2>2 DEF ResponsesInOrder, StartedFirst, FinishedLast, ParentsInv, Handed
<1> QED
  BY <1>1, Invariance, PTL

(* The server that is connected to the client still has every id that the  *)
(* client knows, or will know, and has not used: it refuses no request of  *)
(* that client.                                                            *)
THEOREM IdsAreGood == Spec => []AnnouncedIsReady
<1>1. IInv => AnnouncedIsReady
  BY DEF IInv, ReadyInv
<1> QED
  BY <1>1, Invariance, PTL

(* A client that ends without a complaint, and whose to_complete was never *)
(* damaged, has made every directory and has a whole version of every file *)
(* but what failed calls on the server have left out, and what is inside.  *)
THEOREM CleanIsComplete == Spec => []CleanRunIsComplete
<1>1. IInv => CleanRunIsComplete
  BY DEF IInv, CleanInv
<1> QED
  BY <1>1, Invariance, PTL

(* NetPull implements PullJob: across sessions, crashes and restarts a     *)
(* file is recorded only when it has been delivered, a record is never     *)
(* taken back, and a recorded file is not written again.                   *)
THEOREM RefinesPullJob == Spec => ImplementsPullJob
<1>1. Init => PJ!PInit
  BY DEF Init, PJ!PInit
<1>2. ASSUME IInv, [Next]_vars PROVE [PJ!PNext]_(PJ!pvars)
  <2>0. TypeInv /\ DeliveredInv
    BY <1>2 DEF IInv
  <2>1. ASSUME NEW f \in Files, ReadFile(f) \/ StreamBlock(f) PROVE PJ!Write(f)
    <3>1. Writable(f) /\ \A g \in Files \ {f} : dst'[g] = dst[g]
      BY <2>0, <2>1, OneFileIsWritten
    <3>2. f \notin logged
      BY <2>0, <3>1 DEF DeliveredInv
    <3>3. logged' = logged
      BY <2>1 DEF ReadFile, StreamBlock, jobs
    <3> QED
      BY <3>1, <3>2, <3>3 DEF PJ!Write
  <2>2. ASSUME NEW f \in Files, AcceptSuccess(f) PROVE PJ!Record(f) \/ UNCHANGED PJ!pvars
    <3>1. dst' = dst /\ (logged' = logged \/ logged' = logged \cup {f})
      BY <2>2 DEF AcceptSuccess, target, jobs
    <3>2. 1 \in DOMAIN backlog /\ backlog[1].req = "success" /\ backlog[1].file = f
      BY <2>0, <2>2, AcceptShifts DEF AcceptSuccess, Shifts
    <3>3. dst[f] \in Contents
      BY <2>0, <3>2 DEF DeliveredInv, CompletedIsDelivered, Succeeding
    <3> QED
      BY <3>1, <3>3 DEF PJ!Record, PJ!pvars
  <2>3. CASE AcceptStart
    <3>1. ~known
      BY <1>2, <2>3, AcceptedClient DEF AcceptStart, IInv, SessionInv
    <3>2. logged = {}
      BY <2>0, <3>1 DEF DeliveredInv
    <3> QED
      BY <2>3, <3>2 DEF AcceptStart, target, PJ!pvars
  <2>4. ASSUME NEW d \in Dirs, ReadDirectory(d) PROVE UNCHANGED PJ!pvars
    BY <2>4 DEF ReadDirectory, jobs, PJ!pvars
  <2>5. CASE AcceptContinue \/ ServerExits \/ ServerDies \/ ServerRestarts
    BY <2>5 DEF AcceptContinue, ServerExits, ServerDies, ServerRestarts, target, jobs, PJ!pvars
  <2>6. CASE UNCHANGED <<target, jobs>>
    BY <2>6 DEF target, jobs, PJ!pvars
  <2>7. CASE UNCHANGED vars
    BY <2>6, <2>7 DEF vars
  <2>8. UNCHANGED <<up, jobs>> => UNCHANGED jobs
    OBVIOUS
  <2> QED
    BY <1>2, <2>1, <2>2, <2>3, <2>4, <2>5, <2>6, <2>7, <2>8, TargetFrame, JobsFrame DEF PJ!PNext
<1> QED
  BY <1>1, <1>2, Invariance, PTL DEF Spec, ImplementsPullJob, PJ!PSpec
==============================================================================
