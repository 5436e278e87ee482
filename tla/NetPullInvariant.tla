--------------------------- MODULE NetPullInvariant ---------------------------
(***************************************************************************)
(* The inductive invariant of NetPull, in layers: each layer is preserved  *)
(* by a step from a state in which the layers before it hold as well.      *)
(* NetPullProofs proves that, and what follows from it.                    *)
(***************************************************************************)
EXTENDS NetPull

-------------------------------------------------------------------------------
(* What the variables hold.                                                *)
Lengths == {Len(c) : c \in Contents}

Requests == [req : {"start", "continue", "file", "success"}, file : Files \cup {Root},
             state : {"pending", "sent", "orphan", "eof"}]

Announcements(f) == {Object(f, p) : p \in [bytes : Lengths, sha256 : Contents]}

Messages ==
  {Started, Finished} \cup {Object(d, NoPull) : d \in Dirs}
  \cup UNION {Announcements(f) : f \in Files}

ServedTypes == src \in [Files -> Contents] /\ edits \in 0 .. MaxEdits

TargetTypes == dst \in [Files -> Seq(Blocks) \cup {Absent}] /\ made \subseteq Dirs

JobTypes ==
  /\ up \in BOOLEAN /\ loaded \in BOOLEAN /\ logOk \in BOOLEAN
  /\ completed \subseteq Files /\ logged \subseteq Files

SessionTypes ==
  /\ manager \in {"idle", "starting", "crawl", "waiting"}
  /\ visited \subseteq Entries
  /\ omitted \subseteq Entries
  /\ hashing \subseteq visited \cap Files
  /\ ready \subseteq visited \cap Files
  /\ sending \subseteq visited \cap Files
  /\ bytes \in [Files -> Nat]
  /\ \A f \in hashing : bytes[f] \in Lengths

NetworkTypes ==
  /\ backlog \in Seq(Requests)
  /\ main \in {"none", "waiting", "open", "broken"}
  /\ responses \in Seq(Messages)
  /\ stream \in [Files -> [data : Seq(Blocks), closed : BOOLEAN]]

ProcessTypes ==
  /\ known \in BOOLEAN /\ jobId \in BOOLEAN /\ hint \in BOOLEAN /\ exact \in BOOLEAN
  /\ client \in {"off", "connected", "reading", "draining", "aborting"}
  /\ outcome \in {"none", "clean", "incomplete", "aborted", "interrupted", "killed"}

TaskTypes ==
  /\ to_complete \subseteq Entries
  /\ task \in [Files -> {"none", "queued", "open", "streaming", "check", "verified",
                         "reporting", "ended"}]
  /\ pull \in [Files -> Pulls]
  /\ received \in [Files -> Nat]
  /\ \A f \in Files : task[f] # "none" => dst[f] \in Seq(Blocks) /\ pull[f].sha256 \in Contents

TypeInv ==
  /\ ServedTypes /\ TargetTypes /\ JobTypes /\ SessionTypes
  /\ NetworkTypes /\ ProcessTypes /\ TaskTypes
  /\ faults \in 0 .. MaxFaults

-------------------------------------------------------------------------------
(* Who is connected to whom, and what has been said on the first           *)
(* connection.                                                             *)
NoTasks == to_complete = {} /\ \A f \in Files : task[f] = "none"

OpensJob(c) == c.req \in {"start", "continue"}
Live(c) == c.state \in {"pending", "sent"}

ClientMatchesMain ==
  /\ main = "none" <=> client = "off"
  /\ main \in {"none", "waiting"} => responses = <<>> /\ NoTasks
  /\ main = "waiting" => ~jobId /\ client \in {"connected", "reading"}
  /\ client = "connected" => main \in {"waiting", "broken"} /\ responses = <<>> /\ ~jobId
  /\ ~jobId => NoTasks
  /\ jobId => known

(* A client asks for its job after everything that earlier clients have    *)
(* left in the backlog, and does nothing else until it is answered.        *)
JobRequestsComeLast ==
  \A i \in DOMAIN backlog : OpensJob(backlog[i]) =>
    /\ main \in {"none", "waiting"}
    /\ backlog[i].req = "start" => ~known
    /\ Live(backlog[i]) =>
         /\ i = Len(backlog)
         /\ main = "waiting"
         /\ backlog[i].state = "sent" => client = "reading"

ManagerWorksInOrder ==
  /\ manager = "starting" => hashing = {} /\ visited = {}
  /\ manager = "waiting" => \A e \in Entries : LeftOut(e) \/ e \in visited
  /\ \A e \in visited : Parent[e] \in visited \cup {Root}

StartedFirst ==
  /\ \A i \in DOMAIN responses : responses[i] = Started => i = 1 /\ ~jobId
  /\ responses # <<>> /\ ~jobId => responses[1] = Started
  /\ main = "open" /\ manager = "starting" => responses = <<>> /\ ~jobId
  /\ main = "open" /\ manager # "starting" /\ ~jobId => responses # <<>>

FinishedLast ==
  /\ \A i \in DOMAIN responses :
       responses[i] = Finished => i = Len(responses) /\ manager = "idle" /\ hashing = {}
  /\ client = "draining" => responses = <<>>
  /\ client = "draining" => manager = "idle" /\ hashing = {}

SessionInv ==
  /\ ClientMatchesMain /\ JobRequestsComeLast /\ ManagerWorksInOrder
  /\ StartedFirst /\ FinishedLast

-------------------------------------------------------------------------------
(* An entry goes from the crawler to the pool, to the connection, to the   *)
(* client's tasks, and is in one place only.                               *)
Announces(m, e) == m.type = "object" /\ m.entry = e
Announced(e) == \E i \in DOMAIN responses : Announces(responses[i], e)

AnnouncedOnce ==
  \A i, j \in DOMAIN responses : \A e \in Entries :
    Announces(responses[i], e) /\ Announces(responses[j], e) => i = j

NoTaskYet(f) == ~Announced(f) /\ task[f] = "none"

OnceInv ==
  /\ AnnouncedOnce
  /\ \A f \in Files : Announced(f) => task[f] = "none"
  /\ main = "open" => \A f \in Files : f \in hashing \/ f \notin visited => NoTaskYet(f)
  /\ main = "open" => \A d \in Dirs \ visited : ~Announced(d)

-------------------------------------------------------------------------------
(* The directory of an entry is announced before it.                       *)
Handed(d) == d \in made \cup to_complete \cup {Root}

ParentsInv ==
  /\ main = "open" => \A d \in visited \cap Dirs : Handed(d) \/ Announced(d)
  /\ \A i \in DOMAIN responses : responses[i].type = "object" =>
       \/ Handed(Parent[responses[i].entry])
       \/ \E j \in 1 .. i - 1 : responses[j] = Object(Parent[responses[i].entry], NoPull)

-------------------------------------------------------------------------------
(* What is recorded has been delivered, and nothing is going to write it.  *)
Writable(f) ==
  \/ task[f] \in {"queued", "open", "streaming", "check"}
  \/ Announced(f)
  \/ main = "open" /\ f \in hashing

DeliveredInv ==
  /\ CompletedIsDelivered
  /\ \A f \in Files : Writable(f) => f \notin completed \cup logged /\ ~Succeeding(f)
  /\ main = "open" => loaded /\ \A f \in Files \ visited : ~Succeeding(f)
  /\ loaded => logged \subseteq completed
  /\ \A f \in Files : task[f] \in {"verified", "reporting"} => dst[f] \in Contents
  /\ ~known => logged = {} /\ \A f \in Files : ~Succeeding(f)

-------------------------------------------------------------------------------
(* The requests for files on the server that knows the client.             *)
FileRequest(i) ==
  LET f == backlog[i].file
  IN /\ f \in Files
     /\ task[f] \notin {"none", "queued"}
     /\ backlog[i].state # "orphan"
     /\ backlog[i].state = "sent" => task[f] # "open"

FileRequestsInv ==
  main = "open" =>
    /\ \A i \in DOMAIN backlog : backlog[i].req = "file" => FileRequest(i)
    /\ \A i, j \in DOMAIN backlog :
         /\ backlog[i].req = "file" /\ backlog[j].req = "file"
         /\ backlog[i].file = backlog[j].file
         => i = j

(* The client may yet ask for the file, or has asked for it.               *)
Requested(f) ==
  \E i \in DOMAIN backlog : backlog[i] = [Connection("file", f) EXCEPT !.state = "sent"]

Awaited(f) == f \in hashing \/ Announced(f) \/ task[f] \in {"queued", "open"} \/ Requested(f)

ReadyInv == FileRequestsInv /\ AnnouncedIsReady

-------------------------------------------------------------------------------
(* An entry that the crawler has handled is nowhere lost.                  *)
Accounted(e) ==
  \/ e \in made \cup to_complete \cup omitted
  \/ e \in Files /\ dst[e] \in Contents
  \/ Announced(e)

UnfinishedIsNoted ==
  \A f \in Files : task[f] \in {"queued", "open", "streaming", "check"} => f \in to_complete

HandledIsAccounted == main = "open" => \A e \in visited : Accounted(e) \/ e \in hashing

AllSaid == client = "draining" \/ \E i \in DOMAIN responses : responses[i] = Finished

AllIsAccounted ==
  AllSaid => \A e \in Entries : LeftOut(e) \/ (e \in visited /\ Accounted(e))

CleanIsOver ==
  outcome = "clean" =>
    client = "off" /\ manager = "idle" /\ \A i \in DOMAIN backlog : ~OpensJob(backlog[i])

CleanInv ==
  /\ UnfinishedIsNoted /\ HandledIsAccounted /\ AllIsAccounted
  /\ CleanIsOver /\ CleanRunIsComplete

IInv ==
  /\ TypeInv /\ SessionInv /\ OnceInv /\ ParentsInv
  /\ DeliveredInv /\ ReadyInv /\ CleanInv
==============================================================================
