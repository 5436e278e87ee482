------------------------------- MODULE Framing -------------------------------
(***************************************************************************)
(* The responses of one job on the wire: src/netpull/network/socket.cc, as *)
(* the server's manager thread and integrity tasks use it to send and the  *)
(* client's main loop to read.  A message is four bytes of length and a    *)
(* body; every send and recv may move fewer bytes than it was asked to.    *)
(*                                                                         *)
(* An operator whose comment begins with "Faulty" is not part of the       *)
(* model: it is a plausible bug, kept to show that a property notices it.  *)
(*                                                                         *)
(* A byte is a pair of the message it belongs to and its place in that     *)
(* message's frame.  A call interrupted by a signal is made again and is   *)
(* no step.  An error of send means that the connection is broken: errors  *)
(* after which Linux would take more data (ENOBUFS) are left out.          *)
(***************************************************************************)
EXTENDS Integers, Sequences, FiniteSets

CONSTANTS Objects,           (* the objects sent by tasks and HandleObject *)
          Unreadable,        (* those of files that may fail to be opened  *)
                             (* or read, by the task that is to hash them  *)
          Started, Finished, (* the messages around them                   *)
          Header,            (* sizeof(size), the bytes of the length      *)
          SizeOf,            (* ByteSizeLong of each message               *)
          MaxChunk           (* bound on the bytes moved by one call       *)

Messages == Objects \cup {Started, Finished}

ASSUME MessageAssumption ==
  /\ Started \notin Objects /\ Finished \notin Objects /\ Started # Finished

ASSUME SizeAssumption ==
  /\ Header \in Nat \ {0} /\ MaxChunk \in Nat \ {0}
  /\ SizeOf \in [Messages -> Nat \ {0}]

VARIABLES
  phase,   (* of each message: new, sending, sent, failed, or skipped by a
              task that found the connection dead or could not hash        *)
  put,     (* how many bytes of each frame have been sent                  *)
  wire,    (* all bytes sent on the connection                             *)
  order,   (* the messages whose frames have been begun                    *)
  alive,   (* SocketConnection::alive_ of the server                       *)
  piped,   (* some send of the server ended with EPIPE                     *)
  broken,  (* the client has gone                                          *)
  closed,  (* how the server's end was closed: open, returned, died        *)
  taken,   (* how many bytes the client has taken from the wire            *)
  need,    (* the bytes missing of what ReadAllBytes was asked for         *)
  size,    (* the size read, 0 while the length is read                    *)
  got,     (* the messages the client has parsed                           *)
  stopped  (* ReadProtobufMessage has returned false                       *)

server == <<phase, put, wire, order, alive, piped, closed>>
client == <<taken, need, size, got, stopped>>
vars == <<server, client, broken>>

FrameOf(m) == [k \in 1..(Header + SizeOf[m]) |-> <<m, k>>]

Init ==
  /\ phase = [m \in Messages |-> "new"] /\ put = [m \in Messages |-> 0]
  /\ wire = << >> /\ order = << >> /\ alive = TRUE /\ piped = FALSE /\ closed = "open"
  /\ taken = 0 /\ need = Header /\ size = 0 /\ got = << >> /\ stopped = FALSE
  /\ broken = FALSE

-------------------------------------------------------------------------------
Over(m) == phase[m] \in {"sent", "failed", "skipped"}

(* Faulty MayBegin: Finished waits, but for what is being sent only.       *)
MayBeginAfterCurrent(m) ==
  /\ m # Started => phase[Started] = "sent"
  /\ \A o \in Objects : phase[o] # "sending"

(* Faulty MayBegin: the tasks do not lock conn_mutex.                      *)
MayBeginUnlocked(m) ==
  \/ m = Started
  \/ m \in Objects /\ phase[Started] = "sent"
  \/ m = Finished /\ phase[Started] = "sent" /\ \A o \in Objects : Over(o)

(* Started comes before the crawl, which creates the tasks.  Objects are   *)
(* sent under conn_mutex.  Started and Finished are not, but Finished only *)
(* when the crawl is over and WaitForPending has returned.                 *)
MayBegin(m) ==
  \/ m = Started
  \/ m \in Objects /\ phase[Started] = "sent" /\ \A o \in Objects : phase[o] # "sending"
  \/ m = Finished /\ phase[Started] = "sent" /\ \A o \in Objects : Over(o)

BeginSend(m) ==
  /\ closed = "open" /\ phase[m] = "new" /\ MayBegin(m)
  /\ phase' = [phase EXCEPT ![m] = "sending"]
  /\ order' = Append(order, m)
  /\ UNCHANGED <<put, wire, alive, piped, closed, client, broken>>

(* FileIntegrityTask::Run looks at alive() without the mutex.  It also     *)
(* returns without sending when its file fails to be opened or read.       *)
SkipTask(m) ==
  /\ closed = "open" /\ m \in Objects /\ phase[m] = "new"
  /\ phase[Started] = "sent"
  /\ ~alive \/ m \in Unreadable
  /\ phase' = [phase EXCEPT ![m] = "skipped"]
  /\ UNCHANGED <<put, wire, order, alive, piped, closed, client, broken>>

(* The bytes that the call under way still has to send: the length by      *)
(* SendAllBytes, then the body by SerializeToFileDescriptor.               *)
Left(m) == (IF put[m] < Header THEN Header ELSE Header + SizeOf[m]) - put[m]

(* Faulty SendSome: the rest of the length is dropped after a short count. *)
SendSomeOnce(m) ==
  /\ closed = "open" /\ phase[m] = "sending" /\ ~broken
  /\ \E n \in 1..Left(m) :
       /\ n <= MaxChunk
       /\ wire' = wire \o SubSeq(FrameOf(m), put[m] + 1, put[m] + n)
       /\ put' = [put EXCEPT ![m] = @ + Left(m)]
       /\ phase' = IF put'[m] = Header + SizeOf[m] THEN [phase EXCEPT ![m] = "sent"] ELSE phase
  /\ UNCHANGED <<order, alive, piped, closed, client, broken>>

(* One send: at least one byte goes out.                                   *)
SendSome(m) ==
  /\ closed = "open" /\ phase[m] = "sending" /\ ~broken
  /\ \E n \in 1..Left(m) :
       /\ n <= MaxChunk
       /\ wire' = wire \o SubSeq(FrameOf(m), put[m] + 1, put[m] + n)
       /\ put' = [put EXCEPT ![m] = @ + n]
       /\ phase' = IF put'[m] = Header + SizeOf[m] THEN [phase EXCEPT ![m] = "sent"] ELSE phase
  /\ UNCHANGED <<order, alive, piped, closed, client, broken>>

(* A send on the broken connection fails, the first perhaps with another   *)
(* error than EPIPE (ECONNRESET).  SendBytes clears alive_ on EPIPE;       *)
(* SerializeToFileDescriptor, which writes the body, cannot.               *)
SendFails(m) ==
  /\ closed = "open" /\ phase[m] = "sending" /\ broken
  /\ phase' = [phase EXCEPT ![m] = "failed"]
  /\ \E epipe \in BOOLEAN :
       /\ piped => epipe
       /\ piped' = epipe
       /\ alive' = (alive /\ ~(epipe /\ put[m] < Header))
  /\ UNCHANGED <<put, wire, order, closed, client, broken>>

(* ClientManagerThread returns.                                            *)
Close ==
  /\ closed = "open"
  /\ phase[Started] = "failed" \/ Over(Finished)
  /\ closed' = "returned"
  /\ UNCHANGED <<phase, put, wire, order, alive, piped, client, broken>>

(* The server's process ends, perhaps inside a frame.                      *)
Die ==
  /\ closed = "open"
  /\ closed' = "died"
  /\ UNCHANGED <<phase, put, wire, order, alive, piped, client, broken>>

-------------------------------------------------------------------------------
InFlight == Len(wire) - taken

(* One recv of ReadAllBytes.                                               *)
ReadSome ==
  /\ ~stopped /\ ~broken
  /\ \E n \in 1..need :
       /\ n <= InFlight /\ n <= MaxChunk
       /\ taken' = taken + n /\ need' = need - n
  /\ UNCHANGED <<size, got, stopped, server, broken>>

(* The length is complete.  Bytes that are no length give some size.       *)
ReadSize ==
  /\ ~stopped /\ ~broken /\ need = 0 /\ size = 0
  /\ LET bytes == SubSeq(wire, taken - Header + 1, taken)
         m == bytes[1][1]
     IN size' = IF bytes = SubSeq(FrameOf(m), 1, Header) THEN SizeOf[m] ELSE Header
  /\ need' = size'
  /\ UNCHANGED <<taken, got, stopped, server, broken>>

(* The body is complete.  ParseFromString fails on what is not a body.     *)
ReadBody ==
  /\ ~stopped /\ ~broken /\ need = 0 /\ size > 0
  /\ LET bytes == SubSeq(wire, taken - size + 1, taken)
         m == bytes[1][1]
         parses == bytes = SubSeq(FrameOf(m), Header + 1, Header + SizeOf[m])
     IN /\ got' = IF parses THEN Append(got, m) ELSE got
        /\ stopped' = ~parses
  /\ need' = Header /\ size' = 0
  /\ UNCHANGED <<taken, server, broken>>

(* recv returns 0 once everything has been taken: the end, or in a frame.  *)
ReadEnd ==
  /\ ~stopped /\ ~broken /\ closed # "open" /\ InFlight = 0 /\ need > 0
  /\ stopped' = TRUE
  /\ UNCHANGED <<taken, need, size, got, server, broken>>

(* The client goes away, or the network does.                              *)
Break ==
  /\ ~broken
  /\ broken' = TRUE
  /\ UNCHANGED <<server, client>>

Next ==
  \/ \E m \in Messages : BeginSend(m) \/ SkipTask(m) \/ SendSome(m) \/ SendFails(m)
  \/ Close \/ Die
  \/ ReadSome \/ ReadSize \/ ReadBody \/ ReadEnd
  \/ Break

Spec == Init /\ [][Next]_vars

(* The threads of the server run on, the client reads on.                  *)
FairSpec ==
  /\ Spec
  /\ \A m \in Messages : WF_vars(BeginSend(m) \/ SendSome(m) \/ SendFails(m))
  /\ WF_vars(ReadSome \/ ReadSize \/ ReadBody \/ ReadEnd)

-------------------------------------------------------------------------------
(* The client reads whole messages in the order in which they were begun,  *)
(* whatever the counts of send and recv, the threads that send and the     *)
(* moment of a break: it never takes the inside of a frame for a length.   *)
Ch == INSTANCE Channel WITH sent <- order, received <- got
ImplementsChannel == Ch!CSpec

(* Finished is the last message, and it is read only after every object    *)
(* whose send succeeded: the client may stop its pool.                     *)
FinishedIsLast ==
  \A i \in DOMAIN got : got[i] = Finished =>
    /\ i = Len(got)
    /\ \A o \in Objects : phase[o] = "sent" => \E k \in DOMAIN got : got[k] = o

(* Unless the connection breaks or the server dies, Finished is read.      *)
FinishedArrives == <>(broken \/ closed = "died" \/ \E i \in DOMAIN got : got[i] = Finished)

(* socket.h:70, of alive(): "false if any previous operations resulted in  *)
(* a SIGPIPE".  It does not hold if the send was that of a body.           *)
DeadAfterPipe == piped => ~alive
===============================================================================
