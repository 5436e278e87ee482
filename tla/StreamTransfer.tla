---------------------------- MODULE StreamTransfer ----------------------------
(***************************************************************************)
(* The bytes of one file on their way: the server's FileStreamTask with    *)
(* sendfile, the connection, the client's FileStreamTask, which splices    *)
(* from the connection to a pipe and from the pipe to the file until it    *)
(* has as many bytes as the announcement said, and the client's            *)
(* FileIntegrityTask, which reads the file again.  Both client tasks show  *)
(* their progress at every turn of their loops.                            *)
(*                                                                         *)
(* An operator whose comment begins with "Faulty" is not part of the       *)
(* model: it is a plausible bug, kept to show that a property notices it.  *)
(*                                                                         *)
(* Connection and pipe keep the order of bytes, so counts stand for them.  *)
(* The file has one size when it is crawled and perhaps another when it is *)
(* streamed; nothing is at the destination before.  No property compares   *)
(* one turn of a loop with the next, so a line is forgotten at the end of  *)
(* its turn, and each one may be about any path.                           *)
(***************************************************************************)
EXTENDS ProgressLine

CONSTANTS Sizes,       (* the sizes a file may have                        *)
          IntLimit,    (* what FileTransferInfo.bytes, an int32, cannot
                          count any more: 2^31                             *)
          LongLimit,   (* what a uint64_t cannot count any more: 2^64      *)
          MaxChunk     (* kSpliceBuffer, and a bound on one sendfile       *)

ASSUME WidthAssumption ==
  /\ IntLimit \in Nat \ {0} /\ LongLimit \in Nat /\ 2 * IntLimit < LongLimit
  /\ \A s \in Sizes : s \in Nat /\ 2 * s < LongLimit
  /\ MaxChunk \in Nat \ {0}

VARIABLES
  bytes,     (* st_size at the crawl, kept in ReadyFile                    *)
  length,    (* what the file has when it is streamed                      *)
  sent,      (* bytes that sendfile has sent                               *)
  server,    (* sending, or closed: the task and its connection have ended *)
  total,     (* total_bytes of the client                                  *)
  expected,  (* expected_bytes, the bytes in the pipe                      *)
  written,   (* bytes in the destination                                   *)
  processed, (* total_bytes_processed of the integrity task                *)
  client,    (* streaming, verifying (the integrity task runs), verified
                (all of the file is in the digest) or failed               *)
  line,      (* what BuildLine is called for in this turn, or NoLine       *)
  fault      (* some call has failed                                       *)

source == <<bytes, length>>
sender == <<sent, server>>
receiver == <<total, expected, written, processed>>
streamVars == <<source, sender, receiver, client, line, fault>>

NoLine == << >>

(* Conversion to a signed and to an unsigned type.                         *)
AsInt(n) ==
  LET rest == n % (2 * IntLimit) IN IF rest < IntLimit THEN rest ELSE rest - 2 * IntLimit
AsLong(n) == n % LongLimit

StreamInit ==
  /\ bytes \in Sizes /\ length \in Sizes
  /\ sent = 0 /\ server = "sending"
  /\ total = 0 /\ expected = 0 /\ written = 0 /\ processed = 0
  /\ client = "streaming" /\ line = NoLine
  /\ fault = FALSE

Least(a, b) == IF a < b THEN a ELSE b

-------------------------------------------------------------------------------
(* One sendfile, which may move less than it was asked for.                *)
Sendfile ==
  /\ server = "sending" /\ sent < bytes
  /\ \E n \in 1..Least(MaxChunk, Least(bytes, length) - sent) : sent' = sent + n
  /\ UNCHANGED <<source, server, receiver, client, line, fault>>

(* The loop is over, or sendfile returned 0 since the file has shrunk.     *)
SendEnds ==
  /\ server = "sending" /\ sent >= Least(bytes, length)
  /\ server' = "closed"
  /\ UNCHANGED <<source, sent, receiver, client, line, fault>>

(* sendfile or open fails: of itself, or because the client has gone.      *)
SendFails ==
  /\ server = "sending"
  /\ server' = "closed"
  /\ fault' = (fault \/ client = "streaming")
  /\ UNCHANGED <<source, sent, receiver, client, line>>

-------------------------------------------------------------------------------
(* total_bytes < transfer.bytes(), an int32 compared with a uint64_t; the  *)
(* condition is looked at when the pipe is empty.                          *)
Wanted == client = "streaming" /\ expected = 0 /\ total < AsLong(AsInt(bytes))

(* The top of either loop: line->Update of what BuildLine returns for the  *)
(* terminal as it is now.                                                  *)
Update ==
  /\ Wanted \/ client = "verifying"
  /\ line = NoLine
  /\ \E path \in Items, terminal \in Terminals : line' = [path |-> path, terminal |-> terminal]
  /\ UNCHANGED <<source, sender, receiver, client, fault>>

(* What may be on the line.                                                *)
Lines ==
  IF line = NoLine THEN {}
  ELSE IF client = "streaming" THEN BuildLine(line.path, line.terminal, total, AsInt(bytes))
  ELSE BuildLine(line.path, line.terminal, processed, written)

(* splice from the connection into the pipe.                               *)
Pull ==
  /\ Wanted /\ line # NoLine
  /\ \E n \in 1..Least(MaxChunk, sent - total) : total' = total + n /\ expected' = n
  /\ line' = NoLine
  /\ UNCHANGED <<source, sender, written, processed, client, fault>>

(* Faulty PullEnds: the splice is tried again.                             *)
PullEndsAgain ==
  Wanted /\ line # NoLine /\ server = "closed" /\ sent = total /\ UNCHANGED streamVars

(* The splice returns 0.                                                   *)
PullEnds ==
  /\ Wanted /\ line # NoLine
  /\ server = "closed" /\ sent = total
  /\ client' = "failed" /\ line' = NoLine
  /\ UNCHANGED <<source, sender, receiver, fault>>

(* Faulty Store: a short count passes for the whole.                       *)
StoreOnce ==
  /\ client = "streaming" /\ expected > 0
  /\ \E n \in 1..expected : written' = written + n
  /\ expected' = 0
  /\ UNCHANGED <<source, sender, total, processed, client, line, fault>>

(* splice from the pipe into the file.                                     *)
Store ==
  /\ client = "streaming" /\ expected > 0
  /\ \E n \in 1..expected : written' = written + n /\ expected' = expected - n
  /\ UNCHANGED <<source, sender, total, processed, client, line, fault>>

(* The loop is over: fsync, and the integrity task is submitted.           *)
Done ==
  /\ client = "streaming" /\ expected = 0 /\ ~Wanted
  /\ client' = "verifying"
  /\ UNCHANGED <<source, sender, receiver, line, fault>>

(* read and builder.Update of the integrity task.                          *)
Process ==
  /\ client = "verifying" /\ line # NoLine
  /\ \E n \in 1..Least(MaxChunk, written - processed) : processed' = processed + n
  /\ line' = NoLine
  /\ UNCHANGED <<source, sender, total, expected, written, client, fault>>

(* read returns 0; the digest is compared.                                 *)
ProcessEnds ==
  /\ client = "verifying" /\ line # NoLine /\ processed = written
  /\ client' = "verified" /\ line' = NoLine
  /\ UNCHANGED <<source, sender, receiver, fault>>

(* A splice, an open or a read fails.                                      *)
ClientFails ==
  /\ client \in {"streaming", "verifying"}
  /\ client' = "failed" /\ fault' = TRUE /\ line' = NoLine
  /\ UNCHANGED <<source, sender, receiver>>

ServerStep == Sendfile \/ SendEnds
ClientStep == Update \/ Pull \/ PullEnds \/ Store \/ Done \/ Process \/ ProcessEnds

StreamNext == ServerStep \/ SendFails \/ ClientStep \/ ClientFails

StreamSpec == StreamInit /\ [][StreamNext]_streamVars

(* The tasks run until they return.                                        *)
FairSpec == StreamSpec /\ WF_streamVars(ServerStep) /\ WF_streamVars(ClientStep)

-------------------------------------------------------------------------------
(* A file that an int32 can count is verified over everything the server   *)
(* meant to send: short counts on either side lose nothing, and no byte of *)
(* the pipe is left behind.  It fails to get there only for a reason: a    *)
(* call that failed, or a file that has become shorter since the crawl.    *)
HandedOverOrFailedForReason ==
  bytes < IntLimit =>
    /\ client = "verifying" => written = bytes /\ expected = 0
    /\ client = "verified" => processed = bytes
    /\ client = "failed" => fault \/ length < bytes

(* All tasks end, whatever the sizes.                                      *)
TransferEnds == <>(server = "closed" /\ client \in {"verified", "failed"})

(* On a terminal that is wide enough the line of a printable path takes all*)
(* columns but one, or less if the path was cut before a wide character,   *)
(* and shows the path or its longest end that fits, never a part of a      *)
(* character.  The console counts on one row for a line.  The bytes of the *)
(* line have room in result, unless characters without columns are shown:  *)
(* then the rest holds as long as they have.                               *)
LineFits ==
  \A shown \in Lines :
    /\ shown.columns + 1 >= WideEnough /\ Printable(shown.text)
    /\ Spacing(shown.text) \/ shown.written <= ResultSize(shown.columns)
    => Fits(shown)

(* progress_builder.cc:71: the size of result should be "decent", "assume  *)
(* any char may be full-width UTF-8".  The bytes of the line of a printable*)
(* path have room in it.  It does not hold: any number of characters       *)
(* without columns fits in the columns of the line.                        *)
ResultIsLongEnough ==
  \A shown \in Lines :
    shown.columns + 1 >= WideEnough /\ Printable(shown.text) =>
      shown.written <= ResultSize(shown.columns)

(* For a progress from [0:1] bar and percentage of the line agree with it. *)
LineTellsProgress == \A shown \in Lines : InRange(shown) => TellsProgress(shown)

(* netpull.proto:23: "In response, the server will stream the file's       *)
(* contents."  If no call fails and the file stays as it is, it arrives.   *)
(* It does not hold of a file beyond an int32.                             *)
FileArrives ==
  client \in {"verified", "failed"} /\ length = bytes /\ ~fault =>
    client = "verified" /\ written = bytes

(* progress_builder.h:22, of BuildLine: "Given the current progress (a     *)
(* value from [0:1])".  It does not hold of an empty file.                 *)
ProgressInRange == \A shown \in Lines : InRange(shown)
===============================================================================
