------------------------------ MODULE DisplayProofs -----------------------------
(***************************************************************************)
(* Proofs about what the client shows while it receives files: Console,    *)
(* StreamTransfer, and the lines of ProgressLine and Utf8Width.            *)
(*                                                                         *)
(* Console: for any number of threads and messages.  The reason is that    *)
(* diff follows the length of the list: what is subtracted stays the       *)
(* number of lines drawn last, until the next drawing sets both.           *)
(*                                                                         *)
(* StreamTransfer: for any sizes, chunks, paths and terminals.  The        *)
(* invariant says where the bytes are; a line is made from it anew in each *)
(* state, so the theorems about lines need only the types of it, and       *)
(* lemmas about BuildLine and ForString.  These are functions defined by   *)
(* recursion over a text.  That a function satisfying the equations of     *)
(* such a definition exists is RecursionUp and RecursionDown; what it      *)
(* returns is then shown with InductionUp and InductionDown.               *)
(***************************************************************************)
EXTENDS Console, StreamTransfer, SequenceTheorems, WellFoundedInduction, TLAPS

Item == Nat \cup Row

IInv == TypeOK /\ above \in Seq(Item) /\ MessagesThenLines

-------------------------------------------------------------------------------
(* Nothing has been drawn at first.                                        *)
LEMMA InitHolds == Init => IInv
<1> SUFFICES ASSUME Init PROVE IInv
  OBVIOUS
<1>1. /\ lines = << >> /\ diff = 0 /\ logs = 0 /\ above = << >> /\ cursor = Empty
      /\ content = [t \in Threads |-> Empty] /\ writing = [t \in Threads |-> Empty]
  BY DEF Init
<1>2. lines \in Seq(Threads) /\ Len(lines) = 0 /\ above \in Seq(Item) /\ Len(above) = 0
  BY <1>1
<1>3. TypeOK
  BY <1>1, <1>2, TextAssumption DEF TypeOK, Row
<1>4. MessagesThenLines
  BY <1>1, <1>2 DEF MessagesThenLines, MovesUp
<1> QED
  BY <1>2, <1>3, <1>4 DEF IInv

(* A new line at the end of the list.                                      *)
LEMMA ClaimHolds ==
  ASSUME IInv, NEW t \in Threads, Claim(t)
  PROVE  IInv'
<1>1. /\ t \notin Owners /\ lines \in Seq(Threads) /\ Len(lines) \in Nat /\ diff \in Int
      /\ lines' = Append(lines, t) /\ diff' = diff + 1
      /\ content' = [content EXCEPT ![t] = Empty]
      /\ UNCHANGED <<writing, above, cursor, logs>>
  BY DEF Claim, IInv, TypeOK
<1>2. /\ lines' \in Seq(Threads) /\ Len(lines') = Len(lines) + 1 /\ lines'[Len(lines) + 1] = t
      /\ \A i \in 1..Len(lines) : lines'[i] = lines[i]
      /\ DOMAIN lines = 1..Len(lines) /\ DOMAIN lines' = 1..(Len(lines) + 1)
  BY <1>1
<1>3. \A i \in 1..Len(lines) : lines[i] # t
  BY <1>1, <1>2 DEF Owners
<1>4. \A i, k \in DOMAIN lines' : lines'[i] = lines'[k] => i = k
  BY <1>1, <1>2, <1>3 DEF IInv, TypeOK
<1>5. Owners \subseteq Owners'
  BY <1>2 DEF Owners
<1>6. TypeOK'
  BY <1>1, <1>2, <1>4, <1>5 DEF IInv, TypeOK, Row
<1>7. MovesUp' = MovesUp
  BY <1>1, <1>2 DEF MovesUp
<1>8. MessagesThenLines'
  BY <1>1, <1>7 DEF IInv, MessagesThenLines
<1> QED
  BY <1>1, <1>6, <1>8 DEF IInv, Row

(* A line is taken out of the list.                                        *)
LEMMA ReleaseHolds ==
  ASSUME IInv, NEW t \in Threads, Release(t)
  PROVE  IInv'
<1>1. PICK i \in DOMAIN lines : lines[i] = t /\ lines' = Without(i)
  BY DEF Release
<1>2. /\ lines \in Seq(Threads) /\ Len(lines) \in Nat /\ diff \in Int /\ writing[t] = Empty
      /\ DOMAIN lines = 1..Len(lines)
      /\ diff' = diff - 1 /\ UNCHANGED <<content, writing, above, cursor, logs>>
  BY DEF Release, IInv, TypeOK
<1>3. /\ lines' \in Seq(Threads) /\ Len(lines') = Len(lines) - 1
      /\ DOMAIN lines' = 1..(Len(lines) - 1)
      /\ \A k \in 1..(Len(lines) - 1) : lines'[k] = IF k < i THEN lines[k] ELSE lines[k + 1]
  <2>1. \A k \in 1..(Len(lines) - 1) : (IF k < i THEN lines[k] ELSE lines[k + 1]) \in Threads
    BY <1>1, <1>2
  <2>2. Len(lines) - 1 \in Nat
    BY <1>1, <1>2
  <2> QED
    BY <1>1, <2>1, <2>2 DEF Without
<1>4. \A m, n \in DOMAIN lines : lines[m] = lines[n] => m = n
  BY DEF IInv, TypeOK
<1>5. \A m, n \in DOMAIN lines' : lines'[m] = lines'[n] => m = n
  <2> SUFFICES ASSUME NEW m \in DOMAIN lines', NEW n \in DOMAIN lines', lines'[m] = lines'[n]
               PROVE  m = n
    OBVIOUS
  <2> DEFINE From(k) == IF k < i THEN k ELSE k + 1
  <2>1. From(m) \in DOMAIN lines /\ From(n) \in DOMAIN lines /\ m \in Nat /\ n \in Nat /\ i \in Nat
    BY <1>1, <1>2, <1>3
  <2>2. lines'[m] = lines[From(m)] /\ lines'[n] = lines[From(n)]
    BY <1>3
  <2>3. From(m) = From(n)
    BY <1>4, <2>1, <2>2
  <2> QED
    BY <2>1, <2>3
<1>6. \A u \in Owners : u # t => u \in Owners'
  <2> SUFFICES ASSUME NEW k \in DOMAIN lines, lines[k] # t
               PROVE  \E m \in DOMAIN lines' : lines'[m] = lines[k]
    BY DEF Owners
  <2>1. k # i /\ k \in 1..Len(lines) /\ i \in 1..Len(lines)
    BY <1>1, <1>2
  <2>2. CASE k < i
    <3>1. k \in 1..(Len(lines) - 1)
      BY <1>2, <2>1, <2>2
    <3> QED
      BY <1>3, <2>2, <3>1
  <2>3. CASE k > i
    <3>1. k - 1 \in 1..(Len(lines) - 1) /\ ~(k - 1 < i) /\ (k - 1) + 1 = k
      BY <1>2, <2>1, <2>3
    <3> QED
      BY <1>3, <3>1
  <2> QED
    BY <2>1, <2>2, <2>3
<1>7. TypeOK'
  BY <1>2, <1>3, <1>5, <1>6 DEF IInv, TypeOK, Row
<1>8. MovesUp' = MovesUp
  BY <1>2, <1>3 DEF MovesUp
<1>9. MessagesThenLines'
  BY <1>2, <1>8 DEF IInv, MessagesThenLines
<1> QED
  BY <1>2, <1>7, <1>9 DEF IInv, Row

(* An update changes no row.                                               *)
LEMMA UpdateHolds ==
  ASSUME IInv, NEW t \in Threads, EndUpdate(t) \/ \E text \in Texts : BeginUpdate(t, text)
  PROVE  IInv'
<1>1. UNCHANGED <<lines, diff, above, cursor, logs>>
  BY DEF EndUpdate, BeginUpdate
<1>2. /\ content' \in [Threads -> Texts \cup {Empty}] /\ writing' \in [Threads -> Texts \cup {Empty}]
      /\ \A u \in Threads : writing'[u] # Empty => u \in Owners
  <2>1. /\ content \in [Threads -> Texts \cup {Empty}] /\ writing \in [Threads -> Texts \cup {Empty}]
        /\ \A u \in Threads : writing[u] # Empty => u \in Owners
    BY DEF IInv, TypeOK
  <2>2. CASE EndUpdate(t)
    <3>1. /\ content' = [content EXCEPT ![t] = writing[t]]
          /\ writing' = [writing EXCEPT ![t] = Empty]
      BY <2>2 DEF EndUpdate
    <3> QED
      BY <2>1, <3>1
  <2>3. ASSUME NEW text \in Texts, BeginUpdate(t, text)
        PROVE  /\ content' \in [Threads -> Texts \cup {Empty}]
               /\ writing' \in [Threads -> Texts \cup {Empty}]
               /\ \A u \in Threads : writing'[u] # Empty => u \in Owners
    <3>1. /\ t \in Owners /\ content' = content
          /\ writing' = [writing EXCEPT ![t] = text]
      BY <2>3 DEF BeginUpdate
    <3> QED
      BY <2>1, <3>1
  <2> QED
    BY <2>2, <2>3
<1>3. Owners' = Owners
  BY <1>1 DEF Owners
<1>4. TypeOK'
  BY <1>1, <1>2, <1>3 DEF IInv, TypeOK, Row
<1>5. MessagesThenLines'
  BY <1>1 DEF IInv, MessagesThenLines, MovesUp
<1> QED
  BY <1>1, <1>4, <1>5 DEF IInv, Row

(* The rows that are kept are the messages.                                *)
LEMMA KeptAreMessages ==
  ASSUME IInv
  PROVE  Kept \in Seq(Item) /\ Len(Kept) = logs /\ \A i \in 1..logs : Kept[i] = i
<1>1. /\ above \in Seq(Item) /\ logs \in Nat /\ Len(above) = logs + MovesUp /\ MovesUp \in Nat
      /\ \A i \in 1..logs : above[i] = i
  BY TextAssumption DEF IInv, TypeOK, MessagesThenLines, MovesUp
<1>2. Kept = SubSeq(above, 1, logs)
  BY <1>1 DEF Kept
<1> QED
  BY <1>1, <1>2, SubSeqProperties

(* Rows that are put below others leave them where they are.               *)
LEMMA RowsBelow ==
  ASSUME NEW rows \in Seq(Item), NEW low \in Seq(Item)
  PROVE  /\ rows \o low \in Seq(Item) /\ Len(rows \o low) = Len(rows) + Len(low)
         /\ \A i \in 1..Len(rows) : i \in DOMAIN (rows \o low) /\ (rows \o low)[i] = rows[i]
<1>1. /\ rows \o low \in Seq(Item) /\ Len(rows \o low) = Len(rows) + Len(low)
      /\ Len(rows) \in Nat /\ Len(low) \in Nat
  BY ConcatProperties
<1>2. DOMAIN (rows \o low) = 1..Len(rows \o low)
  BY <1>1
<1>3. \A i \in 1..Len(rows) : i \in DOMAIN (rows \o low)
  BY <1>1, <1>2
<1>4. \A i \in 1..Len(rows) : (rows \o low)[i] = rows[i]
  BY <1>1, ConcatProperties
<1> QED
  BY <1>1, <1>3, <1>4

(* Drawing below the messages puts one row less than there are lines above *)
(* the cursor.                                                             *)
LEMMA DrawHolds ==
  ASSUME IInv, NEW rows \in Seq(Item), Len(rows) = logs', logs' \in 0..MaxLogs,
         \A i \in 1..logs' : rows[i] = i,
         Draw(rows), UNCHANGED <<lines, content, writing>>
  PROVE  IInv'
<1>1. PICK text \in [Owners -> Texts \cup {Empty, Torn}] :
        /\ above' = rows \o [i \in 1..(Len(lines) - 1) |-> text[lines[i]]]
        /\ cursor' = IF lines = << >> THEN Empty ELSE text[lines[Len(lines)]]
        /\ diff' = 0
  BY DEF Draw
<1>2. lines \in Seq(Threads) /\ Len(lines) \in Nat /\ DOMAIN lines = 1..Len(lines) /\ logs' \in Nat
  BY TextAssumption DEF IInv, TypeOK
<1> DEFINE n == IF Len(lines) > 0 THEN Len(lines) - 1 ELSE 0
           low == [i \in 1..(Len(lines) - 1) |-> text[lines[i]]]
<1>3. n \in Nat /\ 1..(Len(lines) - 1) = 1..n
  BY <1>2
<1>4. \A i \in DOMAIN lines : text[lines[i]] \in Row
  BY <1>2 DEF Owners, Row
<1>5. above' = rows \o low
  BY <1>1
<1>6. /\ above' \in Seq(Item) /\ Len(above') = logs' + n
      /\ \A i \in 1..logs' : i \in DOMAIN above' /\ above'[i] = rows[i]
  <2>1. low = [i \in 1..n |-> text[lines[i]]]
    BY <1>3
  <2>2. \A i \in 1..n : text[lines[i]] \in Item
    BY <1>2, <1>3, <1>4 DEF Item
  <2> HIDE DEF low
  <2>3. low \in Seq(Item) /\ Len(low) = n
    BY <1>3, <2>1, <2>2
  <2> QED
    BY <1>5, <2>3, RowsBelow
<1>7. MovesUp' = n
  BY <1>1, <1>2 DEF MovesUp
<1>8. MessagesThenLines'
  BY <1>6, <1>7 DEF MessagesThenLines
<1>9. cursor' \in Row
  BY <1>1, <1>2, <1>4 DEF Row
<1>10. TypeOK'
  BY <1>1, <1>9 DEF IInv, TypeOK, Owners, Row
<1> QED
  BY <1>6, <1>8, <1>10 DEF IInv, Item, Row

(* Every step keeps the screen in order.                                   *)
LEMMA NextHolds == IInv /\ [Next]_vars => IInv'
<1> SUFFICES ASSUME IInv, [Next]_vars PROVE IInv'
  OBVIOUS
<1>1. CASE DrawAll
  <2>1. Len(Kept) = logs' /\ logs' \in 0..MaxLogs /\ \A i \in 1..logs' : Kept[i] = i
    BY <1>1, KeptAreMessages DEF DrawAll, IInv, TypeOK
  <2> QED
    BY <1>1, <2>1, KeptAreMessages, DrawHolds DEF DrawAll
<1>2. CASE Log
  <2> DEFINE rows == Append(Kept, logs')
  <2>1. logs' = logs + 1 /\ logs' \in 0..MaxLogs /\ logs \in Nat
    BY <1>2, TextAssumption DEF Log, IInv, TypeOK
  <2>2. rows \in Seq(Item) /\ Len(rows) = logs' /\ \A i \in 1..logs' : rows[i] = i
    BY <2>1, KeptAreMessages DEF Item
  <2>3. Draw(rows) /\ UNCHANGED <<lines, content, writing>>
    BY <1>2 DEF Log
  <2> HIDE DEF rows
  <2> QED
    BY <2>1, <2>2, <2>3, DrawHolds
<1>3. CASE UNCHANGED vars
  BY <1>3 DEF vars, IInv, TypeOK, Row, Owners, MessagesThenLines, MovesUp
<1> QED
  BY <1>1, <1>2, <1>3, ClaimHolds, ReleaseHolds, UpdateHolds DEF Next

-------------------------------------------------------------------------------
(* Types, and no thread has two lines.                                     *)
THEOREM TypeCorrect == Spec => []TypeOK
<1>1. IInv => TypeOK
  BY DEF IInv
<1> QED
  BY <1>1, InitHolds, NextHolds, PTL DEF Spec

(* The screen is all messages in their order, then the lines drawn last,   *)
(* however many threads claim and release lines between two drawings.      *)
THEOREM ScreenIsInOrder == Spec => []MessagesThenLines
<1>1. IInv => MessagesThenLines
  BY DEF IInv
<1> QED
  BY <1>1, InitHolds, NextHolds, PTL DEF Spec

-------------------------------------------------------------------------------
(* The transfer of one file.  Every variable has its type.                 *)
StreamTypeOK ==
  /\ bytes \in Sizes /\ length \in Sizes
  /\ sent \in Nat /\ total \in Nat /\ expected \in Nat
  /\ written \in Nat /\ processed \in Nat
  /\ server \in {"sending", "closed"}
  /\ client \in {"streaming", "verifying", "verified", "failed"}
  /\ line = NoLine \/ line \in [path : Items, terminal : Terminals]
  /\ fault \in BOOLEAN

(* Where the bytes are: the file has at least those sent, of those pulled  *)
(* each is in the pipe or in the destination.                              *)
BytesAccountedFor ==
  /\ sent <= bytes /\ sent <= length /\ total <= sent
  /\ total = written + expected /\ processed <= written

(* While nothing has failed, a server that has closed has sent all there   *)
(* was of what it meant to send.                                           *)
ClosedWhenSent ==
  server = "closed" /\ client = "streaming" /\ ~fault => sent = Least(bytes, length)

StreamInv ==
  StreamTypeOK /\ BytesAccountedFor /\ ClosedWhenSent /\ HandedOverOrFailedForReason

(* The least of two numbers is one of them and no more than either.        *)
LEMMA LeastIsLeast ==
  ASSUME NEW a \in Int, NEW b \in Int
  PROVE  /\ Least(a, b) \in Int /\ Least(a, b) <= a /\ Least(a, b) <= b
         /\ Least(a, b) = a \/ Least(a, b) = b
BY DEF Least

(* A remainder of a number that is small enough is the number.             *)
LEMMA SmallRemainder ==
  ASSUME NEW n \in Nat, NEW m \in Nat, n < m
  PROVE  n % m = n
OBVIOUS

(* A size that an int32 can count comes through both conversions as it is. *)
LEMMA ConversionKeepsSize ==
  ASSUME NEW s \in Sizes, s < IntLimit
  PROVE  AsLong(AsInt(s)) = s
<1>1. s \in Nat /\ 2 * IntLimit \in Nat /\ LongLimit \in Nat /\ s < 2 * IntLimit /\ s < LongLimit
  BY WidthAssumption
<1>2. s % (2 * IntLimit) = s /\ s % LongLimit = s
  <2>1. s % (2 * IntLimit) = s
    BY <1>1, SmallRemainder
  <2>2. s % LongLimit = s
    BY <1>1, SmallRemainder
  <2> QED
    BY <2>1, <2>2
<1>3. AsInt(s) = s
  BY <1>2 DEF AsInt
<1> QED
  BY <1>2, <1>3 DEF AsLong

(* A chunk that a call has moved.                                          *)
LEMMA ChunkBounds ==
  ASSUME NEW left \in Int, NEW n \in 1..Least(MaxChunk, left)
  PROVE  n \in Nat /\ n >= 1 /\ n <= left
<1>1. MaxChunk \in Int
  BY WidthAssumption
<1> QED
  BY <1>1, LeastIsLeast

(* Nothing has moved at first.                                             *)
LEMMA StreamInitHolds == StreamInit => StreamInv
<1> SUFFICES ASSUME StreamInit PROVE StreamInv
  OBVIOUS
<1>1. bytes \in Nat /\ length \in Nat
  BY WidthAssumption DEF StreamInit
<1>2. StreamTypeOK
  BY DEF StreamInit, StreamTypeOK
<1>3. BytesAccountedFor
  BY <1>1 DEF StreamInit, BytesAccountedFor
<1> QED
  BY <1>2, <1>3 DEF StreamInit, StreamInv, ClosedWhenSent, HandedOverOrFailedForReason

(* What the server does.                                                   *)
LEMMA ServerKeepsInv ==
  ASSUME StreamInv, ServerStep \/ SendFails
  PROVE  StreamInv'
<1>1. /\ bytes \in Nat /\ length \in Nat /\ sent \in Nat /\ sent <= bytes /\ sent <= length
      /\ Least(bytes, length) \in Int /\ Least(bytes, length) <= bytes
      /\ Least(bytes, length) <= length
  BY WidthAssumption, LeastIsLeast DEF StreamInv, StreamTypeOK, BytesAccountedFor
<1>2. UNCHANGED <<bytes, length, total, expected, written, processed, client, line>>
  BY DEF ServerStep, Sendfile, SendEnds, SendFails, source, receiver
<1>3. CASE Sendfile
  <2>1. PICK n \in 1..Least(MaxChunk, Least(bytes, length) - sent) : sent' = sent + n
    BY <1>3 DEF Sendfile
  <2>2. n \in Nat /\ n <= Least(bytes, length) - sent
    BY <1>1, ChunkBounds
  <2>3. sent' \in Nat /\ sent' >= sent /\ sent' <= bytes /\ sent' <= length
    BY <1>1, <2>1, <2>2
  <2>4. server = "sending" /\ server' = server /\ fault' = fault
    BY <1>3 DEF Sendfile
  <2> QED
    BY <1>2, <2>3, <2>4 DEF StreamInv, StreamTypeOK, BytesAccountedFor, ClosedWhenSent,
                            HandedOverOrFailedForReason
<1>4. CASE SendEnds
  <2>1. sent >= Least(bytes, length) /\ sent' = sent /\ server' = "closed" /\ fault' = fault
    BY <1>4 DEF SendEnds
  <2>2. sent = Least(bytes, length)
    BY <1>1, <2>1 DEF Least
  <2>3. Least(bytes, length)' = Least(bytes, length)
    BY <1>2 DEF Least
  <2> QED
    BY <1>2, <2>1, <2>2, <2>3
    DEF StreamInv, StreamTypeOK, BytesAccountedFor, ClosedWhenSent, HandedOverOrFailedForReason
<1>5. CASE SendFails
  <2>1. sent' = sent /\ server' = "closed" /\ fault' = (fault \/ client = "streaming")
    BY <1>5 DEF SendFails
  <2>2. fault' \in BOOLEAN /\ (fault => fault') /\ (client = "streaming" => fault')
    BY <2>1 DEF StreamInv, StreamTypeOK
  <2> HIDE <2>1
  <2>3. sent' = sent /\ server' = "closed"
    BY <2>1
  <2> QED
    BY <1>2, <2>2, <2>3
    DEF StreamInv, StreamTypeOK, BytesAccountedFor, ClosedWhenSent, HandedOverOrFailedForReason
<1> QED
  BY <1>3, <1>4, <1>5 DEF ServerStep

(* The condition of the loop of a size that an int32 can count.            *)
LEMMA WantedWhenLess ==
  ASSUME StreamInv, bytes < IntLimit
  PROVE  Wanted <=> client = "streaming" /\ expected = 0 /\ total < bytes
BY ConversionKeepsSize DEF Wanted, StreamInv, StreamTypeOK

(* One turn of the client's first loop up to the pipe.                     *)
LEMMA PullKeepsInv ==
  ASSUME StreamInv, Pull \/ PullEnds
  PROVE  StreamInv'
<1>1. /\ bytes \in Nat /\ length \in Nat /\ sent \in Nat /\ total \in Nat /\ expected \in Nat
      /\ written \in Nat /\ processed \in Nat
      /\ total <= sent /\ sent <= bytes /\ sent <= length
      /\ total = written + expected /\ processed <= written
  BY WidthAssumption DEF StreamInv, StreamTypeOK, BytesAccountedFor
<1>2. /\ client = "streaming" /\ expected = 0
      /\ UNCHANGED <<bytes, length, sent, server, written, processed, fault>>
      /\ line' = NoLine
  BY DEF Pull, PullEnds, Wanted, source, sender, receiver
<1>3. CASE Pull
  <2>1. PICK n \in 1..Least(MaxChunk, sent - total) : total' = total + n /\ expected' = n
    BY <1>3 DEF Pull
  <2>2. n \in Nat /\ n <= sent - total
    BY <1>1, ChunkBounds
  <2>3. total' \in Nat /\ expected' \in Nat /\ total' <= sent /\ total' = written + expected'
    BY <1>1, <1>2, <2>1, <2>2
  <2>4. client' = client
    BY <1>3 DEF Pull
  <2>5. Least(bytes, length)' = Least(bytes, length)
    BY <1>2 DEF Least
  <2> QED
    BY <1>1, <1>2, <2>3, <2>4, <2>5
    DEF StreamInv, StreamTypeOK, BytesAccountedFor, ClosedWhenSent, HandedOverOrFailedForReason
<1>4. CASE PullEnds
  <2>1. /\ server = "closed" /\ sent = total /\ client' = "failed"
        /\ UNCHANGED <<total, expected>>
    BY <1>4 DEF PullEnds, receiver
  <2>2. ASSUME bytes < IntLimit, ~fault PROVE length < bytes
    <3>1. total < bytes
      BY <1>4, <2>2, WantedWhenLess DEF PullEnds
    <3>2. sent = Least(bytes, length)
      BY <1>2, <2>1, <2>2 DEF StreamInv, ClosedWhenSent
    <3> QED
      BY <1>1, <2>1, <3>1, <3>2 DEF Least
  <2> QED
    BY <1>1, <1>2, <2>1, <2>2
    DEF StreamInv, StreamTypeOK, BytesAccountedFor, ClosedWhenSent, HandedOverOrFailedForReason
<1> QED
  BY <1>3, <1>4

(* From the pipe to the file, and the end of the first loop.               *)
LEMMA StoreKeepsInv ==
  ASSUME StreamInv, Store \/ Done
  PROVE  StreamInv'
<1>1. /\ bytes \in Nat /\ length \in Nat /\ sent \in Nat /\ total \in Nat /\ expected \in Nat
      /\ written \in Nat /\ processed \in Nat
      /\ total <= sent /\ sent <= bytes /\ sent <= length
      /\ total = written + expected /\ processed <= written
  BY WidthAssumption DEF StreamInv, StreamTypeOK, BytesAccountedFor
<1>2. /\ client = "streaming"
      /\ UNCHANGED <<bytes, length, sent, server, total, processed, line, fault>>
  BY DEF Store, Done, source, sender, receiver
<1>3. CASE Store
  <2>1. PICK n \in 1..expected : written' = written + n /\ expected' = expected - n
    BY <1>3 DEF Store
  <2>2. /\ written' \in Nat /\ expected' \in Nat /\ total = written' + expected'
        /\ processed <= written'
    BY <1>1, <2>1
  <2>3. client' = client
    BY <1>3 DEF Store
  <2>4. Least(bytes, length)' = Least(bytes, length)
    BY <1>2 DEF Least
  <2> QED
    BY <1>1, <1>2, <2>2, <2>3, <2>4
    DEF StreamInv, StreamTypeOK, BytesAccountedFor, ClosedWhenSent, HandedOverOrFailedForReason
<1>4. CASE Done
  <2>1. expected = 0 /\ ~Wanted /\ client' = "verifying" /\ UNCHANGED <<expected, written>>
    BY <1>4 DEF Done, receiver
  <2>2. ASSUME bytes < IntLimit PROVE written = bytes
    <3>1. ~(total < bytes)
      BY <1>2, <2>1, <2>2, WantedWhenLess
    <3> QED
      BY <1>1, <2>1, <3>1
  <2> QED
    BY <1>1, <1>2, <2>1, <2>2
    DEF StreamInv, StreamTypeOK, BytesAccountedFor, ClosedWhenSent, HandedOverOrFailedForReason
<1> QED
  BY <1>3, <1>4

(* The integrity task.                                                     *)
LEMMA ProcessKeepsInv ==
  ASSUME StreamInv, Process \/ ProcessEnds
  PROVE  StreamInv'
<1>1. written \in Nat /\ processed \in Nat /\ processed <= written
  BY DEF StreamInv, StreamTypeOK, BytesAccountedFor
<1>2. /\ client = "verifying"
      /\ UNCHANGED <<bytes, length, sent, server, total, expected, written, fault>>
      /\ line' = NoLine
  BY DEF Process, ProcessEnds, source, sender, receiver
<1>3. CASE Process
  <2>1. PICK n \in 1..Least(MaxChunk, written - processed) : processed' = processed + n
    BY <1>3 DEF Process
  <2>2. n \in Nat /\ n <= written - processed
    BY <1>1, ChunkBounds
  <2>3. processed' \in Nat /\ processed' <= written
    BY <1>1, <2>1, <2>2
  <2>4. client' = client
    BY <1>3 DEF Process
  <2> QED
    BY <1>2, <2>3, <2>4
    DEF StreamInv, StreamTypeOK, BytesAccountedFor, ClosedWhenSent, HandedOverOrFailedForReason
<1>4. CASE ProcessEnds
  <2>1. processed = written /\ client' = "verified" /\ processed' = processed
    BY <1>4 DEF ProcessEnds, receiver
  <2> QED
    BY <1>2, <2>1
    DEF StreamInv, StreamTypeOK, BytesAccountedFor, ClosedWhenSent, HandedOverOrFailedForReason
<1> QED
  BY <1>3, <1>4

(* Lines are shown, and calls fail, without a byte being moved.            *)
LEMMA NoByteMoved ==
  ASSUME StreamInv, Update \/ ClientFails \/ UNCHANGED streamVars
  PROVE  StreamInv'
<1>1. UNCHANGED <<bytes, length, sent, server, total, expected, written, processed>>
  BY DEF Update, ClientFails, streamVars, source, sender, receiver
<1>2. Least(bytes, length)' = Least(bytes, length)
  BY <1>1 DEF Least
<1>3. CASE Update
  <2>1. PICK path \in Items, terminal \in Terminals : line' = [path |-> path, terminal |-> terminal]
    BY <1>3 DEF Update
  <2>2. line' \in [path : Items, terminal : Terminals]
    BY <2>1
  <2>3. UNCHANGED <<client, fault>>
    BY <1>3 DEF Update
  <2> QED
    BY <1>1, <1>2, <2>2, <2>3
    DEF StreamInv, StreamTypeOK, BytesAccountedFor, ClosedWhenSent, HandedOverOrFailedForReason
<1>4. CASE ClientFails
  <2>1. client' = "failed" /\ fault' = TRUE /\ line' = NoLine
    BY <1>4 DEF ClientFails
  <2> QED
    BY <1>1, <2>1
    DEF StreamInv, StreamTypeOK, BytesAccountedFor, ClosedWhenSent, HandedOverOrFailedForReason
<1>5. CASE UNCHANGED streamVars
  <2>1. UNCHANGED <<client, line, fault>>
    BY <1>5 DEF streamVars
  <2> QED
    BY <1>1, <1>2, <2>1
    DEF StreamInv, StreamTypeOK, BytesAccountedFor, ClosedWhenSent, HandedOverOrFailedForReason
<1> QED
  BY <1>3, <1>4, <1>5

(* Every step of the transfer keeps its invariant.                         *)
LEMMA StreamStep == StreamInv /\ [StreamNext]_streamVars => StreamInv'
BY ServerKeepsInv, PullKeepsInv, StoreKeepsInv, ProcessKeepsInv, NoByteMoved
DEF StreamNext, ClientStep

(* For any sizes, limits and chunks: a file that an int32 can count is     *)
(* handed over whole, or a call has failed, or the file has shrunk.        *)
THEOREM FileIsHandedOver == StreamSpec => []HandedOverOrFailedForReason
<1>1. StreamInv => HandedOverOrFailedForReason
  BY DEF StreamInv
<1> QED
  BY <1>1, StreamInitHolds, StreamStep, PTL DEF StreamSpec

-------------------------------------------------------------------------------
(* What division and products do, as far as the lines need it.             *)
LEMMA DivisionBounds ==
  ASSUME NEW a \in Nat, NEW b \in Nat \ {0}
  PROVE  a \div b \in Nat /\ (a \div b) * b <= a /\ a < (a \div b + 1) * b
OBVIOUS

(* A product grows with each of its factors.                               *)
LEMMA ProductGrows ==
  ASSUME NEW a \in Nat, NEW b \in Nat, NEW c \in Nat, a <= b
  PROVE  c * a \in Nat /\ c * b \in Nat /\ c * a <= c * b
OBVIOUS

(* Of products with the same factor, the less has the lesser other factor. *)
LEMMA FactorsInOrder ==
  ASSUME NEW a \in Int, NEW b \in Int, NEW c \in Nat \ {0}, a * c <= b * c
  PROVE  a <= b
OBVIOUS

(* One more and one less times a number.                                   *)
LEMMA OneMoreTimes ==
  ASSUME NEW q \in Int, NEW b \in Int
  PROVE  q * b \in Int /\ (q + 1) * b = q * b + b /\ (q - 1) * b = q * b - b
OBVIOUS

(* A number from n times a progress from [0:1] is n times the progress,    *)
(* less than one less.                                                     *)
LEMMA TruncatedIsNear ==
  ASSUME NEW n \in Nat, NEW done \in Nat, NEW all \in Nat \ {0}, done <= all,
         NEW q \in Truncated(n, done, all)
  PROVE  q \in 0..n /\ q * all <= n * done /\ n * done <= (q + 1) * all
<1> DEFINE whole == (n * done) \div all
<1>1. n * done \in Nat /\ n * done <= n * all /\ n * all = all * n
  BY ProductGrows
<1>2. whole \in Nat /\ whole * all <= n * done /\ n * done < (whole + 1) * all
  BY <1>1, DivisionBounds
<1>3. Quotient(n * done, all) = whole
  BY <1>1 DEF Quotient
<1>4. q = whole \/ (q = whole - 1 /\ whole * all = n * done /\ whole > 0)
  BY <1>3 DEF Truncated
<1>5. whole <= n
  <2>1. whole * all <= n * all
    BY <1>1, <1>2, OneMoreTimes
  <2> QED
    BY <1>2, <2>1, FactorsInOrder
<1> HIDE DEF whole
<1>6. CASE q = whole
  BY <1>1, <1>2, <1>5, <1>6, OneMoreTimes
<1>7. CASE q = whole - 1 /\ whole * all = n * done /\ whole > 0
  <2>1. q \in 0..n /\ q + 1 = whole
    BY <1>2, <1>5, <1>7
  <2>2. q * all = whole * all - all /\ whole * all \in Int
    BY <1>2, <1>7, OneMoreTimes
  <2>3. (q + 1) * all = n * done
    BY <1>7, <2>1
  <2>4. q * all <= n * done
    BY <1>1, <1>7, <2>2
  <2> QED
    BY <1>1, <2>1, <2>3, <2>4
<1> QED
  BY <1>4, <1>6, <1>7

(* A character after what is there.                                        *)
LEMMA CharacterAppended ==
  ASSUME NEW out \in Seq(Int), NEW c \in Int, NEW new, new = out \o << >> \o <<c>>
  PROVE  /\ new \in Seq(Int) /\ Len(new) = Len(out) + 1
         /\ \A j \in 1..Len(out) : new[j] = out[j]
         /\ new[Len(out) + 1] = c
<1>1. <<c>> \in Seq(Int) /\ Len(<<c>>) = 1 /\ <<c>>[1] = c /\ Len(out) \in Nat
  OBVIOUS
<1>2. new = out \o <<c>>
  BY EmptySeq, ConcatEmptySeq
<1> QED
  BY <1>1, <1>2

(* A point and a character after what is there.                            *)
LEMMA PointAppended ==
  ASSUME NEW out \in Seq(Int), NEW c \in Int, NEW new
  PROVE  new = out \o <<46>> \o <<c>> =>
           /\ new \in Seq(Int) /\ Len(new) = Len(out) + 2
           /\ \A j \in 1..Len(out) : new[j] = out[j]
           /\ new[Len(out) + 1] = 46 /\ new[Len(out) + 2] = c
<1> HAVE new = out \o <<46>> \o <<c>>
<1> DEFINE point == out \o <<46>>
<1>1. Len(out) \in Nat
  OBVIOUS
<1>2. /\ point \in Seq(Int) /\ Len(point) = Len(out) + 1
      /\ \A j \in 1..Len(out) : point[j] = out[j]
      /\ point[Len(out) + 1] = 46
  <2>1. <<46>> \in Seq(Int) /\ Len(<<46>>) = 1 /\ <<46>>[1] = 46
    OBVIOUS
  <2> QED
    BY <1>1, <2>1
<1>3. new = point \o <<c>> /\ <<c>> \in Seq(Int) /\ Len(<<c>>) = 1 /\ <<c>>[1] = c
  OBVIOUS
<1> HIDE DEF point
<1>4. /\ new \in Seq(Int) /\ Len(new) = Len(point) + 1
      /\ \A j \in 1..Len(point) : new[j] = point[j]
      /\ new[Len(point) + 1] = c
  BY <1>1, <1>2, <1>3
<1> QED
  BY <1>1, <1>2, <1>4

(* What one turn of the loop does, its digit being this one.               *)
OnePlace(acc, factor, digit, next) ==
  LET c == IF digit = 0 /\ factor >= 100 /\ acc.zeros THEN 32 ELSE 48 + digit
  IN /\ digit * factor <= acc.rest /\ acc.rest < (digit + 1) * factor
     /\ next.rest = acc.rest - digit * factor
     /\ next.zeros <=> acc.zeros /\ digit = 0
     /\ next.out = acc.out \o (IF factor = 1 THEN <<46>> ELSE << >>) \o <<c>>

(* One turn of the loop puts the digit of its factor, or a blank.          *)
LEMMA PlaceOfFactor ==
  ASSUME NEW acc, NEW factor \in {1000, 100, 10, 1},
         acc.rest \in Nat, acc.rest < 10 * factor, acc.out \in Seq(Int)
  PROVE  \E digit \in 0..9 : OnePlace(acc, factor, digit, Place(acc, factor))
<1> DEFINE digit == acc.rest \div factor
           c == IF digit = 0 /\ factor >= 100 /\ acc.zeros THEN 32 ELSE 48 + digit
<1>1. factor \in Nat \ {0} /\ factor \in Int
  OBVIOUS
<1>2. digit \in Nat /\ digit * factor <= acc.rest /\ acc.rest < (digit + 1) * factor
  BY <1>1, DivisionBounds
<1>3. Quotient(acc.rest, factor) = digit
  BY <1>1 DEF Quotient
<1> HIDE DEF digit
<1>4. digit \in 0..9
  <2>1. CASE digit >= 10
    <3>1. factor * 10 <= factor * digit
      BY <1>1, <1>2, <2>1, ProductGrows
    <3> QED
      BY <1>1, <1>2, <3>1
  <2> QED
    BY <1>2, <2>1
<1>5. (48 + digit) % 256 = 48 + digit
  BY <1>4
<1>6. ~(acc.rest - digit * factor < 0)
  BY <1>1, <1>2, <1>4, OneMoreTimes
<1>7. Place(acc, factor).rest = acc.rest - digit * factor
  BY <1>3, <1>6 DEF Place
<1>8. Place(acc, factor).zeros <=> acc.zeros /\ digit = 0
  BY <1>3, Zenon DEF Place
<1>9. Place(acc, factor).out = acc.out \o (IF factor = 1 THEN <<46>> ELSE << >>) \o <<c>>
  <2>1. Place(acc, factor).out
          = acc.out \o (IF factor = 1 THEN <<46>> ELSE << >>)
              \o <<IF digit = 0 /\ factor >= 100 /\ acc.zeros THEN 32 ELSE (48 + digit) % 256>>
    BY <1>3, ZenonT(40) DEF Place
  <2> QED
    BY <1>5, <2>1, Zenon
<1> QED
  BY <1>2, <1>4, <1>7, <1>8, <1>9 DEF OnePlace

(* The characters of a number of tenths: four digits, of which the first   *)
(* two are blank if there is nothing but zeros up to them.                 *)
TenthsShown(text, scaled, a, b, c, d) ==
  /\ scaled = 1000 * a + 100 * b + 10 * c + d
  /\ Len(text) = 6 /\ text[4] = 46 /\ text[6] = 37
  /\ text[1] = IF a = 0 THEN 32 ELSE 48 + a
  /\ text[2] = IF a = 0 /\ b = 0 THEN 32 ELSE 48 + b
  /\ text[3] = 48 + c /\ text[5] = 48 + d

TellsTenths(text, scaled) ==
  \E a, b, c, d \in 0..9 : TenthsShown(text, scaled, a, b, c, d)

(* It is what the four turns make of every number up to 1000.              *)
LEMMA PlacesOfTenths ==
  ASSUME NEW scaled \in Nat, scaled <= 1000
  PROVE  TellsTenths(PercentToString(scaled), scaled)
<1> DEFINE s0 == [rest |-> scaled, zeros |-> TRUE, out |-> << >>]
           s1 == Place(s0, 1000)
           s2 == Place(s1, 100)
           s3 == Place(s2, 10)
           s4 == Place(s3, 1)
<1>0. PercentToString(scaled) = s4.out \o <<37>>
  BY DEF PercentToString, Places
<1>1. s0.rest = scaled /\ s0.zeros /\ s0.out = << >> /\ s0.out \in Seq(Int) /\ Len(s0.out) = 0
  <2>1. s0.zeros = TRUE
    BY Zenon
  <2> QED
    BY <2>1
<1> HIDE DEF s0, s1, s2, s3, s4
<1>2. PICK a \in 0..9 : OnePlace(s0, 1000, a, s1)
  <2>1. s0.rest \in Nat /\ s0.rest < 10 * 1000 /\ s0.out \in Seq(Int)
    BY <1>1
  <2>2. 1000 \in {1000, 100, 10, 1}
    OBVIOUS
  <2>3. \E digit \in 0..9 : OnePlace(s0, 1000, digit, Place(s0, 1000))
    BY <2>1, <2>2, PlaceOfFactor, SMTT(30)
  <2> QED
    BY <2>3, Zenon DEF s1
<1> DEFINE ca == IF a = 0 THEN 32 ELSE 48 + a
<1>3. /\ s1.rest \in Nat /\ s1.rest < 1000 /\ s1.rest = scaled - 1000 * a /\ (s1.zeros <=> a = 0)
      /\ s1.out = s0.out \o << >> \o <<ca>>
  BY <1>1, <1>2 DEF OnePlace
<1>4. ca \in Int
  OBVIOUS
<1> HIDE DEF ca
<1>5. s1.out \in Seq(Int) /\ Len(s1.out) = 1 /\ s1.out[1] = ca
  BY <1>1, <1>3, <1>4, CharacterAppended
<1>6. PICK b \in 0..9 : OnePlace(s1, 100, b, s2)
  <2>1. s1.rest \in Nat /\ s1.rest < 10 * 100 /\ s1.out \in Seq(Int)
    BY <1>3, <1>5
  <2>2. 100 \in {1000, 100, 10, 1}
    OBVIOUS
  <2>3. \E digit \in 0..9 : OnePlace(s1, 100, digit, Place(s1, 100))
    BY <2>1, <2>2, PlaceOfFactor, SMTT(30)
  <2> QED
    BY <2>3, Zenon DEF s2
<1> DEFINE cb == IF a = 0 /\ b = 0 THEN 32 ELSE 48 + b
<1>7. /\ s2.rest \in Nat /\ s2.rest < 100 /\ s2.rest = scaled - 1000 * a - 100 * b
      /\ s2.out = s1.out \o << >> \o <<cb>>
  <2>1. /\ b * 100 <= s1.rest /\ s1.rest < (b + 1) * 100 /\ s2.rest = s1.rest - b * 100
    BY <1>6 DEF OnePlace
  <2>2. s2.out = s1.out \o << >> \o <<cb>>
    BY <1>3, <1>6, SMTT(30) DEF OnePlace
  <2> HIDE DEF cb
  <2> QED
    BY <1>3, <2>1, <2>2
<1>8. cb \in Int
  OBVIOUS
<1> HIDE DEF cb
<1>9. s2.out \in Seq(Int) /\ Len(s2.out) = 2 /\ s2.out[1] = ca /\ s2.out[2] = cb
  <2>1. /\ s2.out \in Seq(Int) /\ Len(s2.out) = Len(s1.out) + 1
        /\ \A j \in 1..Len(s1.out) : s2.out[j] = s1.out[j]
        /\ s2.out[Len(s1.out) + 1] = cb
    BY <1>5, <1>7, <1>8, CharacterAppended
  <2> QED
    BY <1>5, <2>1
<1>10. PICK c \in 0..9 : OnePlace(s2, 10, c, s3)
  <2>1. s2.rest \in Nat /\ s2.rest < 10 * 10 /\ s2.out \in Seq(Int)
    BY <1>7, <1>9
  <2>2. 10 \in {1000, 100, 10, 1}
    OBVIOUS
  <2>3. \E digit \in 0..9 : OnePlace(s2, 10, digit, Place(s2, 10))
    BY <2>1, <2>2, PlaceOfFactor, SMTT(30)
  <2> QED
    BY <2>3, Zenon DEF s3
<1>11. /\ s3.rest \in 0..9 /\ s3.rest = scaled - 1000 * a - 100 * b - 10 * c
       /\ s3.out = s2.out \o << >> \o <<48 + c>>
  BY <1>7, <1>10 DEF OnePlace
<1>12. /\ s3.out \in Seq(Int) /\ Len(s3.out) = 3
       /\ s3.out[1] = ca /\ s3.out[2] = cb /\ s3.out[3] = 48 + c
  <2>1. /\ s3.out \in Seq(Int) /\ Len(s3.out) = Len(s2.out) + 1
        /\ \A j \in 1..Len(s2.out) : s3.out[j] = s2.out[j]
        /\ s3.out[Len(s2.out) + 1] = 48 + c
    BY <1>9, <1>11, 48 + c \in Int, CharacterAppended, SMTT(30)
  <2> QED
    BY <1>9, <2>1
<1>13. PICK d \in 0..9 : OnePlace(s3, 1, d, s4)
  <2>1. s3.rest \in Nat /\ s3.rest < 10 * 1 /\ s3.out \in Seq(Int)
    BY <1>11, <1>12
  <2>2. 1 \in {1000, 100, 10, 1}
    OBVIOUS
  <2>3. \E digit \in 0..9 : OnePlace(s3, 1, digit, Place(s3, 1))
    BY <2>1, <2>2, PlaceOfFactor, SMTT(30)
  <2> QED
    BY <2>3, Zenon DEF s4
<1>14. d = s3.rest /\ s4.out = s3.out \o <<46>> \o <<48 + d>>
  BY <1>11, <1>13 DEF OnePlace
<1>15. scaled = 1000 * a + 100 * b + 10 * c + d
  BY <1>11, <1>14
<1>16. /\ s4.out \in Seq(Int) /\ Len(s4.out) = 5
       /\ s4.out[1] = ca /\ s4.out[2] = cb /\ s4.out[3] = 48 + c /\ s4.out[4] = 46
       /\ s4.out[5] = 48 + d
  <2>1. /\ s4.out \in Seq(Int) /\ Len(s4.out) = Len(s3.out) + 2
        /\ \A j \in 1..Len(s3.out) : s4.out[j] = s3.out[j]
        /\ s4.out[Len(s3.out) + 1] = 46 /\ s4.out[Len(s3.out) + 2] = 48 + d
    <3> DEFINE last == 48 + d
    <3>1. last \in Int /\ s3.out \in Seq(Int) /\ s4.out = s3.out \o <<46>> \o <<last>>
      BY <1>12, <1>14
    <3> HIDE DEF last
    <3>2. /\ s4.out \in Seq(Int) /\ Len(s4.out) = Len(s3.out) + 2
          /\ \A j \in 1..Len(s3.out) : s4.out[j] = s3.out[j]
          /\ s4.out[Len(s3.out) + 1] = 46 /\ s4.out[Len(s3.out) + 2] = last
      BY <3>1, PointAppended
    <3> QED
      BY <3>2 DEF last
  <2>2. Len(s4.out) = 5 /\ Len(s3.out) + 1 = 4 /\ Len(s3.out) + 2 = 5
    BY <1>12, <2>1
  <2>3. s4.out[1] = s3.out[1] /\ s4.out[2] = s3.out[2] /\ s4.out[3] = s3.out[3]
    BY <1>12, <2>1
  <2> QED
    BY <1>12, <2>1, <2>2, <2>3, Zenon
<1> DEFINE text == PercentToString(scaled)
<1>17. /\ text \in Seq(Int) /\ Len(text) = 6
       /\ text[1] = ca /\ text[2] = cb /\ text[3] = 48 + c /\ text[4] = 46
       /\ text[5] = 48 + d /\ text[6] = 37
  <2> HIDE DEF text
  <2>1. text = s4.out \o << >> \o <<37>>
    BY <1>0, <1>16, EmptySeq, ConcatEmptySeq DEF text
  <2>2. /\ text \in Seq(Int) /\ Len(text) = Len(s4.out) + 1
        /\ \A j \in 1..Len(s4.out) : text[j] = s4.out[j]
        /\ text[Len(s4.out) + 1] = 37
    <3> DEFINE last == 37
    <3>1. last \in Int /\ s4.out \in Seq(Int) /\ text = s4.out \o << >> \o <<last>>
      BY <1>16, <2>1
    <3> HIDE DEF last
    <3>2. /\ text \in Seq(Int) /\ Len(text) = Len(s4.out) + 1
          /\ \A j \in 1..Len(s4.out) : text[j] = s4.out[j]
          /\ text[Len(s4.out) + 1] = last
      BY <3>1, CharacterAppended
    <3> QED
      BY <3>2 DEF last
  <2> QED
    BY <1>16, <2>2
<1>18. text[1] = (IF a = 0 THEN 32 ELSE 48 + a) /\ text[2] = (IF a = 0 /\ b = 0 THEN 32 ELSE 48 + b)
  <2> HIDE DEF text
  <2> QED
    BY <1>17 DEF ca, cb
<1> HIDE DEF text
<1>19. TenthsShown(text, scaled, a, b, c, d)
  BY <1>15, <1>17, <1>18 DEF TenthsShown
<1> QED
  BY <1>19 DEF text, TellsTenths

(* The bar of a line and how much of it is filled.                         *)
LEMMA BarIsNear ==
  ASSUME NEW bar \in Int, NEW done \in Nat, NEW all \in Nat \ {0}, done <= all,
         NEW filled \in Truncated(bar, done, all),
         NEW wide, wide = IF bar > 0 THEN bar ELSE 0,
         NEW full, full = IF filled < 0 \/ bar < 0 THEN 0 ELSE IF filled > bar THEN bar ELSE filled
  PROVE  (full - 1) * all <= wide * done /\ wide * done <= (full + 1) * all
<1>1. CASE bar < 0
  <2>1. wide = 0 /\ full = 0
    BY <1>1
  <2> QED
    BY <2>1
<1>2. CASE bar >= 0
  <2>1. filled \in 0..bar /\ filled * all <= bar * done /\ bar * done <= (filled + 1) * all
    BY <1>2, TruncatedIsNear
  <2>2. wide = bar /\ full = filled
    BY <1>2, <2>1
  <2>3. (filled - 1) * all <= filled * all
    BY <2>1, OneMoreTimes
  <2>4. /\ filled * all \in Int /\ (filled - 1) * all \in Int
        /\ bar * done \in Int /\ (filled + 1) * all \in Int
    BY <2>1
  <2>5. (filled - 1) * all <= bar * done
    BY <2>1, <2>3, <2>4
  <2> QED
    BY <2>1, <2>2, <2>5
<1> QED
  BY <1>1, <1>2

(* What six characters say, of which only leading zeros are blank.         *)
DigitsTell(text, number) ==
  LET digits == <<text[1], text[2], text[3], text[5]>>
      Value(k) == IF digits[k] = 32 THEN 0 ELSE digits[k] - 48
      tenths == 1000 * Value(1) + 100 * Value(2) + 10 * Value(3) + Value(4)
  IN /\ Len(text) = 6 /\ text[4] = 46 /\ text[6] = 37
     /\ \A k \in 1..4 : digits[k] = 32 \/ Value(k) \in 0..9
     /\ \A k \in 1..4 : digits[k] = 32 <=> k <= 2 /\ \A j \in 1..k : Value(j) = 0
     /\ tenths = number

(* The characters of a number of tenths say the number.                    *)
LEMMA PercentTells ==
  ASSUME NEW scaled \in Nat, scaled <= 1000
  PROVE  DigitsTell(PercentToString(scaled), scaled)
<1> DEFINE text == PercentToString(scaled)
<1>1. TellsTenths(text, scaled)
  BY PlacesOfTenths
<1> HIDE DEF text
<1>2. PICK a, b, c, d \in 0..9 : TenthsShown(text, scaled, a, b, c, d)
  BY <1>1 DEF TellsTenths
<1> DEFINE digits == <<text[1], text[2], text[3], text[5]>>
           Value(k) == IF digits[k] = 32 THEN 0 ELSE digits[k] - 48
           tenths == 1000 * Value(1) + 100 * Value(2) + 10 * Value(3) + Value(4)
<1>3. /\ digits[1] = (IF a = 0 THEN 32 ELSE 48 + a)
      /\ digits[2] = (IF a = 0 /\ b = 0 THEN 32 ELSE 48 + b)
      /\ digits[3] = 48 + c /\ digits[4] = 48 + d
  BY <1>2 DEF TenthsShown
<1> HIDE DEF digits
<1>4. Value(1) = a /\ Value(2) = b /\ Value(3) = c /\ Value(4) = d
  BY <1>3
<1>5. tenths = scaled
  <2>1. scaled = 1000 * a + 100 * b + 10 * c + d
    BY <1>2 DEF TenthsShown
  <2> HIDE DEF Value
  <2> QED
    BY <1>4, <2>1
<1>6. \A k \in 1..4 : digits[k] = 32 \/ Value(k) \in 0..9
  <2> HIDE DEF Value
  <2> QED
    BY <1>4
<1>7. ASSUME NEW k \in 1..4 PROVE digits[k] = 32 <=> k <= 2 /\ \A j \in 1..k : Value(j) = 0
  <2>1. CASE k = 1
    BY <1>3, <1>4, <2>1
  <2>2. CASE k = 2
    BY <1>3, <1>4, <2>2
  <2>3. CASE k = 3 \/ k = 4
    BY <1>3, <2>3
  <2> QED
    BY <2>1, <2>2, <2>3
<1>8. Len(text) = 6 /\ text[4] = 46 /\ text[6] = 37
  BY <1>2 DEF TenthsShown
<1> HIDE DEF Value, tenths
<1>9. DigitsTell(text, scaled)
  BY <1>5, <1>6, <1>7, <1>8 DEF DigitsTell, digits, Value, tenths
<1> QED
  BY <1>9 DEF text

(* A line is made from a room for the bar, the filled part of it and a     *)
(* number of tenths.                                                       *)
MadeFrom(shown, bar, filled, scaled) ==
  /\ shown.bar = IF bar > 0 THEN bar ELSE 0
  /\ shown.filled = IF filled < 0 \/ bar < 0 THEN 0 ELSE IF filled > bar THEN bar ELSE filled
  /\ shown.percent = PercentToString(scaled)

(* A line for a progress from [0:1] tells it.                              *)
LEMMA LineTells ==
  ASSUME NEW text, NEW terminal \in Int, NEW done \in Int, NEW all \in Int,
         NEW shown \in BuildLine(text, terminal, done, all), InRange(shown)
  PROVE  TellsProgress(shown)
<1> DEFINE columns == terminal - 1
           space == Quotient(columns, 3)
           bar == columns - (4 + space) - 8
<1>1. bar \in Int
  BY DEF Quotient
<1>2. shown.done = done /\ shown.total = all
  BY DEF BuildLine
<1>3. \E filled \in Truncated(bar, done, all), scaled \in Truncated(1000, done, all) :
        MadeFrom(shown, bar, filled, scaled)
  BY DEF BuildLine, MadeFrom
<1> HIDE DEF bar
<1>4. PICK filled \in Truncated(bar, done, all), scaled \in Truncated(1000, done, all) :
        MadeFrom(shown, bar, filled, scaled)
  BY <1>3
<1>5. done \in Nat /\ all \in Nat \ {0} /\ done <= all
  BY <1>2 DEF InRange
<1>6. /\ (shown.filled - 1) * all <= shown.bar * done
      /\ shown.bar * done <= (shown.filled + 1) * all
  BY <1>1, <1>4, <1>5, BarIsNear DEF MadeFrom
<1>7. scaled \in Nat /\ scaled <= 1000 /\ scaled * all <= 1000 * done /\ 1000 * done <= (scaled + 1) * all
  <2> DEFINE n == 1000
  <2>1. n \in Nat /\ scaled \in Truncated(n, done, all)
    OBVIOUS
  <2> HIDE DEF n
  <2>2. scaled \in 0..n /\ scaled * all <= n * done /\ n * done <= (scaled + 1) * all
    BY <1>5, <2>1, TruncatedIsNear
  <2>3. scaled \in Nat /\ scaled <= n
    BY <2>1, <2>2
  <2> QED
    BY <2>2, <2>3 DEF n
<1>8. DigitsTell(shown.percent, scaled)
  <2>1. DigitsTell(PercentToString(scaled), scaled)
    BY <1>7, PercentTells
  <2> QED
    BY <1>4, <2>1 DEF MadeFrom
<1> QED
  BY <1>2, <1>6, <1>7, <1>8 DEF DigitsTell, TellsProgress

(* An announced size is an integer, whatever has become of it.             *)
LEMMA SizeIsInteger ==
  ASSUME NEW s \in Sizes
  PROVE  AsInt(s) \in Int
<1>1. s \in Nat /\ IntLimit \in Nat \ {0} /\ 2 * IntLimit \in Nat \ {0}
  BY WidthAssumption
<1>2. s % (2 * IntLimit) \in Nat
  BY <1>1
<1> QED
  BY <1>1, <1>2 DEF AsInt

(* For any terminal, any path and any two numbers: bar and percentage of a *)
(* line for a progress from [0:1] agree with it, to a column and a tenth.  *)
THEOREM LinesTellProgress == StreamSpec => []LineTellsProgress
<1>1. StreamInv => LineTellsProgress
  <2> SUFFICES ASSUME StreamInv, NEW shown \in Lines, InRange(shown)
               PROVE  TellsProgress(shown)
    BY DEF LineTellsProgress
  <2>1. line # NoLine
    BY DEF Lines
  <2>2. line.terminal \in Int
    <3>1. line \in [path : Items, terminal : Terminals]
      BY <2>1 DEF StreamInv, StreamTypeOK
    <3>2. line.terminal \in Terminals
      BY <3>1
    <3>3. Terminals \subseteq Int
      BY NumberAssumption
    <3> QED
      BY <3>2, <3>3, Zenon
  <2>3. /\ total \in Int /\ AsInt(bytes) \in Int /\ processed \in Int /\ written \in Int
    BY SizeIsInteger DEF StreamInv, StreamTypeOK
  <2>4. \/ shown \in BuildLine(line.path, line.terminal, total, AsInt(bytes))
        \/ shown \in BuildLine(line.path, line.terminal, processed, written)
    BY <2>1 DEF Lines
  <2> QED
    BY <2>2, <2>3, <2>4, LineTells
<1> QED
  BY <1>1, StreamInitHolds, StreamStep, PTL DEF StreamSpec

-------------------------------------------------------------------------------
(* A set of numbers that has 0 and with each number the next is all of Nat:*)
(* this is how facts about recursive functions are proved here.            *)
LEMMA LeastNat ==
  ASSUME NEW T, T \subseteq Nat, T # {}
  PROVE  \E x \in T : \A y \in T : x <= y
<1> DEFINE Before == OpToRel(<, Nat)
<1>1. IsWellFoundedOn(Before, Nat)
  BY NatLessThanWellFounded
<1>2. \A a, b \in Nat : <<a, b>> \in Before <=> a < b
  BY DEF OpToRel
<1> HIDE DEF Before
<1>3. PICK x \in T : \A y \in T : ~(<<y, x>> \in Before)
  BY <1>1, WFMin
<1>4. \A y \in T : ~(y < x)
  BY <1>2, <1>3
<1> QED
  BY <1>4

(* Induction up to a number with a set.                                    *)
LEMMA InductionUp ==
  ASSUME NEW n \in Nat, NEW T, 0 \in T, \A k \in 1..n : k - 1 \in T => k \in T
  PROVE  \A k \in 0..n : k \in T
<1> SUFFICES ASSUME NEW w \in 0..n, w \notin T PROVE FALSE
  OBVIOUS
<1> DEFINE Rest == (0..n) \ T
<1>1. Rest \subseteq Nat /\ Rest # {}
  OBVIOUS
<1> HIDE DEF Rest
<1>2. PICK x \in Rest : \A y \in Rest : x <= y
  BY <1>1, LeastNat
<1>3. x \in 0..n /\ x \notin T /\ x # 0
  BY <1>2 DEF Rest
<1>4. x \in 1..n /\ x - 1 \in 0..n /\ ~(x <= x - 1)
  BY <1>3
<1>5. x - 1 \in T
  BY <1>2, <1>4 DEF Rest
<1> QED
  BY <1>3, <1>4, <1>5

(* Induction down from a number with a set.                                *)
LEMMA InductionDown ==
  ASSUME NEW n \in Nat, NEW T, n + 1 \in T, \A k \in 1..n : k + 1 \in T => k \in T
  PROVE  \A k \in 1..(n + 1) : k \in T
<1> DEFINE U == {j \in 0..n : (n + 1) - j \in T}
<1>1. 0 \in U
  OBVIOUS
<1>2. ASSUME NEW j \in 1..n, j - 1 \in U PROVE j \in U
  <2>1. (n + 1) - (j - 1) = ((n + 1) - j) + 1 /\ (n + 1) - j \in 1..n /\ j \in 0..n
    OBVIOUS
  <2>2. (n + 1) - (j - 1) \in T
    BY <1>2
  <2>3. ((n + 1) - j) + 1 \in T
    BY <2>1, <2>2
  <2>4. (n + 1) - j \in T
    BY <2>1, <2>3
  <2> QED
    BY <2>1, <2>4
<1> HIDE DEF U
<1>3. \A j \in 0..n : j \in U
  BY <1>1, <1>2, InductionUp
<1>4. ASSUME NEW k \in 1..(n + 1) PROVE k \in T
  <2>1. (n + 1) - k \in 0..n /\ (n + 1) - ((n + 1) - k) = k
    OBVIOUS
  <2>2. (n + 1) - ((n + 1) - k) \in T
    BY <1>3, <2>1 DEF U
  <2> QED
    BY <2>1, <2>2
<1> QED
  BY <1>4

(* What makes each of n values from another one.                           *)
Steps(n, S) == [1..n -> [S -> S]]

(* The values follow from the first, and from the last.                    *)
Rises(n, base, F, g) == g[0] = base /\ \A k \in 1..n : g[k] = F[k][g[k - 1]]
Falls(n, base, F, g) == g[n + 1] = base /\ \A k \in 1..n : g[k] = F[k][g[k + 1]]

(* A function can be defined by its first value and by what makes each     *)
(* value from the one before.                                              *)
LEMMA RecursionUp ==
  ASSUME NEW n \in Nat, NEW S, NEW base \in S, NEW F \in Steps(n, S)
  PROVE  \E g \in [0..n -> S] : Rises(n, base, F, g)
<1> DEFINE Good(m, g) == g[0] = base /\ \A k \in 1..m : g[k] = F[k][g[k - 1]]
           Some(m) == \E g \in [0..m -> S] : Good(m, g)
           T == {m \in 0..n : Some(m)}
<1>1. 0 \in T
  <2> DEFINE g == [k \in 0..0 |-> base]
  <2>1. g \in [0..0 -> S] /\ g[0] = base /\ 1..0 = {}
    OBVIOUS
  <2> HIDE DEF g
  <2>2. Good(0, g)
    BY <2>1
  <2>3. Some(0)
    BY <2>1, <2>2
  <2> HIDE DEF Some
  <2> QED
    BY <2>3
<1>2. ASSUME NEW m \in 1..n, m - 1 \in T PROVE m \in T
  <2>1. PICK g \in [0..(m - 1) -> S] : Good(m - 1, g)
    BY <1>2
  <2> DEFINE new == F[m][g[m - 1]]
             h == [k \in 0..m |-> IF k <= m - 1 THEN g[k] ELSE new]
  <2>2. new \in S
    <3>1. F[m] \in [S -> S] /\ g[m - 1] \in S
      BY DEF Steps
    <3> QED
      BY <3>1
  <2>3. g[0] = base /\ \A k \in 1..(m - 1) : g[k] = F[k][g[k - 1]]
    BY <2>1
  <2>4. \A k \in 0..(m - 1) : g[k] \in S
    OBVIOUS
  <2> HIDE DEF new
  <2>5. h \in [0..m -> S]
    BY <2>2, <2>4
  <2>6. /\ \A k \in 0..(m - 1) : h[k] = g[k]
        /\ h[m] = new
    OBVIOUS
  <2> HIDE DEF h
  <2>7. h[0] = base
    BY <2>3, <2>6
  <2>8. ASSUME NEW k \in 1..m PROVE h[k] = F[k][h[k - 1]]
    <3>1. k - 1 \in 0..(m - 1) /\ ((k \in 1..(m - 1) /\ k \in 0..(m - 1)) \/ k = m)
      OBVIOUS
    <3>2. h[k - 1] = g[k - 1]
      BY <2>6, <3>1
    <3>3. CASE k \in 1..(m - 1) /\ k \in 0..(m - 1)
      <4>1. h[k] = g[k] /\ g[k] = F[k][g[k - 1]]
        BY <2>3, <2>6, <3>3
      <4> QED
        BY <3>2, <4>1
    <3>4. CASE k = m
      <4>1. h[m] = F[m][g[m - 1]]
        BY <2>6 DEF new
      <4> QED
        BY <3>2, <3>4, <4>1
    <3> QED
      BY <3>1, <3>3, <3>4
  <2>9. Good(m, h)
    BY <2>7, <2>8
  <2>10. Some(m) /\ m \in 0..n
    BY <2>5, <2>9
  <2> HIDE DEF Some
  <2> QED
    BY <2>10
<1> HIDE DEF T
<1>3. \A m \in 0..n : m \in T
  BY <1>1, <1>2, InductionUp
<1>4. n \in T
  BY <1>3
<1> QED
  BY <1>4 DEF T, Rises

(* Or by its last value and what makes each value from the one after.      *)
LEMMA RecursionDown ==
  ASSUME NEW n \in Nat, NEW S, NEW base \in S, NEW F \in Steps(n, S)
  PROVE  \E g \in [1..(n + 1) -> S] : Falls(n, base, F, g)
<1> DEFINE H == [j \in 1..n |-> F[(n + 1) - j]]
<1>1. H \in Steps(n, S) /\ \A j \in 1..n : H[j] = F[(n + 1) - j]
  <2>1. \A j \in 1..n : (n + 1) - j \in 1..n
    OBVIOUS
  <2> QED
    BY <2>1 DEF Steps
<1> HIDE DEF H
<1>2. PICK h \in [0..n -> S] : Rises(n, base, H, h)
  BY <1>1, RecursionUp
<1>3. h[0] = base /\ \A k \in 1..n : h[k] = H[k][h[k - 1]]
  BY <1>2 DEF Rises
<1> DEFINE g == [k \in 1..(n + 1) |-> h[(n + 1) - k]]
<1>4. g \in [1..(n + 1) -> S] /\ \A k \in 1..(n + 1) : g[k] = h[(n + 1) - k]
  <2>1. \A k \in 1..(n + 1) : (n + 1) - k \in 0..n
    OBVIOUS
  <2> QED
    BY <2>1
<1> HIDE DEF g
<1>5. g[n + 1] = base
  <2>1. n + 1 \in 1..(n + 1) /\ (n + 1) - (n + 1) = 0
    OBVIOUS
  <2> QED
    BY <1>3, <1>4, <2>1
<1>6. ASSUME NEW k \in 1..n PROVE g[k] = F[k][g[k + 1]]
  <2> DEFINE j == (n + 1) - k
  <2>1. j \in 1..n /\ (n + 1) - j = k /\ (n + 1) - (k + 1) = j - 1
        /\ k \in 1..(n + 1) /\ k + 1 \in 1..(n + 1)
    OBVIOUS
  <2>2. g[k] = h[j] /\ g[k + 1] = h[j - 1]
    BY <1>4, <2>1
  <2> HIDE DEF j
  <2>3. h[j] = H[j][h[j - 1]] /\ H[j] = F[k]
    BY <1>1, <1>3, <2>1
  <2> QED
    BY <2>2, <2>3
<1> QED
  BY <1>4, <1>5, <1>6 DEF Falls

-------------------------------------------------------------------------------
(* What a code point is encoded by: one to four bytes, of which the first  *)
(* tells how many, and from which ForString gets it back.                  *)
Octets == 0..255

EncodedBy(c, bs) ==
  /\ bs \in Seq(Octets) /\ Len(bs) \in 1..4
  /\ Size(bs[1]) = Len(bs) /\ Decode(bs) = c

(* A code point of one byte.                                               *)
LEMMA OneByte ==
  ASSUME NEW c \in Int, 0 <= c, c < 128
  PROVE  EncodedBy(c, Encode(c))
<1>1. Encode(c) = <<c>>
  BY DEF Encode
<1> DEFINE bs == <<c>>
<1>2. bs \in Seq(Octets) /\ Len(bs) = 1 /\ bs[1] = c
  BY DEF Octets
<1> HIDE DEF bs
<1>3. Size(bs[1]) = 1
  BY <1>2 DEF Size
<1>4. Decode(bs) = c
  BY <1>2 DEF Decode
<1>5. EncodedBy(c, bs)
  BY <1>2, <1>3, <1>4 DEF EncodedBy
<1> QED
  BY <1>1, <1>5 DEF bs

(* A code point of two bytes.                                              *)
LEMMA TwoBytes ==
  ASSUME NEW c \in Int, 128 <= c, c < 2048
  PROVE  EncodedBy(c, Encode(c))
<1> DEFINE x == 192 + (c \div 64)
           y == 128 + ((c \div 1) % 64)
<1>1. Encode(c) = <<x, y>>
  BY DEF Encode
<1>2. x \in 192..223 /\ y \in 128..191 /\ (x % 32) * 64 + (y % 64) = c
  OBVIOUS
<1> HIDE DEF x, y
<1> DEFINE bs == <<x, y>>
<1>3. bs \in Seq(Octets) /\ Len(bs) = 2 /\ bs[1] = x /\ bs[2] = y
  BY <1>2 DEF Octets
<1> HIDE DEF bs
<1>4. Size(bs[1]) = 2
  <2>1. ~(x < 128) /\ x \div 32 = 6
    BY <1>2
  <2> QED
    BY <1>3, <2>1 DEF Size
<1>5. Decode(bs) = c
  BY <1>2, <1>3 DEF Decode
<1>6. EncodedBy(c, bs)
  BY <1>3, <1>4, <1>5 DEF EncodedBy
<1> QED
  BY <1>1, <1>6 DEF bs

(* A code point of three bytes.                                            *)
LEMMA ThreeBytes ==
  ASSUME NEW c \in Int, 2048 <= c, c < 65536
  PROVE  EncodedBy(c, Encode(c))
<1> DEFINE x == 224 + (c \div 4096)
           y == 128 + ((c \div 64) % 64)
           z == 128 + ((c \div 1) % 64)
<1>1. Encode(c) = <<x, y, z>>
  BY DEF Encode
<1>2. x \in 224..239 /\ y \in 128..191 /\ z \in 128..191
  OBVIOUS
<1>3. ((x % 16) * 64 + (y % 64)) * 64 + (z % 64) = c
  OBVIOUS
<1> HIDE DEF x, y, z
<1> DEFINE bs == <<x, y, z>>
<1>4. bs \in Seq(Octets) /\ Len(bs) = 3 /\ bs[1] = x /\ bs[2] = y /\ bs[3] = z
  BY <1>2 DEF Octets
<1> HIDE DEF bs
<1>5. Size(bs[1]) = 3
  <2>1. ~(x < 128) /\ x \div 32 = 7 /\ x \div 16 = 14
    BY <1>2
  <2> QED
    BY <1>4, <2>1 DEF Size
<1>6. Decode(bs) = c
  BY <1>3, <1>4 DEF Decode
<1>7. EncodedBy(c, bs)
  BY <1>4, <1>5, <1>6 DEF EncodedBy
<1> QED
  BY <1>1, <1>7 DEF bs

(* A code point of four bytes.                                             *)
LEMMA FourBytes ==
  ASSUME NEW c \in Int, 65536 <= c, c <= LastCodePoint
  PROVE  EncodedBy(c, Encode(c))
<1> DEFINE x == 240 + (c \div 262144)
           y == 128 + ((c \div 4096) % 64)
           z == 128 + ((c \div 64) % 64)
           w == 128 + ((c \div 1) % 64)
<1>1. Encode(c) = <<x, y, z, w>>
  BY DEF Encode
<1>2. x \in 240..244 /\ y \in 128..191 /\ z \in 128..191 /\ w \in 128..191
  BY DEF LastCodePoint
<1>3. (((x % 8) * 64 + (y % 64)) * 64 + (z % 64)) * 64 + (w % 64) = c
  BY DEF LastCodePoint
<1> HIDE DEF x, y, z, w
<1> DEFINE bs == <<x, y, z, w>>
<1>4. bs \in Seq(Octets) /\ Len(bs) = 4 /\ bs[1] = x /\ bs[2] = y /\ bs[3] = z /\ bs[4] = w
  BY <1>2 DEF Octets
<1> HIDE DEF bs
<1>5. Size(bs[1]) = 4
  <2>1. ~(x < 128) /\ x \div 32 = 7 /\ x \div 16 = 15 /\ x \div 8 = 30
    BY <1>2
  <2> QED
    BY <1>4, <2>1 DEF Size
<1>6. Decode(bs) = c
  BY <1>3, <1>4 DEF Decode
<1>7. EncodedBy(c, bs)
  BY <1>4, <1>5, <1>6 DEF EncodedBy
<1> QED
  BY <1>1, <1>7 DEF bs

(* Any code point.                                                         *)
LEMMA Encoded ==
  ASSUME NEW c \in CodePoints
  PROVE  EncodedBy(c, Encode(c))
<1>1. /\ c \in Int /\ 0 <= c /\ c <= LastCodePoint
      /\ c < 128 \/ (128 <= c /\ c < 2048) \/ (2048 <= c /\ c < 65536) \/ 65536 <= c
  <2>1. LastCodePoint \in Int
    BY DEF LastCodePoint
  <2> QED
    BY <2>1 DEF CodePoints
<1> QED
  BY <1>1, OneByte, TwoBytes, ThreeBytes, FourBytes

(* Sequences of bytes.                                                     *)
ByteStrings == Seq(Octets)

(* What the bytes of a text are put together from.                         *)
LEMMA BytesMean ==
  ASSUME NEW text \in Seq(CodePoints)
  PROVE  /\ BytesSoFar(text)[0] = << >>
         /\ \A k \in 1..Len(text) : BytesSoFar(text)[k] = BytesSoFar(text)[k - 1] \o Encode(text[k])
         /\ \A k \in 0..Len(text) : BytesSoFar(text)[k] \in ByteStrings
<1> DEFINE n == Len(text)
           Next1(g, k) == IF k = 0 THEN << >> ELSE g[k - 1] \o Encode(text[k])
           F == [k \in 1..n |-> [x \in ByteStrings |-> x \o Encode(text[k])]]
<1>1. n \in Nat
  OBVIOUS
<1>2. \A k \in 1..n : Encode(text[k]) \in ByteStrings
  <2>1. \A k \in 1..n : text[k] \in CodePoints
    OBVIOUS
  <2> QED
    BY <2>1, Encoded DEF EncodedBy, ByteStrings
<1>3. \A k \in 1..n : \A x \in ByteStrings : x \o Encode(text[k]) \in ByteStrings
  BY <1>2, ConcatProperties DEF ByteStrings
<1>4. F \in Steps(n, ByteStrings)
  <2> HIDE DEF n
  <2> QED
    BY <1>3 DEF Steps
<1>5. \A k \in 1..n : \A x \in ByteStrings : F[k][x] = x \o Encode(text[k])
  OBVIOUS
<1>6. << >> \in ByteStrings
  BY DEF ByteStrings
<1> HIDE DEF n, F
<1>7. PICK g \in [0..n -> ByteStrings] : Rises(n, << >>, F, g)
  BY <1>1, <1>4, <1>6, RecursionUp
<1>8. g[0] = << >> /\ \A k \in 1..n : g[k] = F[k][g[k - 1]]
  BY <1>7 DEF Rises
<1>9. \A k \in 1..n : g[k] = g[k - 1] \o Encode(text[k])
  <2>1. ASSUME NEW k \in 1..n PROVE g[k] = g[k - 1] \o Encode(text[k])
    <3>1. k - 1 \in 0..n
      BY <1>1
    <3>2. g[k - 1] \in ByteStrings
      BY <3>1
    <3> QED
      BY <1>5, <1>8, <3>2
  <2> QED
    BY <2>1
<1>10. g = [k \in 0..n |-> Next1(g, k)]
  <2>1. \A k \in 0..n : g[k] = Next1(g, k)
    <3>1. \A k \in 0..n : k # 0 => k \in 1..n
      BY <1>1
    <3> QED
      BY <1>8, <1>9, <3>1
  <2>2. g = [k \in 0..n |-> g[k]]
    OBVIOUS
  <2> HIDE DEF Next1
  <2> QED
    BY <2>1, <2>2
<1> DEFINE f == CHOOSE h : h = [k \in 0..n |-> Next1(h, k)]
<1>11. f = [k \in 0..n |-> Next1(f, k)]
  BY <1>10
<1>12. BytesSoFar(text) = f
  BY DEF BytesSoFar, n
<1> HIDE DEF f
<1>13. f[0] = << >> /\ \A k \in 1..n : f[k] = f[k - 1] \o Encode(text[k])
  <2>1. 0 \in 0..n /\ \A k \in 1..n : k \in 0..n /\ k # 0
    BY <1>1
  <2> QED
    BY <1>11, <2>1
<1>14. \A k \in 0..n : f[k] \in ByteStrings
  <2> DEFINE T == {k \in 0..n : f[k] \in ByteStrings}
  <2>1. 0 \in T
    BY <1>1, <1>6, <1>13
  <2>2. \A k \in 1..n : k - 1 \in T => k \in T
    <3>1. ASSUME NEW k \in 1..n, k - 1 \in T PROVE k \in T
      <4>1. f[k - 1] \in ByteStrings /\ k \in 0..n
        BY <3>1
      <4>2. f[k] \in ByteStrings
        BY <1>3, <1>13, <4>1
      <4> QED
        BY <4>1, <4>2
    <3> QED
      BY <3>1
  <2> HIDE DEF T
  <2>3. \A k \in 0..n : k \in T
    BY <1>1, <2>1, <2>2, InductionUp
  <2> QED
    BY <2>3 DEF T
<1> QED
  BY <1>12, <1>13, <1>14 DEF n

(* What two byte strings make together.                                    *)
LEMMA ConcatBytes ==
  ASSUME NEW x \in ByteStrings, NEW y \in ByteStrings
  PROVE  /\ x \o y \in ByteStrings /\ Len(x \o y) = Len(x) + Len(y)
         /\ Len(x) \in Nat /\ Len(y) \in Nat
         /\ \A k \in 1..Len(x) : (x \o y)[k] = x[k]
         /\ \A k \in 1..Len(y) : (x \o y)[Len(x) + k] = y[k]
<1> DEFINE p == x \o y
<1>1. Len(x) \in Nat /\ Len(y) \in Nat
  BY DEF ByteStrings
<1>2. /\ p \in ByteStrings /\ Len(p) = Len(x) + Len(y)
      /\ \A k \in 1..(Len(x) + Len(y)) : p[k] = IF k <= Len(x) THEN x[k] ELSE y[k - Len(x)]
  BY <1>1, ConcatProperties DEF ByteStrings
<1> HIDE DEF p
<1>3. \A k \in 1..Len(x) : p[k] = x[k]
  BY <1>1, <1>2
<1>4. ASSUME NEW k \in 1..Len(y) PROVE p[Len(x) + k] = y[k]
  <2>1. Len(x) + k \in 1..(Len(x) + Len(y)) /\ ~(Len(x) + k <= Len(x)) /\ (Len(x) + k) - Len(x) = k
    BY <1>1
  <2> QED
    BY <1>2, <2>1
<1>5. /\ p \in ByteStrings /\ Len(p) = Len(x) + Len(y)
      /\ \A k \in 1..Len(x) : p[k] = x[k]
      /\ \A k \in 1..Len(y) : p[Len(x) + k] = y[k]
  BY <1>2, <1>3, <1>4
<1> QED
  BY <1>1, <1>5 DEF p

(* Where the k-th character of a text begins in its bytes.                 *)
Offset(text, k) == Len(BytesSoFar(text)[k - 1])

(* The bytes of the first characters are the first bytes.                  *)
LEMMA BytesGoOn ==
  ASSUME NEW text \in Seq(CodePoints)
  PROVE  \A k \in 0..Len(text) :
           /\ Len(BytesSoFar(text)[k]) <= Len(Bytes(text))
           /\ \A j \in 1..Len(BytesSoFar(text)[k]) : Bytes(text)[j] = BytesSoFar(text)[k][j]
<1> DEFINE n == Len(text)
           B == BytesSoFar(text)
           str == Bytes(text)
           Good(k) == Len(B[k]) <= Len(str) /\ \A j \in 1..Len(B[k]) : str[j] = B[k][j]
           T == {m \in 1..(n + 1) : Good(m - 1)}
<1>1. n \in Nat
  OBVIOUS
<1>2. /\ \A k \in 1..n : B[k] = B[k - 1] \o Encode(text[k])
      /\ \A k \in 0..n : B[k] \in ByteStrings
  BY BytesMean
<1>3. \A k \in 1..n : Encode(text[k]) \in ByteStrings
  <2>1. \A k \in 1..n : text[k] \in CodePoints
    OBVIOUS
  <2> QED
    BY <2>1, Encoded DEF EncodedBy, ByteStrings
<1>4. str = B[n] /\ Len(str) \in Nat
  <2>1. str = B[n]
    BY DEF Bytes
  <2>2. n \in 0..n
    BY <1>1
  <2>3. B[n] \in ByteStrings
    BY <1>2, <2>2
  <2> QED
    BY <2>1, <2>3 DEF ByteStrings
<1> HIDE DEF n, B, str
<1>5. n + 1 \in T
  <2>1. n + 1 \in 1..(n + 1) /\ (n + 1) - 1 = n
    BY <1>1
  <2> QED
    BY <1>4, <2>1
<1>6. ASSUME NEW k \in 1..n, k + 1 \in T PROVE k \in T
  <2>1. (k + 1) - 1 = k /\ k \in 1..(n + 1) /\ k - 1 \in 0..n
    BY <1>1
  <2>2. Good(k)
    BY <1>6, <2>1
  <2> DEFINE x == B[k - 1]
             y == Encode(text[k])
  <2>3. B[k] = x \o y /\ x \in ByteStrings /\ y \in ByteStrings
    BY <1>2, <1>3, <2>1
  <2>4. Len(str) >= Len(B[k]) /\ \A j \in 1..Len(B[k]) : str[j] = B[k][j]
    BY <2>2
  <2> HIDE DEF x, y
  <2>5. /\ Len(B[k]) = Len(x) + Len(y) /\ Len(x) \in Nat /\ Len(y) \in Nat
        /\ \A j \in 1..Len(x) : B[k][j] = x[j]
    BY <2>3, ConcatBytes
  <2>6. Len(x) <= Len(str) /\ \A j \in 1..Len(x) : str[j] = x[j]
    <3>1. Len(x) <= Len(B[k]) /\ Len(x) <= Len(str)
      BY <1>4, <2>4, <2>5
    <3>2. \A j \in 1..Len(x) : j \in 1..Len(B[k])
      BY <2>5
    <3> QED
      BY <2>4, <2>5, <3>1, <3>2
  <2>7. Good(k - 1)
    BY <2>6 DEF x
  <2> QED
    BY <2>1, <2>7
<1> HIDE DEF T
<1>7. \A m \in 1..(n + 1) : m \in T
  BY <1>1, <1>5, <1>6, InductionDown
<1>8. ASSUME NEW k \in 0..n PROVE Good(k)
  <2>1. k + 1 \in 1..(n + 1) /\ (k + 1) - 1 = k
    BY <1>1
  <2>2. k + 1 \in T
    BY <1>7, <2>1
  <2> QED
    BY <2>1, <2>2 DEF T
<1> QED
  BY <1>8 DEF n, B, str

(* Where the characters are in the bytes.                                  *)
LEMMA OffsetsMean ==
  ASSUME NEW text \in Seq(CodePoints)
  PROVE  /\ Offset(text, 1) = 0 /\ Offset(text, Len(text) + 1) = Len(Bytes(text))
         /\ Bytes(text) \in ByteStrings
         /\ \A k \in 1..(Len(text) + 1) : Offset(text, k) \in Nat
         /\ \A k \in 1..Len(text) :
              /\ Offset(text, k + 1) = Offset(text, k) + Len(Encode(text[k]))
              /\ Offset(text, k) + Len(Encode(text[k])) <= Len(Bytes(text))
              /\ \A j \in 1..Len(Encode(text[k])) :
                   Bytes(text)[Offset(text, k) + j] = Encode(text[k])[j]
<1> DEFINE n == Len(text)
           B == BytesSoFar(text)
           str == Bytes(text)
<1>1. n \in Nat
  OBVIOUS
<1>2. /\ B[0] = << >>
      /\ \A k \in 1..n : B[k] = B[k - 1] \o Encode(text[k])
      /\ \A k \in 0..n : B[k] \in ByteStrings
  BY BytesMean
<1>3. \A k \in 1..n : Encode(text[k]) \in ByteStrings
  <2>1. \A k \in 1..n : text[k] \in CodePoints
    OBVIOUS
  <2> QED
    BY <2>1, Encoded DEF EncodedBy, ByteStrings
<1>4. \A k \in 0..n : Len(B[k]) <= Len(str) /\ \A j \in 1..Len(B[k]) : str[j] = B[k][j]
  BY BytesGoOn
<1>5. str = B[n]
  BY DEF Bytes
<1>6. \A k : Offset(text, k) = Len(B[k - 1])
  BY DEF Offset
<1> HIDE DEF n, B, str
<1>7. str \in ByteStrings
  <2>1. n \in 0..n
    BY <1>1
  <2> QED
    BY <1>2, <1>5, <2>1
<1>8. Offset(text, 1) = 0 /\ Offset(text, n + 1) = Len(str)
  <2>1. 1 - 1 = 0 /\ (n + 1) - 1 = n
    BY <1>1
  <2>2. Len(B[1 - 1]) = 0
    BY <1>2, <2>1, EmptySeq
  <2> QED
    BY <1>5, <1>6, <2>1, <2>2
<1>9. \A k \in 1..(n + 1) : Offset(text, k) \in Nat
  <2>1. \A k \in 1..(n + 1) : k - 1 \in 0..n
    BY <1>1
  <2>2. \A k \in 0..n : Len(B[k]) \in Nat
    BY <1>2 DEF ByteStrings
  <2> QED
    BY <1>6, <2>1, <2>2
<1>10. ASSUME NEW k \in 1..n
       PROVE  /\ Offset(text, k + 1) = Offset(text, k) + Len(Encode(text[k]))
              /\ Offset(text, k) + Len(Encode(text[k])) <= Len(str)
              /\ \A j \in 1..Len(Encode(text[k])) : str[Offset(text, k) + j] = Encode(text[k])[j]
  <2> DEFINE x == B[k - 1]
             y == Encode(text[k])
             z == B[k]
  <2>1. k \in 0..n /\ k - 1 \in 0..n /\ (k + 1) - 1 = k
    BY <1>1
  <2>2. z = x \o y /\ x \in ByteStrings /\ y \in ByteStrings
    BY <1>2, <1>3, <2>1
  <2>3. Len(z) <= Len(str) /\ \A j \in 1..Len(z) : str[j] = z[j]
    BY <1>4, <2>1
  <2>4. Offset(text, k) = Len(x) /\ Offset(text, k + 1) = Len(z)
    BY <1>6, <2>1
  <2> HIDE DEF x, y, z
  <2>5. /\ Len(z) = Len(x) + Len(y) /\ Len(x) \in Nat /\ Len(y) \in Nat
        /\ \A j \in 1..Len(y) : z[Len(x) + j] = y[j]
    BY <2>2, ConcatBytes
  <2>6. \A j \in 1..Len(y) : str[Len(x) + j] = y[j]
    <3>1. \A j \in 1..Len(y) : Len(x) + j \in 1..Len(z)
      BY <2>5
    <3> QED
      BY <2>3, <2>5, <3>1
  <2>7. Len(x) + Len(y) <= Len(str)
    BY <2>3, <2>5
  <2> QED
    BY <2>4, <2>5, <2>6, <2>7 DEF y
<1> QED
  BY <1>7, <1>8, <1>9, <1>10 DEF n, str

(* What is known of a character.                                           *)
Infos == [index : Nat, width : 0..2]

(* What ForString should return.                                           *)
LEMMA DescribedMeans ==
  ASSUME NEW text \in Seq(CodePoints)
  PROVE  /\ Described(text).characters \in Seq(Infos)
         /\ Len(Described(text).characters) = Len(text)
         /\ Described(text) = [returns |-> TRUE, characters |-> Described(text).characters]
         /\ \A k \in 1..Len(text) :
              /\ Described(text).characters[k]
                   = [index |-> Offset(text, k), width |-> Columns(text[k])]
              /\ Described(text).characters[k].index = Offset(text, k)
              /\ Described(text).characters[k].width \in 0..2
<1> DEFINE n == Len(text)
           D == [k \in 1..n |-> [index |-> Offset(text, k), width |-> Columns(text[k])]]
<1>1. n \in Nat
  OBVIOUS
<1>2. Described(text) = [returns |-> TRUE, characters |-> D]
  BY DEF Described, Offset
<1>3. ASSUME NEW k \in 1..n PROVE Offset(text, k) \in Nat /\ Columns(text[k]) \in 0..2
  <2>1. k \in 1..(n + 1)
    BY <1>1
  <2>2. Offset(text, k) \in Nat
    BY <2>1, OffsetsMean
  <2>3. text[k] \in CodePoints
    OBVIOUS
  <2>4. wcwidth(text[k]) \in {-1, 0, 1, 2}
    BY <2>3, ColumnsAssumption
  <2> QED
    BY <2>2, <2>4 DEF Columns
<1> HIDE DEF n
<1>4. \A k \in 1..n : /\ D[k] = [index |-> Offset(text, k), width |-> Columns(text[k])]
                      /\ D[k] \in Infos /\ D[k].index = Offset(text, k) /\ D[k].width \in 0..2
  BY <1>3 DEF Infos
<1>5. D \in Seq(Infos) /\ Len(D) = n
  <2>1. D \in [1..n -> Infos]
    BY <1>3 DEF Infos
  <2> HIDE DEF D
  <2> QED
    BY <1>1, <2>1
<1> HIDE DEF D
<1>6. Described(text).characters = D
  BY <1>2
<1> QED
  BY <1>2, <1>4, <1>5, <1>6 DEF n

(* Where a character begins ForString finds it, and all of it.             *)
LEMMA CharacterFound ==
  ASSUME NEW text \in Seq(CodePoints), NEW k \in 1..Len(text)
  PROVE  /\ Size(Bytes(text)[Offset(text, k) + 1]) = Len(Encode(text[k]))
         /\ Len(Encode(text[k])) \in 1..(Len(Bytes(text)) - Offset(text, k))
         /\ CharacterAt(Bytes(text), Offset(text, k)) = Described(text).characters[k]
<1> DEFINE str == Bytes(text)
           off == Offset(text, k)
           e == Encode(text[k])
<1>1. text[k] \in CodePoints /\ k \in 1..(Len(text) + 1)
  OBVIOUS
<1>2. /\ off \in Nat /\ str \in ByteStrings /\ off + Len(e) <= Len(str)
      /\ \A j \in 1..Len(e) : str[off + j] = e[j]
  BY <1>1, OffsetsMean
<1>3. EncodedBy(text[k], e)
  BY <1>1, Encoded
<1>4. Described(text).characters[k] = [index |-> off, width |-> Columns(text[k])]
  BY DescribedMeans
<1>5. CharacterAt(str, off)
        = [index |-> off, width |-> Columns(Decode(SubSeq(str, off + 1, off + Size(str[off + 1]))))]
  BY DEF CharacterAt
<1> HIDE DEF str, off, e
<1>6. e \in ByteStrings /\ Len(e) \in 1..4 /\ Size(e[1]) = Len(e) /\ Decode(e) = text[k]
  BY <1>3 DEF EncodedBy, ByteStrings
<1>7. Len(str) \in Nat
  BY <1>2 DEF ByteStrings
<1>8. Size(str[off + 1]) = Len(e)
  <2>1. 1 \in 1..Len(e)
    BY <1>6
  <2>2. str[off + 1] = e[1]
    BY <1>2, <2>1
  <2> QED
    BY <1>6, <2>2
<1>9. Len(e) \in 1..(Len(str) - off)
  BY <1>2, <1>6, <1>7
<1>10. SubSeq(str, off + 1, off + Len(e)) = e
  <2> DEFINE from == off + 1
             to == off + Len(e)
             part == SubSeq(str, from, to)
  <2>1. /\ from \in Int /\ to \in Int /\ to - from + 1 = Len(e) /\ from <= to
        /\ \A j \in from..to : j \in 1..Len(str)
        /\ \A j \in 1..Len(e) : from + j - 1 = off + j
    BY <1>2, <1>6, <1>7
  <2>2. \A j \in from..to : str[j] \in Octets
    <3>1. \A j \in 1..Len(str) : str[j] \in Octets
      BY <1>2, ElementOfSeq DEF ByteStrings
    <3> QED
      BY <2>1, <3>1
  <2> HIDE DEF from, to
  <2>3. /\ part \in Seq(Octets) /\ Len(part) = Len(e)
        /\ \A j \in 1..Len(e) : part[j] = str[from + j - 1]
    <3>1. /\ part \in Seq(Octets)
          /\ Len(part) = IF from <= to THEN to - from + 1 ELSE 0
          /\ \A j \in 1..(to - from + 1) : part[j] = str[from + j - 1]
      BY <2>1, <2>2, SubSeqProperties
    <3> QED
      BY <2>1, <3>1
  <2> HIDE DEF part
  <2>4. \A j \in 1..Len(part) : part[j] = e[j]
    BY <1>2, <2>1, <2>3
  <2>5. part = e
    BY <1>6, <2>3, <2>4, SeqEqual DEF ByteStrings
  <2> QED
    BY <2>5 DEF part, from, to
<1>11. CharacterAt(str, off) = [index |-> off, width |-> Columns(text[k])]
  BY <1>5, <1>6, <1>8, <1>10
<1> QED
  BY <1>4, <1>8, <1>9, <1>11 DEF str, off, e

(* One turn of the loop of ForString, if g gives what the rest returns.    *)
ForStep(str, g, it) ==
  IF it = Len(str) THEN [returns |-> TRUE, characters |-> << >>]
  ELSE IF Size(str[it + 1]) \in 1..(Len(str) - it)
  THEN [g[it + Size(str[it + 1])] EXCEPT !.characters = <<CharacterAt(str, it)>> \o @]
  ELSE [returns |-> FALSE, characters |-> << >>]

(* It looks only at what is behind it.                                     *)
LEMMA ForStepLooks ==
  ASSUME NEW str, NEW l \in Nat, l = Len(str), NEW g, NEW h, NEW it \in 0..l,
         \A at \in (it + 1)..l : g[at] = h[at]
  PROVE  ForStep(str, g, it) = ForStep(str, h, it)
<1> DEFINE s == Size(str[it + 1])
<1>1. s \in 1..(l - it) => it + s \in (it + 1)..l
  OBVIOUS
<1>2. s \in 1..(l - it) => g[it + s] = h[it + s]
  BY <1>1
<1> HIDE DEF s
<1>3. CASE s \in 1..(l - it) /\ it # l
  <2>1. ForStep(str, g, it) = [g[it + s] EXCEPT !.characters = <<CharacterAt(str, it)>> \o @]
    BY <1>3 DEF ForStep, s
  <2>2. ForStep(str, h, it) = [h[it + s] EXCEPT !.characters = <<CharacterAt(str, it)>> \o @]
    BY <1>3 DEF ForStep, s
  <2> QED
    BY <1>2, <1>3, <2>1, <2>2, Zenon
<1>4. CASE ~(s \in 1..(l - it) /\ it # l)
  BY <1>4 DEF ForStep, s
<1> QED
  BY <1>3, <1>4

(* There is a function that its definition describes.                      *)
LEMMA ForStringExists ==
  ASSUME NEW str, NEW l \in Nat, l = Len(str)
  PROVE  \E g : g = [it \in 0..l |-> ForStep(str, g, it)]
<1> DEFINE From(m) == \E g : g = [it \in (l - m)..l |-> ForStep(str, g, it)]
           T == {m \in 0..l : From(m)}
<1>1. 0 \in T
  <2> DEFINE g == [it \in (l - 0)..l |-> [returns |-> TRUE, characters |-> << >>]]
  <2>1. \A it \in (l - 0)..l : ForStep(str, g, it) = [returns |-> TRUE, characters |-> << >>]
    BY DEF ForStep
  <2>2. g = [it \in (l - 0)..l |-> ForStep(str, g, it)]
    BY <2>1
  <2>3. \E f : f = [it \in (l - 0)..l |-> ForStep(str, f, it)]
    BY <2>2
  <2>4. From(0) /\ 0 \in 0..l
    BY <2>3
  <2> HIDE DEF From
  <2> QED
    BY <2>4
<1>2. ASSUME NEW m \in 1..l, m - 1 \in T PROVE m \in T
  <2> DEFINE d == l - m
  <2>1. d \in 0..l /\ l - (m - 1) = d + 1 /\ m \in 0..l
    OBVIOUS
  <2>2. PICK g : g = [it \in (l - (m - 1))..l |-> ForStep(str, g, it)]
    BY <1>2
  <2>3. \A it \in (d + 1)..l : g[it] = ForStep(str, g, it)
    BY <2>1, <2>2
  <2> DEFINE new == ForStep(str, g, d)
             h == [it \in d..l |-> IF it = d THEN new ELSE g[it]]
  <2> HIDE DEF d, new
  <2>4. h[d] = new /\ \A it \in (d + 1)..l : h[it] = g[it]
    BY <2>1
  <2>5. ASSUME NEW it \in d..l PROVE h[it] = ForStep(str, h, it)
    <3>1. it \in 0..l /\ (it # d => it \in (d + 1)..l) /\ \A at \in (it + 1)..l : at \in (d + 1)..l
      BY <2>1
    <3> HIDE DEF h
    <3>2. \A at \in (it + 1)..l : g[at] = h[at]
      BY <2>4, <3>1
    <3>3. ForStep(str, g, it) = ForStep(str, h, it)
      BY <3>1, <3>2, ForStepLooks
    <3>4. h[it] = ForStep(str, g, it)
      BY <2>3, <2>4, <3>1 DEF new
    <3> QED
      BY <3>3, <3>4
  <2>6. h = [it \in d..l |-> ForStep(str, h, it)]
    <3>1. h = [it \in d..l |-> h[it]]
      OBVIOUS
    <3> HIDE DEF h
    <3> QED
      BY <2>5, <3>1
  <2>7. \E f : f = [it \in d..l |-> ForStep(str, f, it)]
    BY <2>6
  <2>8. From(m)
    BY <2>7 DEF d
  <2> HIDE DEF From
  <2> QED
    BY <2>1, <2>8
<1> HIDE DEF T
<1>3. \A m \in 0..l : m \in T
  BY <1>1, <1>2, InductionUp
<1>4. l \in T
  BY <1>3
<1>5. l - l = 0
  OBVIOUS
<1> QED
  BY <1>4, <1>5 DEF T

(* What ForString returns is what its loop has from the first byte on.     *)
LEMMA ForStringMeans ==
  ASSUME NEW str \in ByteStrings
  PROVE  \E f : /\ ForString(str) = f[0]
                /\ \A it \in 0..Len(str) : f[it] = ForStep(str, f, it)
<1> DEFINE l == Len(str)
           f == CHOOSE h : h = [it \in 0..l |-> ForStep(str, h, it)]
<1>1. l \in Nat
  BY DEF ByteStrings
<1>2. \E g : g = [it \in 0..l |-> ForStep(str, g, it)]
  BY <1>1, ForStringExists
<1>3. f = [it \in 0..l |-> ForStep(str, f, it)]
  BY <1>2
<1>4. ForString(str) = f[0]
  BY DEF ForString, ForStep
<1> HIDE DEF f
<1>5. \A it \in 0..l : f[it] = ForStep(str, f, it)
  BY <1>3
<1> QED
  BY <1>4, <1>5

(* ForString returns, for any text, with its characters: where each one    *)
(* begins in the bytes and how wide it is.                                 *)
THEOREM ForStringDescribes ==
  \A text \in Seq(CodePoints) : ForString(Bytes(text)) = Described(text)
<1> SUFFICES ASSUME NEW text \in Seq(CodePoints)
             PROVE  ForString(Bytes(text)) = Described(text)
  OBVIOUS
<1> DEFINE n == Len(text)
           str == Bytes(text)
           D == Described(text).characters
           Of(characters) == [returns |-> TRUE, characters |-> characters]
           Rest(k) == SubSeq(D, k, n)
<1>1. n \in Nat
  OBVIOUS
<1>2. /\ D \in Seq(Infos) /\ Len(D) = n
      /\ Described(text) = Of(D)
  BY DescribedMeans
<1>3. /\ Offset(text, 1) = 0 /\ Offset(text, n + 1) = Len(str) /\ str \in ByteStrings
      /\ \A k \in 1..(n + 1) : Offset(text, k) \in Nat
      /\ \A k \in 1..n : Offset(text, k + 1) = Offset(text, k) + Len(Encode(text[k]))
  BY OffsetsMean
<1>4. \A k \in 1..n :
        /\ Size(str[Offset(text, k) + 1]) = Len(Encode(text[k]))
        /\ Len(Encode(text[k])) \in 1..(Len(str) - Offset(text, k))
        /\ CharacterAt(str, Offset(text, k)) = D[k]
  BY CharacterFound
<1>5. PICK f : /\ ForString(str) = f[0]
               /\ \A it \in 0..Len(str) : f[it] = ForStep(str, f, it)
  BY <1>3, ForStringMeans
<1>6. Len(str) \in Nat
  BY <1>3 DEF ByteStrings
<1> HIDE DEF n, str, D
<1> DEFINE T == {k \in 1..(n + 1) : f[Offset(text, k)] = Of(Rest(k))}
<1>7. n + 1 \in T
  <2>1. Rest(n + 1) = << >>
    BY <1>1, SubSeqEmpty
  <2>2. Len(str) \in 0..Len(str)
    BY <1>6
  <2>3. f[Len(str)] = Of(<< >>)
    BY <1>5, <2>2 DEF ForStep
  <2>4. n + 1 \in 1..(n + 1)
    BY <1>1
  <2> QED
    BY <1>3, <2>1, <2>3, <2>4
<1>8. ASSUME NEW k \in 1..n, k + 1 \in T PROVE k \in T
  <2> DEFINE off == Offset(text, k)
             s == Len(Encode(text[k]))
             rest == Rest(k + 1)
             c == CharacterAt(str, off)
  <2>1. k \in 1..(n + 1) /\ k + 1 \in 1..(n + 1)
    BY <1>1
  <2>2. off \in Nat /\ Size(str[off + 1]) = s /\ s \in 1..(Len(str) - off) /\ c = D[k]
    BY <1>3, <1>4, <2>1
  <2>3. Offset(text, k + 1) = off + s
    BY <1>3
  <2>4. f[off + s] = Of(rest)
    BY <1>8, <2>3
  <2> HIDE DEF off, s, rest, c
  <2>5. off \in 0..Len(str) /\ off # Len(str)
    BY <1>6, <2>2
  <2>6. f[off] = [f[off + s] EXCEPT !.characters = <<c>> \o @]
    <3>1. f[off] = ForStep(str, f, off)
      BY <1>5, <2>5
    <3>2. ForStep(str, f, off) = [f[off + s] EXCEPT !.characters = <<c>> \o @]
      BY <2>2, <2>5 DEF ForStep, c
    <3> QED
      BY <3>1, <3>2
  <2>7. f[off] = Of(<<c>> \o rest)
    <3> DEFINE r == Of(rest)
               x == <<c>> \o rest
    <3>1. r.characters = rest
      OBVIOUS
    <3>2. f[off] = [r EXCEPT !.characters = <<c>> \o r.characters]
      BY <2>4, <2>6
    <3>3. f[off] = [r EXCEPT !.characters = x]
      BY <3>1, <3>2
    <3> HIDE DEF x
    <3>4. [r EXCEPT !.characters = x] = Of(x)
      <4>1. \A a, b, y : [[returns |-> b, characters |-> a] EXCEPT !.characters = y]
                           = [returns |-> b, characters |-> y]
        OBVIOUS
      <4> QED
        BY <4>1
    <3> QED
      BY <3>3, <3>4 DEF x
  <2>8. Rest(k) = <<c>> \o rest
    <3>1. k \in 1..Len(D) /\ n \in k..Len(D)
      BY <1>1, <1>2
    <3>2. SubSeq(D, k, n) = <<D[k]>> \o SubSeq(D, k + 1, n)
      BY <1>2, <3>1, SubSeqRecursiveFirst
    <3> QED
      BY <2>2, <3>2 DEF rest
  <2>9. f[off] = Of(Rest(k))
    BY <2>7, <2>8
  <2> QED
    BY <2>1, <2>9 DEF off
<1> HIDE DEF T
<1>9. \A k \in 1..(n + 1) : k \in T
  BY <1>1, <1>7, <1>8, InductionDown
<1>10. f[Offset(text, 1)] = Of(Rest(1))
  <2>1. 1 \in T
    BY <1>1, <1>9
  <2> QED
    BY <2>1 DEF T
<1>11. Rest(1) = D
  BY <1>2, SubSeqFull
<1> QED
  BY <1>2, <1>3, <1>5, <1>10, <1>11 DEF str

-------------------------------------------------------------------------------
(* The columns of the characters from each one on.                         *)
LEMMA WidthFromMeans ==
  ASSUME NEW D \in Seq(Infos)
  PROVE  /\ WidthFrom(D)[Len(D) + 1] = 0
         /\ \A k \in 1..Len(D) : WidthFrom(D)[k] = D[k].width + WidthFrom(D)[k + 1]
         /\ \A k \in 1..(Len(D) + 1) : WidthFrom(D)[k] \in Nat
<1> DEFINE n == Len(D)
           w(k) == D[k].width
           Next1(g, k) == IF k > n THEN 0 ELSE D[k].width + g[k + 1]
           F == [k \in 1..n |-> [x \in Nat |-> w(k) + x]]
<1>1. n \in Nat
  OBVIOUS
<1>2. \A k \in 1..n : w(k) \in Nat
  <2>1. \A k \in 1..n : D[k] \in Infos
    OBVIOUS
  <2> QED
    BY <2>1 DEF Infos
<1> HIDE DEF n, w
<1>3. F \in Steps(n, Nat)
  BY <1>2 DEF Steps
<1>4. \A k \in 1..n : \A x \in Nat : F[k][x] = w(k) + x
  OBVIOUS
<1> HIDE DEF F
<1>5. PICK g \in [1..(n + 1) -> Nat] : Falls(n, 0, F, g)
  BY <1>1, <1>3, RecursionDown
<1>6. g[n + 1] = 0 /\ \A k \in 1..n : g[k] = F[k][g[k + 1]]
  BY <1>5 DEF Falls
<1>7. g = [k \in 1..(n + 1) |-> Next1(g, k)]
  <2>1. ASSUME NEW k \in 1..(n + 1) PROVE g[k] = Next1(g, k)
    <3>1. CASE k > n
      <4>1. k = n + 1
        BY <1>1, <3>1
      <4> QED
        BY <1>6, <3>1, <4>1
    <3>2. CASE ~(k > n)
      <4>1. k \in 1..n /\ k + 1 \in 1..(n + 1)
        BY <1>1, <3>2
      <4>2. g[k + 1] \in Nat
        BY <4>1
      <4>3. g[k] = w(k) + g[k + 1]
        BY <1>4, <1>6, <4>1, <4>2
      <4> QED
        BY <3>2, <4>3 DEF w
    <3> QED
      BY <3>1, <3>2
  <2>2. g = [k \in 1..(n + 1) |-> g[k]]
    OBVIOUS
  <2> HIDE DEF Next1
  <2> QED
    BY <2>1, <2>2
<1> DEFINE f == CHOOSE h : h = [k \in 1..(n + 1) |-> Next1(h, k)]
<1>8. f = [k \in 1..(n + 1) |-> Next1(f, k)]
  BY <1>7
<1>9. WidthFrom(D) = f
  BY DEF WidthFrom, n
<1> HIDE DEF f
<1>10. f[n + 1] = 0 /\ \A k \in 1..n : f[k] = w(k) + f[k + 1]
  <2>1. n + 1 \in 1..(n + 1) /\ n + 1 > n /\ \A k \in 1..n : k \in 1..(n + 1) /\ ~(k > n)
    BY <1>1
  <2> QED
    BY <1>8, <2>1 DEF w
<1>11. \A k \in 1..(n + 1) : f[k] \in Nat
  <2> DEFINE T == {k \in 1..(n + 1) : f[k] \in Nat}
  <2>1. n + 1 \in T
    BY <1>1, <1>10
  <2>2. ASSUME NEW k \in 1..n, k + 1 \in T PROVE k \in T
    <3>1. k \in 1..(n + 1) /\ f[k + 1] \in Nat
      BY <1>1, <2>2
    <3>2. f[k] \in Nat
      BY <1>2, <1>10, <3>1
    <3> QED
      BY <3>1, <3>2
  <2> HIDE DEF T
  <2>3. \A k \in 1..(n + 1) : k \in T
    BY <1>1, <2>1, <2>2, InductionDown
  <2> QED
    BY <2>3 DEF T
<1> QED
  BY <1>9, <1>10, <1>11 DEF n, w

(* What the loop over the characters from the last has come to.            *)
Come(w, at, stopped) == [width |-> w, index |-> at, stopped |-> stopped]

(* One turn of it.                                                         *)
LEMMA BackMeans ==
  ASSUME NEW w, NEW at, NEW c, NEW room
  PROVE  /\ Back(Come(w, at, TRUE), c, room) = Come(w, at, TRUE)
         /\ w + c.width > room => Back(Come(w, at, FALSE), c, room) = Come(w, at, TRUE)
         /\ ~(w + c.width > room) =>
              Back(Come(w, at, FALSE), c, room) = Come(w + c.width, c.index, FALSE)
<1>1. \A x, y, b, d : [[width |-> x, index |-> y, stopped |-> b] EXCEPT !.stopped = d]
                        = [width |-> x, index |-> y, stopped |-> d]
  OBVIOUS
<1>2. \A b : [Come(w, at, b) EXCEPT !.stopped = TRUE] = Come(w, at, TRUE)
  BY <1>1 DEF Come
<1>3. Come(w, at, TRUE).stopped /\ ~Come(w, at, FALSE).stopped
  BY DEF Come
<1>4. \A b : Come(w, at, b).width = w
  BY DEF Come
<1>5. Back(Come(w, at, TRUE), c, room) = Come(w, at, TRUE)
  BY <1>2, <1>3, Zenon DEF Back
<1>6. ASSUME w + c.width > room PROVE Back(Come(w, at, FALSE), c, room) = Come(w, at, TRUE)
  BY <1>2, <1>3, <1>4, <1>6, Zenon DEF Back
<1>7. ASSUME ~(w + c.width > room)
      PROVE  Back(Come(w, at, FALSE), c, room) = Come(w + c.width, c.index, FALSE)
  <2>1. Back(Come(w, at, FALSE), c, room)
          = [width |-> Come(w, at, FALSE).width + c.width, index |-> c.index, stopped |-> FALSE]
    BY <1>3, <1>4, <1>7, Zenon DEF Back
  <2>2. Come(w + c.width, c.index, FALSE)
          = [width |-> w + c.width, index |-> c.index, stopped |-> FALSE]
    BY Zenon DEF Come
  <2> QED
    BY <1>4, <2>1, <2>2, Zenon
<1> QED
  BY <1>5, <1>6, <1>7

(* The states the loop may come to, and that a turn leads to another one.  *)
Comings == {Come(w, at, stopped) : w \in Nat, at \in Int, stopped \in BOOLEAN}

LEMMA BackComes ==
  ASSUME NEW x \in Comings, NEW c, c.width \in Nat, c.index \in Int, NEW room
  PROVE  Back(x, c, room) \in Comings
<1>1. PICK w \in Nat, at \in Int, stopped \in BOOLEAN : x = Come(w, at, stopped)
  BY DEF Comings
<1>2. w + c.width \in Nat
  OBVIOUS
<1>3. \A v \in Nat, i \in Int, b \in BOOLEAN : Come(v, i, b) \in Comings
  BY DEF Comings
<1>4. TRUE \in BOOLEAN /\ FALSE \in BOOLEAN
  OBVIOUS
<1>5. Come(w, at, TRUE) \in Comings /\ Come(w + c.width, c.index, FALSE) \in Comings
  BY <1>2, <1>3, <1>4, Zenon
<1>6. /\ Back(Come(w, at, TRUE), c, room) = Come(w, at, TRUE)
      /\ w + c.width > room => Back(Come(w, at, FALSE), c, room) = Come(w, at, TRUE)
      /\ ~(w + c.width > room) =>
           Back(Come(w, at, FALSE), c, room) = Come(w + c.width, c.index, FALSE)
  BY BackMeans
<1>7. stopped = TRUE \/ stopped = FALSE
  OBVIOUS
<1>8. CASE stopped = TRUE
  BY <1>1, <1>5, <1>6, <1>8, Zenon
<1>9. CASE stopped = FALSE
  BY <1>1, <1>5, <1>6, <1>9, Zenon
<1> QED
  BY <1>7, <1>8, <1>9

(* The loop over the characters: how it begins, and that each character is *)
(* one turn.                                                               *)
LEMMA ShownFromMeans ==
  ASSUME NEW D \in Seq(Infos), NEW space
  PROVE  /\ ShownFrom(D, space)[Len(D) + 1] = Come(0, -1, FALSE)
         /\ \A k \in 1..Len(D) :
              ShownFrom(D, space)[k] = Back(ShownFrom(D, space)[k + 1], D[k], Room(space))
<1> DEFINE n == Len(D)
           base == Come(0, -1, FALSE)
           room == Room(space)
           Turn(x, k) == Back(x, D[k], room)
           Next1(g, k) == IF k > n THEN base ELSE Turn(g[k + 1], k)
           F == [k \in 1..n |-> [x \in Comings |-> Turn(x, k)]]
<1>1. n \in Nat
  OBVIOUS
<1>2. base \in Comings
  <2>1. \A v \in Nat, i \in Int, b \in BOOLEAN : Come(v, i, b) \in Comings
    BY DEF Comings
  <2>2. 0 \in Nat /\ -1 \in Int /\ FALSE \in BOOLEAN
    OBVIOUS
  <2> QED
    BY <2>1, <2>2, Zenon
<1>3. \A k \in 1..n : \A x \in Comings : Turn(x, k) \in Comings
  <2> SUFFICES ASSUME NEW k \in 1..n, NEW x \in Comings PROVE Turn(x, k) \in Comings
    OBVIOUS
  <2>1. D[k] \in Infos
    OBVIOUS
  <2>2. D[k].width \in Nat /\ D[k].index \in Int
    BY <2>1 DEF Infos
  <2> QED
    BY <2>2, BackComes
<1> HIDE DEF n, base, room, Turn
<1>4. F \in Steps(n, Comings)
  BY <1>3 DEF Steps
<1>5. \A k \in 1..n : \A x \in Comings : F[k][x] = Turn(x, k)
  OBVIOUS
<1> HIDE DEF F
<1>6. PICK g \in [1..(n + 1) -> Comings] : Falls(n, base, F, g)
  BY <1>1, <1>2, <1>4, RecursionDown
<1>7. g[n + 1] = base /\ \A k \in 1..n : g[k] = F[k][g[k + 1]]
  BY <1>6 DEF Falls
<1>8. g = [k \in 1..(n + 1) |-> Next1(g, k)]
  <2>1. ASSUME NEW k \in 1..(n + 1) PROVE g[k] = Next1(g, k)
    <3>1. CASE k > n
      <4>1. k = n + 1
        BY <1>1, <3>1
      <4> QED
        BY <1>7, <3>1, <4>1
    <3>2. CASE ~(k > n)
      <4>1. k \in 1..n /\ k + 1 \in 1..(n + 1)
        BY <1>1, <3>2
      <4>2. g[k + 1] \in Comings
        BY <4>1
      <4>3. g[k] = Turn(g[k + 1], k)
        BY <1>5, <1>7, <4>1, <4>2
      <4> QED
        BY <3>2, <4>3
    <3> QED
      BY <3>1, <3>2
  <2>2. g = [k \in 1..(n + 1) |-> g[k]]
    OBVIOUS
  <2> HIDE DEF Next1
  <2> QED
    BY <2>1, <2>2
<1> DEFINE f == CHOOSE h : h = [k \in 1..(n + 1) |-> Next1(h, k)]
<1>9. f = [k \in 1..(n + 1) |-> Next1(f, k)]
  BY <1>8
<1>10. ShownFrom(D, space) = f
  BY DEF ShownFrom, n, base, room, Turn, Come
<1> HIDE DEF f
<1>11. f[n + 1] = base /\ \A k \in 1..n : f[k] = Turn(f[k + 1], k)
  <2>1. n + 1 \in 1..(n + 1) /\ n + 1 > n /\ \A k \in 1..n : k \in 1..(n + 1) /\ ~(k > n)
    BY <1>1
  <2> QED
    BY <1>9, <2>1
<1> QED
  BY <1>10, <1>11 DEF n, base, room, Turn

(* Where a character begins, -1 behind the last.                           *)
Indexed(D, j) == IF j > Len(D) THEN -1 ELSE D[j].index

(* The loop has taken the characters from the j-th on and goes on, or has  *)
(* stopped with them since the one before did not fit.                     *)
Going(D, j, room, x) ==
  x = Come(WidthFrom(D)[j], Indexed(D, j), FALSE) /\ WidthFrom(D)[j] <= room
Cut(D, j, room, x) ==
  /\ x = Come(WidthFrom(D)[j], Indexed(D, j), TRUE)
  /\ WidthFrom(D)[j] <= room /\ WidthFrom(D)[j - 1] > room

(* Characters that do not fit as a whole are cut.                          *)
LEMMA ShownMeans ==
  ASSUME NEW D \in Seq(Infos), NEW space, Room(space) \in Nat,
         Width(D) > Room(space)
  PROVE  \E j \in 2..(Len(D) + 1) : Cut(D, j, Room(space), Shown(D, space))
<1> DEFINE n == Len(D)
           room == Room(space)
           A == ShownFrom(D, space)
           W == WidthFrom(D)
           Good(k) == Going(D, k, room, A[k]) \/ \E j \in (k + 1)..(n + 1) : Cut(D, j, room, A[k])
           T == {k \in 1..(n + 1) : Good(k)}
<1>1. n \in Nat /\ room \in Nat
  OBVIOUS
<1>2. /\ W[n + 1] = 0 /\ \A k \in 1..n : W[k] = D[k].width + W[k + 1]
      /\ \A k \in 1..(n + 1) : W[k] \in Nat
  BY WidthFromMeans
<1>3. /\ A[n + 1] = Come(0, -1, FALSE)
      /\ \A k \in 1..n : A[k] = Back(A[k + 1], D[k], room)
  BY ShownFromMeans
<1>4. Indexed(D, n + 1) = -1 /\ \A k \in 1..n : Indexed(D, k) = D[k].index
  <2>1. n + 1 > n /\ \A k \in 1..n : ~(k > n)
    BY <1>1
  <2> QED
    BY <2>1 DEF Indexed
<1>5. \A k \in 1..n : D[k].width \in Nat
  <2>1. \A k \in 1..n : D[k] \in Infos
    OBVIOUS
  <2> QED
    BY <2>1 DEF Infos
<1> HIDE DEF n, room, A, W
<1>6. n + 1 \in T
  <2>1. W[n + 1] <= room /\ n + 1 \in 1..(n + 1)
    BY <1>1, <1>2
  <2>2. A[n + 1] = Come(W[n + 1], Indexed(D, n + 1), FALSE)
    BY <1>2, <1>3, <1>4
  <2>3. Going(D, n + 1, room, A[n + 1])
    BY <2>1, <2>2 DEF Going, W
  <2> QED
    BY <2>1, <2>3
<1>7. ASSUME NEW k \in 1..n, k + 1 \in T PROVE k \in T
  <2>1. k \in 1..(n + 1) /\ k + 1 \in 1..(n + 1) /\ k + 1 \in (k + 1)..(n + 1) /\ (k + 1) - 1 = k
    BY <1>1
  <2>2. A[k] = Back(A[k + 1], D[k], room) /\ W[k] = D[k].width + W[k + 1]
    BY <1>2, <1>3
  <2>3. W[k + 1] + D[k].width = W[k] /\ W[k] \in Nat
    BY <1>2, <1>5, <2>1, <2>2
  <2>4. Good(k + 1)
    BY <1>7
  <2>5. CASE Going(D, k + 1, room, A[k + 1])
    <3>1. A[k + 1] = Come(W[k + 1], Indexed(D, k + 1), FALSE) /\ W[k + 1] <= room
      BY <2>5 DEF Going, W
    <3>2. /\ W[k] > room => A[k] = Come(W[k + 1], Indexed(D, k + 1), TRUE)
          /\ ~(W[k] > room) => A[k] = Come(W[k], D[k].index, FALSE)
      <4> DEFINE v == W[k + 1]
                 at == Indexed(D, k + 1)
      <4>1. /\ v + D[k].width > room => Back(Come(v, at, FALSE), D[k], room) = Come(v, at, TRUE)
            /\ ~(v + D[k].width > room) =>
                 Back(Come(v, at, FALSE), D[k], room) = Come(v + D[k].width, D[k].index, FALSE)
        BY BackMeans
      <4> QED
        BY <2>2, <2>3, <3>1, <4>1, Zenon
    <3>3. CASE W[k] > room
      <4>1. W[(k + 1) - 1] > room
        BY <2>1, <3>3
      <4>2. Cut(D, k + 1, room, A[k])
        BY <3>1, <3>2, <3>3, <4>1 DEF Cut, W
      <4> QED
        BY <2>1, <4>2
    <3>4. CASE ~(W[k] > room)
      <4>1. W[k] <= room
        BY <1>1, <2>3, <3>4
      <4>2. A[k] = Come(W[k], Indexed(D, k), FALSE)
        BY <1>4, <3>2, <3>4
      <4>3. Going(D, k, room, A[k])
        BY <4>1, <4>2 DEF Going, W
      <4> QED
        BY <2>1, <4>3
    <3> QED
      BY <3>3, <3>4
  <2>6. CASE \E j \in ((k + 1) + 1)..(n + 1) : Cut(D, j, room, A[k + 1])
    <3>1. PICK j \in ((k + 1) + 1)..(n + 1) : Cut(D, j, room, A[k + 1])
      BY <2>6
    <3>2. j \in (k + 1)..(n + 1)
      BY <1>1, <3>1
    <3>3. A[k + 1] = Come(W[j], Indexed(D, j), TRUE) /\ W[j] <= room /\ W[j - 1] > room
      BY <3>1 DEF Cut, W
    <3>4. A[k] = Come(W[j], Indexed(D, j), TRUE)
      <4> DEFINE v == W[j]
                 at == Indexed(D, j)
      <4>1. Back(Come(v, at, TRUE), D[k], room) = Come(v, at, TRUE)
        BY BackMeans
      <4> QED
        BY <2>2, <3>3, <4>1, Zenon
    <3>5. Cut(D, j, room, A[k])
      BY <3>3, <3>4 DEF Cut, W
    <3> QED
      BY <2>1, <3>2, <3>5
  <2> QED
    BY <2>4, <2>5, <2>6
<1> HIDE DEF T
<1>8. 1 \in T
  <2>1. \A k \in 1..(n + 1) : k \in T
    BY <1>1, <1>6, <1>7, InductionDown
  <2> QED
    BY <1>1, <2>1
<1>9. ~(W[1] <= room)
  <2>1. W[1] > room /\ W[1] \in Int
    BY <1>1, <1>2 DEF Width, W, room
  <2> QED
    BY <1>1, <2>1
<1>10. ~Going(D, 1, room, A[1])
  BY <1>9 DEF Going, W
<1>11. \E j \in 2..(n + 1) : Cut(D, j, room, A[1])
  BY <1>8, <1>10 DEF T
<1> QED
  BY <1>11 DEF Shown, A, n, room

(* The parts of a line that a terminal has room for.                       *)
Parts(shown, text, columns, space, wide, tail, all) ==
  /\ shown.text = text /\ shown.columns = columns
  /\ shown.defined = ((wide => tail.stopped /\ tail.index >= 0)
                        /\ shown.written <= ResultSize(columns))
  /\ shown.written = 3 + 1 + (IF wide THEN 3 + Len(Bytes(text)) - tail.index
                               ELSE Len(Bytes(text)) + space - all) + 2 + shown.bar + 2 + 6
  /\ shown.from = (IF wide THEN tail.index ELSE 0)
  /\ shown.pad = (IF wide THEN 3 ELSE space - all)
  /\ shown.bar = (IF columns - (4 + space) - 8 > 0 THEN columns - (4 + space) - 8 ELSE 0)

LEMMA LinePartsMean ==
  ASSUME NEW text \in Items, NEW terminal \in Int, NEW done, NEW all,
         NEW shown \in BuildLine(text, terminal, done, all),
         NEW D, D = Described(text).characters,
         NEW columns, columns = terminal - 1,
         NEW space, space = Quotient(columns, 3)
  PROVE  Parts(shown, text, columns, space, Width(D) > space, Shown(D, space), Width(D))
<1>1. text \in Seq(CodePoints)
  BY ItemAssumption
<1>2. Described(text) = [returns |-> TRUE, characters |-> D]
  BY <1>1, DescribedMeans
<1>3. item_utf8[text] = ForString(Bytes(text))
  BY DEF item_utf8
<1>4. item_utf8[text] = [returns |-> TRUE, characters |-> D]
  BY <1>1, <1>2, <1>3, ForStringDescribes, Zenon
<1>5. item_utf8[text].characters = D /\ item_utf8[text].returns = TRUE
  BY <1>4
<1> DEFINE wide == Width(item_utf8[text].characters) > space
           tail == Shown(item_utf8[text].characters, space)
           bar == columns - (4 + space) - 8
           cut == 3 + Len(Bytes(text)) - tail.index
           whole == Len(Bytes(text)) + space - Width(item_utf8[text].characters)
           item == IF wide THEN cut ELSE whole
           mark == IF bar > 0 THEN bar ELSE 0
<1>6. /\ shown.text = text /\ shown.columns = columns
      /\ shown.defined = (/\ item_utf8[text].returns
                          /\ wide => tail.stopped /\ tail.index >= 0
                          /\ shown.written <= ResultSize(columns))
      /\ shown.written = 3 + 1 + item + 2 + mark + 2 + 6
      /\ shown.from = (IF wide THEN tail.index ELSE 0)
      /\ shown.pad = (IF wide THEN 3 ELSE space - Width(item_utf8[text].characters))
      /\ shown.bar = (IF bar > 0 THEN bar ELSE 0)
  <2> DEFINE Bytes3 == 3 + 1 + item + 2 + mark + 2 + 6
             ok == item_utf8[text].returns /\ (wide => tail.stopped /\ tail.index >= 0)
  <2>1. PICK filled, scaled :
          shown = [text |-> text,
                   defined |-> /\ item_utf8[text].returns
                               /\ wide => tail.stopped /\ tail.index >= 0
                               /\ Bytes3 <= ResultSize(columns),
                   written |-> Bytes3, columns |-> columns,
                   from |-> IF wide THEN tail.index ELSE 0,
                   pad |-> IF wide THEN 3 ELSE space - Width(item_utf8[text].characters),
                   bar |-> mark,
                   filled |-> IF filled < 0 \/ bar < 0 THEN 0
                              ELSE IF filled > bar THEN bar ELSE filled,
                   percent |-> PercentToString(scaled), done |-> done, total |-> all]
    BY DEF BuildLine
  <2> HIDE DEF Bytes3, wide, tail, mark
  <2>2. /\ shown.text = text /\ shown.columns = columns
        /\ shown.defined = (ok /\ Bytes3 <= ResultSize(columns))
        /\ shown.written = Bytes3
        /\ shown.from = (IF wide THEN tail.index ELSE 0)
        /\ shown.pad = (IF wide THEN 3 ELSE space - Width(item_utf8[text].characters))
        /\ shown.bar = mark
    BY <2>1
  <2> QED
    BY <2>2, Zenon DEF Bytes3, mark
<1>7. wide <=> Width(D) > space
  BY <1>5, Zenon
<1>8. tail = Shown(D, space)
  BY <1>5, Zenon
<1> DEFINE rest == 3 + Len(Bytes(text)) - Shown(D, space).index
           all_of_it == Len(Bytes(text)) + space - Width(D)
<1>12. cut = rest /\ whole = all_of_it
  BY <1>5, <1>8, Zenon
<1> HIDE DEF wide, tail, cut, whole
<1>9. shown.defined = ((Width(D) > space => Shown(D, space).stopped /\ Shown(D, space).index >= 0)
                         /\ shown.written <= ResultSize(columns))
  BY <1>5, <1>6, <1>7, <1>8, Zenon
<1>13. item = (IF Width(D) > space THEN rest ELSE all_of_it)
  BY <1>7, <1>12, Zenon
<1>10. shown.from = (IF Width(D) > space THEN Shown(D, space).index ELSE 0)
  BY <1>6, <1>7, <1>8, Zenon
<1>11. shown.pad = (IF Width(D) > space THEN 3 ELSE space - Width(D))
  BY <1>5, <1>6, <1>7, Zenon
<1>14. shown.written = 3 + 1 + item + 2 + shown.bar + 2 + 6
  <2>1. shown.bar = mark
    BY <1>6
  <2> HIDE DEF item, mark
  <2> QED
    BY <1>6, <2>1, Zenon
<1> HIDE DEF item
<1> QED
  BY <1>6, <1>9, <1>10, <1>11, <1>13, <1>14, Zenon DEF Parts

(* A third of a wide terminal has room for the ellipsis and for a wide     *)
(* character, and the rest for all else.                                   *)
LEMMA SpaceIsEnough ==
  ASSUME NEW terminal \in Terminals, terminal >= WideEnough,
         NEW columns, columns = terminal - 1,
         NEW space, space = Quotient(columns, 3)
  PROVE  /\ columns \in Nat /\ space = columns \div 3 /\ space \in Nat
         /\ Room(space) = space - 3 /\ Room(space) \in Nat /\ Room(space) >= 2
         /\ columns - (4 + space) - 8 \in Nat
<1>1. terminal \in Nat /\ terminal < SizeLimit /\ SizeLimit \in Nat
  BY NumberAssumption
<1>2. columns \in Nat /\ columns >= 17
  BY <1>1 DEF WideEnough
<1>3. space = columns \div 3
  BY <1>2 DEF Quotient
<1>4. space \in Nat /\ space * 3 <= columns /\ columns <= space * 3 + 2
  BY <1>2, <1>3
<1>5. space >= 5 /\ space - 3 \in Nat /\ space - 3 < SizeLimit
  BY <1>1, <1>2, <1>4
<1>6. (space - 3) % SizeLimit = space - 3
  BY <1>1, <1>5, SmallRemainder
<1>7. columns - (4 + space) - 8 \in Nat
  BY <1>2, <1>4
<1> QED
  BY <1>2, <1>3, <1>4, <1>5, <1>6, <1>7 DEF Room

(* No character has more than four bytes, so there are no more than four   *)
(* to a column where each has a column.                                    *)
LEMMA FourToAColumn ==
  ASSUME NEW text \in Seq(CodePoints), Spacing(text)
  PROVE  \A k \in 1..(Len(text) + 1) :
           Len(Bytes(text)) - Offset(text, k) <= 4 * WidthFrom(Described(text).characters)[k]
<1> DEFINE n == Len(text)
           D == Described(text).characters
           W == WidthFrom(D)
           all == Len(Bytes(text))
           off(k) == Offset(text, k)
           T == {k \in 1..(n + 1) : all - off(k) <= 4 * W[k]}
<1>1. n \in Nat
  OBVIOUS
<1>2. D \in Seq(Infos) /\ Len(D) = n
  BY DescribedMeans
<1>3. /\ W[n + 1] = 0 /\ \A k \in 1..n : W[k] = D[k].width + W[k + 1]
      /\ \A k \in 1..(n + 1) : W[k] \in Nat
  BY <1>2, WidthFromMeans
<1>4. ASSUME NEW k \in 1..n PROVE Len(Encode(text[k])) \in 1..4 /\ D[k].width \in 1..2
  <2>1. text[k] \in CodePoints /\ wcwidth(text[k]) >= 1
    BY DEF Spacing
  <2>2. wcwidth(text[k]) \in 1..2
    BY <2>1, ColumnsAssumption
  <2>3. D[k] = [index |-> Offset(text, k), width |-> Columns(text[k])]
    BY DescribedMeans
  <2>4. D[k].width = Columns(text[k]) /\ Columns(text[k]) = wcwidth(text[k])
    BY <2>2, <2>3 DEF Columns
  <2> QED
    BY <2>1, <2>2, <2>4, Encoded DEF EncodedBy
<1>5. /\ off(n + 1) = all /\ all \in Nat /\ \A k \in 1..(n + 1) : off(k) \in Nat
      /\ \A k \in 1..n : off(k + 1) = off(k) + Len(Encode(text[k]))
  BY OffsetsMean DEF ByteStrings
<1> HIDE DEF n, D, W, all, off
<1>6. n + 1 \in T
  BY <1>1, <1>3, <1>5
<1>7. ASSUME NEW k \in 1..n, k + 1 \in T PROVE k \in T
  <2>1. k \in 1..(n + 1) /\ k + 1 \in 1..(n + 1)
    BY <1>1
  <2> DEFINE size == Len(Encode(text[k]))
             w == D[k].width
  <2>2. size \in 1..4 /\ w \in 1..2 /\ off(k + 1) = off(k) + size /\ W[k] = w + W[k + 1]
    BY <1>3, <1>4, <1>5
  <2>3. all - off(k + 1) <= 4 * W[k + 1]
    BY <1>7
  <2>4. W[k + 1] \in Nat /\ off(k) \in Nat /\ all \in Nat
    BY <1>3, <1>5, <2>1
  <2> HIDE DEF size, w
  <2>5. all - off(k) <= 4 * W[k]
    BY <2>2, <2>3, <2>4
  <2> QED
    BY <2>1, <2>5
<1> HIDE DEF T
<1>8. \A k \in 1..(n + 1) : k \in T
  BY <1>1, <1>6, <1>7, InductionDown
<1> QED
  BY <1>8 DEF T, n, D, W, all, off

(* What is counted for the characters of a printable text are its columns. *)
LEMMA PrintableColumns ==
  ASSUME NEW text \in Seq(CodePoints), Printable(text)
  PROVE  \A k \in 1..(Len(text) + 1) :
           ColumnsFrom(text, k) = WidthFrom(Described(text).characters)[k]
<1> DEFINE n == Len(text)
           D == Described(text).characters
           C == [j \in 1..n |-> [index |-> j, width |-> wcwidth(text[j])]]
           W == WidthFrom(D)
           V == WidthFrom(C)
           T == {k \in 1..(n + 1) : V[k] = W[k]}
<1>1. n \in Nat /\ Len(C) = n
  OBVIOUS
<1>2. D \in Seq(Infos) /\ Len(D) = n
  BY DescribedMeans
<1>3. ASSUME NEW k \in 1..n PROVE C[k].width = D[k].width
  <2>1. D[k] = [index |-> Offset(text, k), width |-> Columns(text[k])]
    BY DescribedMeans
  <2>2. wcwidth(text[k]) # -1
    BY DEF Printable
  <2> QED
    BY <2>1, <2>2 DEF Columns
<1>4. C \in Seq(Infos)
  <2>1. ASSUME NEW j \in 1..n PROVE wcwidth(text[j]) \in 0..2 /\ j \in Nat
    <3>1. text[j] \in CodePoints /\ wcwidth(text[j]) # -1
      BY DEF Printable
    <3> QED
      BY <3>1, ColumnsAssumption
  <2>2. C \in [1..n -> Infos]
    BY <2>1 DEF Infos
  <2> HIDE DEF C
  <2> QED
    BY <1>1, <2>2
<1> HIDE DEF n, D, C
<1>6. /\ W[n + 1] = 0 /\ \A k \in 1..n : W[k] = D[k].width + W[k + 1]
      /\ V[n + 1] = 0 /\ \A k \in 1..n : V[k] = C[k].width + V[k + 1]
  BY <1>1, <1>2, <1>4, WidthFromMeans
<1> HIDE DEF V, W
<1>7. n + 1 \in T
  BY <1>1, <1>6
<1>8. ASSUME NEW k \in 1..n, k + 1 \in T PROVE k \in T
  <2>1. k \in 1..(n + 1) /\ V[k + 1] = W[k + 1]
    BY <1>1, <1>8
  <2> QED
    BY <1>3, <1>6, <2>1
<1> HIDE DEF T
<1>9. \A k \in 1..(n + 1) : k \in T
  BY <1>1, <1>7, <1>8, InductionDown
<1>5. \A k : ColumnsFrom(text, k) = V[k]
  BY DEF ColumnsFrom, V, C, n
<1> QED
  BY <1>5, <1>9 DEF T, W, D, n

(* A line on a wide terminal, of a path that fits or of one that is cut.   *)
LEMMA LineOnWideTerminalFits ==
  ASSUME NEW text \in Items, NEW terminal \in Terminals, terminal >= WideEnough,
         NEW done, NEW all, NEW shown \in BuildLine(text, terminal, done, all),
         Printable(text), Spacing(text) \/ shown.written <= ResultSize(shown.columns)
  PROVE  Fits(shown)
<1> DEFINE n == Len(text)
           D == Described(text).characters
           columns == terminal - 1
           space == Quotient(columns, 3)
           bar == columns - (4 + space) - 8
           W == WidthFrom(D)
           tail == Shown(D, space)
           Shows(k) == /\ shown.from = Len(BytesSoFar(shown.text)[k - 1])
                       /\ LineWidth(shown, ColumnsFrom(shown.text, k))
                            \in (shown.columns - 1)..shown.columns
                       /\ k > 1 => ColumnsFrom(shown.text, k - 1) + 3 > shown.columns \div 3
<1>1. text \in Seq(CodePoints) /\ terminal \in Int
  BY ItemAssumption, NumberAssumption
<1>2. n \in Nat
  BY <1>1
<1>3. /\ columns \in Nat /\ space = columns \div 3 /\ space \in Nat
      /\ Room(space) = space - 3 /\ Room(space) \in Nat /\ Room(space) >= 2 /\ bar \in Nat
  BY SpaceIsEnough
<1>4. Parts(shown, text, columns, space, Width(D) > space, tail, Width(D))
  BY <1>1, LinePartsMean
<1>5. D \in Seq(Infos) /\ Len(D) = n
  BY <1>1, DescribedMeans
<1>6. \A k \in 1..n : D[k].index = Offset(text, k) /\ D[k].width \in 0..2
  BY <1>1, DescribedMeans
<1>7. /\ W[n + 1] = 0 /\ \A k \in 1..n : W[k] = D[k].width + W[k + 1]
      /\ \A k \in 1..(n + 1) : W[k] \in Nat
  BY <1>5, WidthFromMeans
<1>8. Offset(text, 1) = 0 /\ \A k \in 1..(n + 1) : Offset(text, k) \in Nat
  BY <1>1, OffsetsMean
<1>9. Width(D) = W[1] /\ W[1] \in Nat
  BY <1>2, <1>7 DEF Width
<1>10. \A k : Len(BytesSoFar(text)[k - 1]) = Offset(text, k)
  BY DEF Offset
<1>11. \A k \in 1..(n + 1) : ColumnsFrom(text, k) = W[k]
  BY <1>1, PrintableColumns
<1> DEFINE octets == Len(Bytes(text))
<1>15. /\ octets \in Nat
       /\ Spacing(text) => \A k \in 1..(n + 1) : octets - Offset(text, k) <= 4 * W[k]
  BY <1>1, OffsetsMean, FourToAColumn DEF ByteStrings
<1> HIDE DEF n, D, columns, space, W, tail, octets
<1>16. ResultSize(columns) >= columns * 4
  BY <1>3 DEF ResultSize
<1>12. shown.text = text /\ shown.columns = columns /\ shown.bar = bar
  <2>1. shown.bar = (IF bar > 0 THEN bar ELSE 0)
    BY <1>4 DEF Parts
  <2> HIDE DEF bar
  <2>2. shown.bar = bar
    BY <1>3, <2>1
  <2> QED
    BY <1>4, <2>2 DEF Parts
<1>13. CASE ~(Width(D) > space)
  <2>7. shown.written = 3 + 1 + (octets + space - Width(D)) + 2 + bar + 2 + 6
    BY <1>4, <1>12, <1>13, Zenon DEF Parts, octets
  <2>8. ASSUME Spacing(text) PROVE shown.written <= ResultSize(columns)
    <3>1. 1 \in 1..(n + 1)
      BY <1>2
    <3>2. octets <= 4 * W[1]
      BY <1>8, <1>9, <1>15, <2>8, <3>1
    <3>3. shown.written <= columns * 4 /\ shown.written \in Int
      BY <1>3, <1>9, <1>13, <1>15, <2>7, <3>2
    <3>4. ResultSize(columns) \in Int
      BY <1>3 DEF ResultSize
    <3> QED
      BY <1>3, <1>16, <3>3, <3>4
  <2>1. shown.defined /\ shown.from = 0 /\ shown.pad = space - W[1]
    BY <1>4, <1>9, <1>12, <1>13, <2>8 DEF Parts
  <2>2. LineWidth(shown, W[1]) = columns
    BY <1>3, <1>9, <1>12, <2>1 DEF LineWidth
  <2>3. LineWidth(shown, W[1]) \in (columns - 1)..columns
    BY <1>3, <2>2
  <2>4. Shows(1)
    BY <1>2, <1>8, <1>10, <1>11, <1>12, <2>1, <2>3
  <2>5. 1 \in 1..(n + 1)
    BY <1>2
  <2> HIDE DEF Shows
  <2>6. \E k \in 1..(n + 1) : Shows(k)
    BY <2>4, <2>5
  <2> QED
    BY <1>12, <2>1, <2>6 DEF Fits, Shows, n
<1>14. CASE Width(D) > space
  <2>1. Width(D) > Room(space)
    BY <1>3, <1>9, <1>14
  <2>2. PICK j \in 2..(n + 1) : Cut(D, j, Room(space), tail)
    BY <1>3, <1>5, <2>1, ShownMeans DEF tail
  <2>3. /\ tail = Come(W[j], Indexed(D, j), TRUE)
        /\ W[j] <= space - 3 /\ W[j - 1] > space - 3
    BY <1>3, <2>2 DEF Cut, W
  <2>4. j - 1 \in 1..n /\ (j - 1) + 1 = j /\ j \in 1..(n + 1)
    BY <1>2, <2>2
  <2>5. W[j - 1] = D[j - 1].width + W[j] /\ D[j - 1].width \in 0..2 /\ W[j] \in Nat
    BY <1>6, <1>7, <2>4
  <2>6. j # n + 1
    <3> SUFFICES ASSUME j = n + 1 PROVE FALSE
      OBVIOUS
    <3>1. W[j] = 0
      BY <1>7
    <3> QED
      BY <1>3, <2>3, <2>5, <3>1
  <2>7. j \in 1..n /\ ~(j > n)
    BY <1>2, <2>4, <2>6
  <2>8. Indexed(D, j) = Offset(text, j) /\ Offset(text, j) \in Nat
    BY <1>5, <1>6, <1>8, <2>4, <2>7 DEF Indexed
  <2>9. tail.stopped = TRUE /\ tail.index = Offset(text, j) /\ tail.index >= 0
    <3>1. tail.stopped = TRUE /\ tail.index = Indexed(D, j)
      BY <2>3 DEF Come
    <3> QED
      BY <2>8, <3>1
  <2>16. shown.written = 3 + 1 + (3 + octets - tail.index) + 2 + bar + 2 + 6
    BY <1>4, <1>12, <1>14, Zenon DEF Parts, octets
  <2>17. ASSUME Spacing(text) PROVE shown.written <= ResultSize(columns)
    <3>1. octets - Offset(text, j) <= 4 * W[j]
      BY <1>15, <2>4, <2>17
    <3>2. shown.written = 3 + 1 + (3 + octets - Offset(text, j)) + 2 + bar + 2 + 6
      BY <2>9, <2>16
    <3>3. shown.written <= columns * 4 /\ shown.written \in Int
      BY <1>3, <1>15, <2>3, <2>5, <2>8, <3>1, <3>2
    <3>4. ResultSize(columns) \in Int
      BY <1>3 DEF ResultSize
    <3> QED
      BY <1>3, <1>16, <3>3, <3>4
  <2>10. shown.defined /\ shown.from = Offset(text, j) /\ shown.pad = 3
    BY <1>4, <1>12, <1>14, <2>9, <2>17 DEF Parts
  <2>11. W[j] + 3 \in (space - 1)..space
    BY <1>3, <2>3, <2>5
  <2>12. LineWidth(shown, W[j]) \in (columns - 1)..columns
    BY <1>3, <1>12, <2>5, <2>10, <2>11 DEF LineWidth
  <2>13. W[j - 1] + 3 > space
    BY <1>3, <2>3, <2>5
  <2>14. Shows(j)
    <3>1. j - 1 \in 1..(n + 1) /\ j \in 1..(n + 1)
      BY <1>2, <2>4
    <3>2. ColumnsFrom(text, j - 1) = W[j - 1] /\ ColumnsFrom(text, j) = W[j]
      BY <1>11, <3>1
    <3> QED
      BY <1>3, <1>10, <1>12, <2>10, <2>12, <2>13, <3>2
  <2> HIDE DEF Shows
  <2>15. \E k \in 1..(n + 1) : Shows(k)
    BY <2>4, <2>14
  <2> QED
    BY <1>12, <2>10, <2>15 DEF Fits, Shows, n
<1> QED
  BY <1>13, <1>14

(* For any printable path and any terminal that is wide enough: a line     *)
(* takes all columns but one, or one less than that, and shows the path or *)
(* its longest end that fits, from where a character begins; and if each   *)
(* character has a column, result has room for the bytes.                  *)
THEOREM LinesFit == StreamSpec => []LineFits
<1>1. StreamInv => LineFits
  <2> SUFFICES ASSUME StreamInv, NEW shown \in Lines, shown.columns + 1 >= WideEnough,
                      Printable(shown.text),
                      Spacing(shown.text) \/ shown.written <= ResultSize(shown.columns)
               PROVE  Fits(shown)
    BY DEF LineFits
  <2>1. line # NoLine
    BY DEF Lines
  <2>2. line \in [path : Items, terminal : Terminals]
    BY <2>1 DEF StreamInv, StreamTypeOK
  <2>3. line.path \in Items /\ line.terminal \in Terminals
    BY <2>2
  <2>4. PICK done, all : shown \in BuildLine(line.path, line.terminal, done, all)
    BY <2>1 DEF Lines
  <2>5. shown.columns = line.terminal - 1 /\ shown.text = line.path
    BY <2>4 DEF BuildLine
  <2>6. line.terminal >= WideEnough
    <3>1. line.terminal \in Nat
      BY <2>3, NumberAssumption
    <3> QED
      BY <2>5, <3>1
  <2> QED
    BY <2>3, <2>4, <2>5, <2>6, LineOnWideTerminalFits
<1> QED
  BY <1>1, StreamInitHolds, StreamStep, PTL DEF StreamSpec
================================================================================
