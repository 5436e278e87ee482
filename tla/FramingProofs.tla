----------------------------- MODULE FramingProofs -----------------------------
(***************************************************************************)
(* Proofs about Framing, for any number of objects, any sizes of length    *)
(* and bodies, and any counts that send and recv may return: the client    *)
(* reads the messages that were sent, in the order in which they were      *)
(* begun, and Finished last.                                               *)
(***************************************************************************)
EXTENDS FramingInvariant, SequenceTheorems, TLAPS

-------------------------------------------------------------------------------
(* Frames and pieces of them.                                              *)

(* A message's frame is longer than its header, and starts with it.        *)
LEMMA SizeFacts ==
  ASSUME NEW m \in Messages
  PROVE  /\ Header \in Nat \ {0} /\ SizeOf[m] \in Nat \ {0}
         /\ FrameSize(m) \in Nat /\ Header < FrameSize(m)
BY SizeAssumption DEF FrameSize

(* The n elements of a sequence after its first a.                         *)
Piece(s, a, n) == SubSeq(s, a + 1, a + n)

(* They are where they were, counted from there on.                        *)
LEMMA PieceFacts ==
  ASSUME NEW S, NEW s, NEW a \in Nat, NEW n \in Nat \ {0},
         \A i \in (a + 1)..(a + n) : s[i] \in S
  PROVE  /\ Piece(s, a, n) \in Seq(S) /\ Len(Piece(s, a, n)) = n
         /\ \A k \in 1..n : Piece(s, a, n)[k] = s[a + k]
<1>1. PICK lo \in Int, hi \in Int : lo = a + 1 /\ hi = a + n
  OBVIOUS
<1>2. PICK t : t = SubSeq(s, lo, hi)
  OBVIOUS
<1>3. t = Piece(s, a, n)
  BY <1>1, <1>2 DEF Piece
<1>4. \A i \in lo..hi : s[i] \in S
  BY <1>1
<1>5. /\ t \in Seq(S) /\ Len(t) = IF lo <= hi THEN hi - lo + 1 ELSE 0
      /\ \A i \in 1..(hi - lo + 1) : t[i] = s[lo + i - 1]
  BY <1>2, <1>4, SubSeqProperties
<1>6. lo <= hi /\ hi - lo + 1 = n /\ \A k \in 1..n : lo + k - 1 = a + k
  BY <1>1
<1>7. t \in Seq(S) /\ Len(t) = n /\ \A k \in 1..n : t[k] = s[a + k]
  BY <1>5, <1>6
<1> QED
  BY <1>3, <1>7

(* A piece of a frame holds the bytes of that message from its place on.   *)
LEMMA FramePiece ==
  ASSUME NEW m \in Messages, NEW a \in Nat, NEW n \in Nat \ {0}, a + n <= FrameSize(m)
  PROVE  /\ Piece(FrameOf(m), a, n) \in Seq(Bytes) /\ Len(Piece(FrameOf(m), a, n)) = n
         /\ \A k \in 1..n : Piece(FrameOf(m), a, n)[k] = Byte(m, a + k)
<1>1. \A i \in (a + 1)..(a + n) : FrameOf(m)[i] = Byte(m, i) /\ FrameOf(m)[i] \in Bytes
  BY SizeFacts DEF FrameOf, FrameSize, Byte, Bytes
<1>2. PICK f, B : f = FrameOf(m) /\ B = Bytes
  OBVIOUS
<1>3. \A i \in (a + 1)..(a + n) : f[i] \in B
  BY <1>1, <1>2
<1>4. PICK t : t = Piece(f, a, n)
  OBVIOUS
<1>5. t \in Seq(B) /\ Len(t) = n /\ \A k \in 1..n : t[k] = f[a + k]
  BY <1>3, <1>4, PieceFacts
<1>6. \A k \in 1..n : f[a + k] = Byte(m, a + k)
  BY <1>1, <1>2
<1> QED
  BY <1>2, <1>4, <1>5, <1>6

(* The first p bytes of a frame lie in a sequence of bytes, o bytes in.    *)
Holds(w, o, m, p) ==
  /\ o + p <= Len(w) /\ p <= FrameSize(m)
  /\ \A k \in 1..p : w[o + k] = Byte(m, k)

(* The pieces of both are the same then.                                   *)
LEMMA WirePiece ==
  ASSUME NEW w \in Seq(Bytes), NEW m \in Messages, NEW o \in Nat, NEW p \in Nat,
         Holds(w, o, m, p),
         NEW a \in Nat, NEW n \in Nat \ {0}, a + n <= p, NEW c \in Nat, c = o + a
  PROVE  Piece(w, c, n) = Piece(FrameOf(m), a, n) /\ Piece(w, c, n)[1][1] = m
<1>0. o + p <= Len(w) /\ p <= FrameSize(m) /\ \A k \in 1..p : w[o + k] = Byte(m, k)
  BY DEF Holds
<1>1. \A k \in (c + 1)..(c + n) : w[k] \in Bytes
  <2>1. Len(w) \in Nat
    BY LenProperties
  <2>2. \A k \in (c + 1)..(c + n) : k \in 1..Len(w)
    BY <1>0, <2>1
  <2> QED
    BY <2>2, ElementOfSeq
<1>2. PICK s, t : s = Piece(w, c, n) /\ t = Piece(FrameOf(m), a, n)
  OBVIOUS
<1>3. s \in Seq(Bytes) /\ Len(s) = n /\ \A k \in 1..n : s[k] = w[c + k]
  BY <1>1, <1>2, PieceFacts
<1>4. a + n <= FrameSize(m)
  BY <1>0, SizeFacts
<1>5. t \in Seq(Bytes) /\ Len(t) = n /\ \A k \in 1..n : t[k] = Byte(m, a + k)
  BY <1>2, <1>4, FramePiece
<1>6. ASSUME NEW k \in 1..n PROVE s[k] = t[k] /\ s[k] = Byte(m, a + k)
  <2>1. PICK j \in Nat : j = a + k
    OBVIOUS
  <2>2. c + k = o + j /\ j \in 1..p
    BY <2>1
  <2> QED
    BY <1>0, <1>3, <1>5, <2>1, <2>2
<1>7. s = t
  BY <1>3, <1>5, <1>6, SeqEqual
<1>8. s[1] = Byte(m, a + 1)
  BY <1>6
<1> QED
  BY <1>2, <1>7, <1>8 DEF Byte

(* One send puts the next bytes of its message's frame on the wire.        *)
LEMMA SendFacts ==
  ASSUME Types, SendersInv, NEW m \in Messages, SendSome(m)
  PROVE  \E n \in Nat \ {0} :
           /\ put[m] + n <= FrameSize(m) /\ put' = [put EXCEPT ![m] = put[m] + n]
           /\ phase' = IF put[m] + n = FrameSize(m) THEN [phase EXCEPT ![m] = "sent"] ELSE phase
           /\ wire' \in Seq(Bytes) /\ Len(wire') = Len(wire) + n
           /\ \A i \in 1..Len(wire) : wire'[i] = wire[i]
           /\ \A k \in 1..n : wire'[Len(wire) + k] = Byte(m, put[m] + k)
<1>1. PICK n \in 1..Left(m) :
        /\ wire' = wire \o SubSeq(FrameOf(m), put[m] + 1, put[m] + n)
        /\ put' = [put EXCEPT ![m] = @ + n]
        /\ phase' = IF put'[m] = Header + SizeOf[m] THEN [phase EXCEPT ![m] = "sent"] ELSE phase
  BY DEF SendSome
<1>2. put[m] \in Nat /\ put[m] < FrameSize(m)
  BY SizeFacts DEF SendSome, Types, SendersInv
<1>3. n \in Nat \ {0} /\ put[m] + n <= FrameSize(m)
  BY <1>2, SizeFacts DEF Left, FrameSize
<1>4. put'[m] = put[m] + n
  BY <1>1 DEF Types
<1>5. PICK piece : piece = Piece(FrameOf(m), put[m], n)
  OBVIOUS
<1>6. /\ piece \in Seq(Bytes) /\ Len(piece) = n
      /\ \A k \in 1..n : piece[k] = Byte(m, put[m] + k)
      /\ wire' = wire \o piece /\ wire \in Seq(Bytes) /\ Len(wire) \in Nat
  <2>1. PICK p \in Nat : p = put[m]
    BY <1>2
  <2>2. p + n <= FrameSize(m) /\ piece = Piece(FrameOf(m), p, n)
    BY <1>3, <1>5, <2>1
  <2>3. /\ piece \in Seq(Bytes) /\ Len(piece) = n
        /\ \A k \in 1..n : piece[k] = Byte(m, p + k)
    BY <1>3, <2>2, FramePiece
  <2>4. wire' = wire \o piece
    BY <1>1, <1>5 DEF Piece
  <2>5. wire \in Seq(Bytes) /\ Len(wire) \in Nat
    BY LenProperties DEF Types
  <2> QED
    BY <2>1, <2>3, <2>4, <2>5
<1>7. /\ wire' \in Seq(Bytes) /\ Len(wire') = Len(wire) + n
      /\ \A i \in 1..(Len(wire) + n) :
           wire'[i] = IF i <= Len(wire) THEN wire[i] ELSE piece[i - Len(wire)]
  BY <1>6, ConcatProperties
<1>8. \A i \in 1..Len(wire) : wire'[i] = wire[i]
  BY <1>3, <1>6, <1>7
<1>9. \A k \in 1..n : wire'[Len(wire) + k] = Byte(m, put[m] + k)
  BY <1>3, <1>6, <1>7
<1> QED
  BY <1>1, <1>3, <1>4, <1>7, <1>8, <1>9 DEF FrameSize

-------------------------------------------------------------------------------
(* Facts about states.                                                     *)

(* What the types say of the sequences.                                    *)
LEMMA SeqFacts ==
  ASSUME Types
  PROVE  /\ Len(order) \in Nat /\ DOMAIN order = 1..Len(order)
         /\ Len(got) \in Nat /\ DOMAIN got = 1..Len(got)
         /\ Len(wire) \in Nat
         /\ \A i \in 1..Len(order) : order[i] \in Messages
         /\ \A i \in 1..Len(got) : got[i] \in Messages
<1>1. order \in Seq(Messages) /\ got \in Seq(Messages) /\ wire \in Seq(Bytes)
  BY DEF Types
<1>2. \A i \in 1..Len(order) : order[i] \in Messages
  BY <1>1, ElementOfSeq
<1>3. \A i \in 1..Len(got) : got[i] \in Messages
  BY <1>1, ElementOfSeq
<1> QED
  BY <1>1, <1>2, <1>3, LenProperties

(* As long as the connection holds, all frames but the last are complete.  *)
LEMMA EarlierSent ==
  ASSUME Types, SendersInv, ~broken, NEW i \in 1..Len(order), i # Len(order)
  PROVE  phase[order[i]] = "sent" /\ put[order[i]] = FrameSize(order[i])
<1>1. PICK m \in Messages : m = order[i]
  BY SeqFacts
<1>2. Begun(m) /\ Len(order) \in DOMAIN order /\ i \in DOMAIN order
  <2>1. PICK L \in Nat : L = Len(order) /\ DOMAIN order = 1..L
    BY SeqFacts
  <2>2. i \in 1..L /\ L \in 1..L
    BY <2>1
  <2> QED
    BY <1>1, <2>1, <2>2 DEF Begun
<1>3. phase[m] \in {"sending", "sent", "failed"} /\ phase[m] # "failed"
  BY <1>2 DEF SendersInv
<1>4. phase[m] # "sending"
  BY <1>1, <1>2 DEF SendersInv
<1> QED
  BY <1>1, <1>3, <1>4 DEF SendersInv

(* A client that has taken k bytes more than the messages it got is inside *)
(* the frame of the next message, which has been sent as far at least.     *)
LEMMA CurrentFrame ==
  ASSUME Types, SendersInv, GotInOrder, ~broken, NEW start, LaidOut(start),
         NEW k \in Nat \ {0}, taken = start[Len(got) + 1] + k
  PROVE  /\ Len(got) < Len(order)
         /\ \E m \in Messages, o \in Nat :
              /\ m = order[Len(got) + 1] /\ o = start[Len(got) + 1]
              /\ o + put[m] <= Len(wire) /\ put[m] \in Nat
              /\ k <= put[m] \/ (phase[m] = "sent" /\ put[m] = FrameSize(m))
              /\ \A j \in 1..put[m] : wire[o + j] = Byte(m, j)
<1>1. PICK L \in Nat, n \in Nat : L = Len(order) /\ n = Len(got) /\ n <= L
  BY SeqFacts DEF GotInOrder
<1>2. taken \in 0..Len(wire) /\ Len(wire) \in Nat
  BY SeqFacts DEF Types
<1>3. /\ \A i \in 1..(L + 1) : start[i] \in 0..Len(wire)
      /\ start[L + 1] = Len(wire)
      /\ \A i \in 1..L : start[i + 1] = start[i] + put[order[i]]
      /\ \A i \in 1..L : \A j \in 1..put[order[i]] : wire[start[i] + j] = Byte(order[i], j)
  BY <1>1, SeqFacts DEF LaidOut
<1>4. n < L
  BY <1>1, <1>2, <1>3
<1>5. PICK p \in 1..L : p = n + 1
  BY <1>1, <1>4
<1>6. PICK m \in Messages : m = order[p]
  BY <1>1, <1>5, SeqFacts
<1>7. PICK o \in Nat : o = start[p]
  BY <1>2, <1>3, <1>5
<1>8. start[p + 1] = o + put[m] /\ start[p + 1] \in 0..Len(wire) /\ put[m] \in Nat
  BY <1>3, <1>5, <1>6, <1>7 DEF Types
<1>9. k <= put[m] \/ (phase[m] = "sent" /\ put[m] = FrameSize(m))
  <2>1. CASE p = L
    <3>1. o + put[m] = Len(wire) /\ o + k = taken
      BY <1>1, <1>3, <1>5, <1>7, <1>8, <2>1
    <3>2. PICK w \in Nat, q \in Nat : w = Len(wire) /\ q = put[m]
      BY <1>2, <1>8
    <3>3. o + q = w /\ o + k <= w
      BY <1>2, <3>1, <3>2
    <3>4. k <= q
      BY <3>3
    <3>5. k <= put[m]
      BY <3>2, <3>4, Zenon
    <3> QED
      BY <3>5
  <2>2. CASE p # L
    BY <1>1, <1>5, <1>6, <2>2, EarlierSent
  <2> QED
    BY <2>1, <2>2
<1>10. \A j \in 1..put[m] : wire[o + j] = Byte(m, j)
  BY <1>3, <1>5, <1>6, <1>7
<1>11. o + put[m] <= Len(wire)
  BY <1>2, <1>8
<1>12. m = order[Len(got) + 1] /\ o = start[Len(got) + 1] /\ Len(got) < Len(order)
  BY <1>1, <1>4, <1>5, <1>6, <1>7
<1> QED
  BY <1>8, <1>9, <1>10, <1>11, <1>12

(* The client reads the length of the next message, ...                    *)
LEMMA SizeRead ==
  ASSUME IInv, ReadSize
  PROVE  /\ Len(got) < Len(order)
         /\ size' = SizeOf[order[Len(got) + 1]]
         /\ \E start : LaidOut(start) /\ taken = start[Len(got) + 1] + Header
<1>1. Types /\ SendersInv /\ GotInOrder /\ ~broken /\ need = 0 /\ size = 0
  BY DEF IInv, FramesInv, ReadSize
<1>2. PICK start : LaidOut(start) /\ ReadingAt(start)
  BY DEF IInv, FramesInv, ReadSize
<1>3. Header \in Nat \ {0}
  BY SizeAssumption
<1>4. taken = start[Len(got) + 1] + Header
  <2>1. PICK s : s = start[Len(got) + 1]
    OBVIOUS
  <2>2. Len(got) < Len(order) => SizeOf[order[Len(got) + 1]] \in Nat \ {0}
    BY <1>1, SeqFacts, SizeFacts
  <2>3. taken = s + Header - need
    BY <1>1, <1>2, <2>1, <2>2 DEF ReadingAt
  <2>4. s \in Nat
    BY <1>1, <1>2, <2>1, SeqFacts DEF LaidOut, GotInOrder
  <2> QED
    BY <1>1, <1>3, <2>1, <2>3, <2>4
<1>5. PICK m \in Messages, o \in Nat :
        /\ m = order[Len(got) + 1] /\ o = start[Len(got) + 1]
        /\ o + put[m] <= Len(wire) /\ put[m] \in Nat
        /\ Header <= put[m] \/ (phase[m] = "sent" /\ put[m] = FrameSize(m))
        /\ \A j \in 1..put[m] : wire[o + j] = Byte(m, j)
  <2>1. PICK k \in Nat \ {0} : k = Header
    BY <1>3
  <2>2. taken = start[Len(got) + 1] + k
    BY <1>4, <2>1
  <2>3. PICK c \in Messages, d \in Nat :
          /\ c = order[Len(got) + 1] /\ d = start[Len(got) + 1]
          /\ d + put[c] <= Len(wire) /\ put[c] \in Nat
          /\ k <= put[c] \/ (phase[c] = "sent" /\ put[c] = FrameSize(c))
          /\ \A j \in 1..put[c] : wire[d + j] = Byte(c, j)
    BY <1>1, <1>2, <2>2, CurrentFrame, SMTT(30)
  <2>4. Header <= put[c] \/ (phase[c] = "sent" /\ put[c] = FrameSize(c))
    BY <2>1, <2>3
  <2> QED
    BY <2>3, <2>4
<1>6. Header <= put[m] /\ put[m] <= FrameSize(m)
  BY <1>1, <1>5, SizeFacts DEF SendersInv
<1>7. Piece(wire, o, Header) = Piece(FrameOf(m), 0, Header) /\ Piece(wire, o, Header)[1][1] = m
  <2>1. PICK p \in Nat : p = put[m]
    BY <1>5
  <2>2. PICK w \in Seq(Bytes) : w = wire
    BY <1>1 DEF Types
  <2>3. PICK a \in Nat : a = 0
    OBVIOUS
  <2>4. PICK h \in Nat \ {0} : h = Header
    BY <1>3
  <2>5. Holds(w, o, m, p)
    BY <1>5, <1>6, <2>1, <2>2 DEF Holds
  <2>6. a + h <= p
    BY <1>6, <2>1, <2>3, <2>4
  <2>7. PICK c \in Nat : c = o + a
    BY <1>5
  <2>8. Piece(w, c, h) = Piece(FrameOf(m), a, h) /\ Piece(w, c, h)[1][1] = m
    BY <2>5, <2>6, <2>7, WirePiece, SMTT(30)
  <2>9. c = o
    BY <2>3, <2>7
  <2> QED
    BY <2>2, <2>3, <2>4, <2>8, <2>9
<1>8. size' = SizeOf[m]
  <2>1. taken - Header + 1 = o + 1 /\ taken = o + Header
    BY <1>3, <1>4, <1>5
  <2>2. SubSeq(wire, taken - Header + 1, taken) = Piece(wire, o, Header)
    BY <2>1 DEF Piece
  <2>3. SubSeq(FrameOf(m), 1, Header) = Piece(FrameOf(m), 0, Header)
    <3>1. 0 + 1 = 1 /\ 0 + Header = Header
      BY <1>3
    <3> QED
      BY <3>1 DEF Piece
  <2> QED
    BY <1>7, <2>2, <2>3 DEF ReadSize
<1>9. Len(got) < Len(order)
  <2>1. PICK k \in Nat \ {0} : k = Header
    BY <1>3
  <2>2. taken = start[Len(got) + 1] + k
    BY <1>4, <2>1
  <2> QED
    BY <1>1, <1>2, <2>2, CurrentFrame, SMTT(30)
<1> QED
  BY <1>2, <1>4, <1>5, <1>8, <1>9

(* ... and then its body, which parses: the message had been sent.         *)
LEMMA BodyRead ==
  ASSUME IInv, ReadBody
  PROVE  /\ Len(got) < Len(order)
         /\ phase[order[Len(got) + 1]] = "sent"
         /\ got' = Append(got, order[Len(got) + 1]) /\ stopped' = FALSE
         /\ \E start : /\ LaidOut(start)
                       /\ taken = start[Len(got) + 1] + FrameSize(order[Len(got) + 1])
<1>1. Types /\ SendersInv /\ GotInOrder /\ ~broken /\ need = 0 /\ size > 0
  BY DEF IInv, FramesInv, ReadBody
<1>2. PICK start : LaidOut(start) /\ ReadingAt(start)
  BY DEF IInv, FramesInv, ReadBody
<1>3. /\ Len(got) < Len(order) /\ size = SizeOf[order[Len(got) + 1]]
      /\ taken = start[Len(got) + 1] + Header + size - need
  BY <1>1, <1>2 DEF ReadingAt
<1>4. PICK m \in Messages : m = order[Len(got) + 1]
  BY <1>1, <1>3, SeqFacts
<1>5. PICK h \in Nat \ {0}, b \in Nat \ {0} :
        h = Header /\ b = size /\ b = SizeOf[m] /\ h + b = FrameSize(m)
  BY <1>3, <1>4, SizeFacts DEF FrameSize
<1>6. PICK o \in Nat : o = start[Len(got) + 1]
  <2>1. PICK n \in Nat, L \in Nat : n = Len(got) /\ L = Len(order) /\ n < L
    BY <1>1, <1>3, SeqFacts
  <2>2. start[n + 1] \in 0..Len(wire)
    BY <1>2, <2>1 DEF LaidOut
  <2> QED
    BY <1>1, <2>1, <2>2, SeqFacts
<1>7. PICK k \in Nat \ {0} : k = h + b /\ taken = o + k /\ taken = start[Len(got) + 1] + k
  <2>1. taken = o + Header + size - need
    BY <1>3, <1>6
  <2>2. taken = o + h + b - 0
    BY <1>1, <1>5, <2>1, Zenon
  <2>3. PICK k \in Nat \ {0} : k = h + b
    BY <1>5
  <2> QED
    BY <1>6, <2>2, <2>3
<1>8. /\ o + put[m] <= Len(wire) /\ put[m] \in Nat
      /\ h + b <= put[m] \/ (phase[m] = "sent" /\ put[m] = FrameSize(m))
      /\ \A j \in 1..put[m] : wire[o + j] = Byte(m, j)
  <2>1. PICK c \in Messages, d \in Nat :
          /\ c = order[Len(got) + 1] /\ d = start[Len(got) + 1]
          /\ d + put[c] <= Len(wire) /\ put[c] \in Nat
          /\ k <= put[c] \/ (phase[c] = "sent" /\ put[c] = FrameSize(c))
          /\ \A j \in 1..put[c] : wire[d + j] = Byte(c, j)
    BY <1>1, <1>2, <1>7, CurrentFrame, SMTT(30)
  <2>2. c = m /\ d = o
    BY <1>4, <1>6, <2>1
  <2> QED
    BY <1>7, <2>1, <2>2
<1>9. put[m] <= FrameSize(m) /\ FrameSize(m) \in Nat
  BY <1>1, SizeFacts DEF SendersInv
<1>10. put[m] = FrameSize(m) /\ phase[m] = "sent"
  <2>1. put[m] = FrameSize(m)
    BY <1>5, <1>8, <1>9
  <2> QED
    BY <1>1, <2>1 DEF SendersInv
<1>11. PICK c \in Nat : c = o + h
  BY <1>5
<1>12. Piece(wire, c, b) = Piece(FrameOf(m), h, b) /\ Piece(wire, c, b)[1][1] = m
  <2>1. PICK p \in Nat : p = FrameSize(m)
    BY <1>9
  <2>2. PICK w \in Seq(Bytes) : w = wire
    BY <1>1 DEF Types
  <2>3. Holds(w, o, m, p)
    BY <1>8, <1>9, <1>10, <2>1, <2>2 DEF Holds
  <2>4. h + b <= p
    BY <1>5, <2>1
  <2>5. Piece(w, c, b) = Piece(FrameOf(m), h, b) /\ Piece(w, c, b)[1][1] = m
    BY <1>5, <1>11, <2>3, <2>4, WirePiece, SMTT(30)
  <2> QED
    BY <2>2, <2>5
<1>13. SubSeq(wire, taken - size + 1, taken) = Piece(wire, c, b)
  <2>1. taken = c + b
    BY <1>5, <1>7, <1>11
  <2>2. taken - size + 1 = c + 1
    BY <1>5, <2>1
  <2> QED
    BY <2>1, <2>2 DEF Piece
<1>14. SubSeq(FrameOf(m), Header + 1, Header + SizeOf[m]) = Piece(FrameOf(m), h, b)
  BY <1>5 DEF Piece
<1>15. got' = Append(got, m) /\ stopped' = FALSE
  BY <1>12, <1>13, <1>14 DEF ReadBody
<1>16. taken = start[Len(got) + 1] + FrameSize(m)
  BY <1>5, <1>7
<1> QED
  BY <1>2, <1>3, <1>4, <1>10, <1>15, <1>16

-------------------------------------------------------------------------------
(* The parts of the invariant.                                             *)

(* Every step keeps the types.                                             *)
LEMMA TypesStep ==
  ASSUME IInv, [Next]_vars
  PROVE  Types'
<1>1. Types /\ SendersInv
  BY DEF IInv
<1>2. CASE UNCHANGED vars
  BY <1>1, <1>2 DEF Types, vars, server, client
<1>3. ASSUME NEW m \in Messages, BeginSend(m) PROVE Types'
  <2>1. order' \in Seq(Messages)
    BY <1>1, <1>3, AppendProperties DEF Types, BeginSend
  <2> QED
    BY <1>1, <1>3, <2>1 DEF Types, BeginSend, client
<1>4. ASSUME NEW m \in Messages, SkipTask(m) PROVE Types'
  BY <1>1, <1>4 DEF Types, SkipTask, client
<1>5. ASSUME NEW m \in Messages, SendSome(m) PROVE Types'
  <2>1. PICK n \in Nat \ {0} :
          /\ put' = [put EXCEPT ![m] = put[m] + n]
          /\ phase' = IF put[m] + n = FrameSize(m) THEN [phase EXCEPT ![m] = "sent"] ELSE phase
          /\ wire' \in Seq(Bytes) /\ Len(wire') = Len(wire) + n
    BY <1>1, <1>5, SendFacts
  <2>2. put' \in [Messages -> Nat]
    BY <1>1, <2>1 DEF Types
  <2>3. phase' \in [Messages -> {"new", "sending", "sent", "failed", "skipped"}]
    BY <1>1, <2>1 DEF Types
  <2>4. taken' \in 0..Len(wire')
    BY <1>1, <1>5, <2>1, SeqFacts DEF Types, SendSome, client
  <2>5. UNCHANGED <<order, got, need, size, broken, stopped>>
    BY <1>5 DEF SendSome, client
  <2> QED
    BY <1>1, <2>1, <2>2, <2>3, <2>4, <2>5 DEF Types
<1>6. ASSUME NEW m \in Messages, SendFails(m) PROVE Types'
  BY <1>1, <1>6 DEF Types, SendFails, client
<1>7. ASSUME Close \/ Die \/ Break \/ ReadEnd PROVE Types'
  BY <1>1, <1>7 DEF Types, Close, Die, Break, ReadEnd, server, client
<1>8. ASSUME ReadSome PROVE Types'
  <2>1. PICK n \in 1..need : n <= InFlight /\ taken' = taken + n /\ need' = need - n
    BY <1>8 DEF ReadSome
  <2>2. taken' \in 0..Len(wire) /\ need' \in Nat
    BY <1>1, <2>1, SeqFacts DEF Types, InFlight
  <2> QED
    BY <1>1, <1>8, <2>2 DEF Types, ReadSome, server
<1>9. ASSUME ReadSize PROVE Types'
  <2>1. PICK m : m = order[Len(got) + 1]
    OBVIOUS
  <2>2. m \in Messages /\ size' = SizeOf[m]
    BY <1>1, <1>9, <2>1, SizeRead, SeqFacts
  <2>3. size' \in Nat /\ need' \in Nat
    BY <1>9, <2>2, SizeFacts DEF ReadSize
  <2> QED
    BY <1>1, <1>9, <2>3 DEF Types, ReadSize, server
<1>10. ASSUME ReadBody PROVE Types'
  <2>1. PICK m \in Messages : got' = Append(got, m) /\ stopped' = FALSE
    BY <1>1, <1>10, BodyRead, SeqFacts
  <2>2. got' \in Seq(Messages) /\ stopped' \in BOOLEAN
    BY <1>1, <2>1, AppendProperties DEF Types
  <2>3. need' \in Nat /\ size' \in Nat
    BY <1>10, SizeAssumption DEF ReadBody
  <2> QED
    BY <1>1, <1>10, <2>2, <2>3 DEF Types, ReadBody, server
<1> QED
  BY <1>2, <1>3, <1>4, <1>5, <1>6, <1>7, <1>8, <1>9, <1>10 DEF Next

(* A message that is begun is the last of those begun, and no other.       *)
LEMMA BeginFacts ==
  ASSUME Types, SendersInv, NEW m \in Messages, BeginSend(m)
  PROVE  /\ Len(order') = Len(order) + 1 /\ DOMAIN order' = 1..(Len(order) + 1)
         /\ \A i \in 1..Len(order) : order'[i] = order[i] /\ order[i] # m
         /\ order'[Len(order) + 1] = m
         /\ \A x \in Messages : Begun(x)' <=> Begun(x) \/ x = m
<1>1. order \in Seq(Messages) /\ order' = Append(order, m) /\ phase[m] = "new"
  BY DEF Types, BeginSend
<1>2. PICK L \in Nat : L = Len(order) /\ DOMAIN order = 1..L
  BY SeqFacts
<1>3. /\ order' \in Seq(Messages) /\ Len(order') = L + 1
      /\ \A i \in 1..L : order'[i] = order[i]
      /\ order'[L + 1] = m
  BY <1>1, <1>2, AppendProperties
<1>4. DOMAIN order' = 1..(L + 1)
  BY <1>3, LenProperties
<1>5. ~Begun(m)
  BY <1>1 DEF SendersInv
<1>6. \A i \in 1..L : order[i] # m
  BY <1>2, <1>5 DEF Begun
<1>7. ASSUME NEW x \in Messages PROVE Begun(x)' <=> Begun(x) \/ x = m
  <2>1. ASSUME Begun(x) \/ x = m PROVE Begun(x)'
    <3>1. \E i \in 1..(L + 1) : order'[i] = x
      <4>1. CASE x = m
        BY <1>3, <4>1
      <4>2. CASE Begun(x)
        <5>1. PICK i \in 1..L : order[i] = x
          BY <1>2, <4>2 DEF Begun
        <5>2. i \in 1..(L + 1) /\ order'[i] = x
          BY <1>3, <5>1
        <5> QED
          BY <5>2
      <4> QED
        BY <2>1, <4>1, <4>2
    <3> QED
      BY <1>4, <3>1 DEF Begun
  <2>2. ASSUME Begun(x)', x # m PROVE Begun(x)
    <3>1. PICK i \in 1..(L + 1) : order'[i] = x
      BY <1>4, <2>2 DEF Begun
    <3>2. i \in 1..L /\ order[i] = x
      BY <1>3, <2>2, <3>1
    <3> QED
      BY <1>2, <3>2 DEF Begun
  <2> QED
    BY <2>1, <2>2
<1> QED
  BY <1>2, <1>3, <1>4, <1>6, <1>7

(* Beginning a message: none is being sent, and Finished has not begun.    *)
LEMMA SendersBegin ==
  ASSUME Types, SendersInv, NEW m \in Messages, BeginSend(m)
  PROVE  SendersInv'
<1>1. /\ phase[m] = "new" /\ MayBegin(m) /\ put' = put /\ broken' = broken
      /\ phase' = [phase EXCEPT ![m] = "sending"]
  BY DEF BeginSend
<1>2. \A x \in Messages : phase'[x] = IF x = m THEN "sending" ELSE phase[x]
  BY <1>1 DEF Types
<1>3. PICK L \in Nat : L = Len(order) /\ DOMAIN order = 1..L
  BY SeqFacts
<1>4. /\ Len(order') = L + 1 /\ DOMAIN order' = 1..(L + 1)
      /\ \A i \in 1..L : order'[i] = order[i] /\ order[i] # m
      /\ order'[L + 1] = m
      /\ \A x \in Messages : Begun(x)' <=> Begun(x) \/ x = m
  BY <1>3, BeginFacts
<1>5. /\ Started \in Messages /\ Finished \in Messages /\ Objects \subseteq Messages
      /\ \A o \in Objects : o # Started /\ o # Finished
      /\ Started # Finished
      /\ \A x \in Messages : x \in Objects \/ x = Started \/ x = Finished
  BY MessageAssumption DEF Messages
<1>6. m # Started => phase[Started] = "sent"
  BY <1>1, <1>5 DEF MayBegin
<1>7. phase[Finished] = "new" \/ m = Finished
  <2>1. ASSUME phase[Finished] # "new", m # Finished PROVE FALSE
    <3>1. phase[Started] = "sent"
      BY <2>1, <1>5 DEF SendersInv
    <3>2. m \in Objects
      BY <1>1, <1>5, <2>1, <3>1
    <3> QED
      BY <1>1, <2>1, <3>2 DEF SendersInv, Over
  <2> QED
    BY <2>1
<1>8. \A x \in Messages : phase[x] # "sending"
  <2>1. CASE m = Started
    BY <1>1, <2>1 DEF SendersInv
  <2>2. CASE m # Started
    <3>1. phase[Finished] # "sending"
      BY <1>1, <1>7
    <3>2. \A o \in Objects : phase[o] # "sending"
      BY <1>1, <1>5, <2>2 DEF MayBegin, Over
    <3> QED
      BY <1>5, <1>6, <2>2, <3>1, <3>2
  <2> QED
    BY <2>1, <2>2
<1>9. (\A x \in Messages : Begun(x) <=> phase[x] \in {"sending", "sent", "failed"})'
  BY <1>2, <1>4 DEF SendersInv
<1>10. (\A i, j \in DOMAIN order : order[i] = order[j] => i = j)'
  BY <1>3, <1>4 DEF SendersInv
<1>11. (\A x \in Messages :
          /\ phase[x] = "sending" => x = order[Len(order)]
          /\ phase[x] = "failed" => broken
          /\ phase[x] = "sent" <=> put[x] = FrameSize(x)
          /\ put[x] \in 0..FrameSize(x)
          /\ phase[x] \in {"new", "skipped"} => put[x] = 0)'
  <2>1. phase[m] # "sent" /\ put[m] # FrameSize(m)
    BY <1>1 DEF SendersInv
  <2> QED
    BY <1>1, <1>2, <1>4, <1>8, <2>1 DEF SendersInv, FrameSize
<1>12. (phase[Started] # "sent" => \A x \in Messages \ {Started} : phase[x] = "new")'
  BY <1>1, <1>2, <1>5, <1>6 DEF SendersInv
<1>13. (phase[Finished] # "new" =>
         order[Len(order)] = Finished /\ \A o \in Objects : Over(o))'
  <2>1. CASE m = Finished
    <3>1. \A o \in Objects : Over(o) /\ phase'[o] = phase[o]
      BY <1>1, <1>2, <1>5, <2>1 DEF MayBegin
    <3> QED
      BY <1>4, <2>1, <3>1 DEF Over
  <2>2. CASE m # Finished
    BY <1>2, <1>5, <1>7, <2>2
  <2> QED
    BY <2>1, <2>2
<1> QED
  BY <1>9, <1>10, <1>11, <1>12, <1>13 DEF SendersInv

(* A step of one message that begins none: its frame grows, or its sending *)
(* is over, and every part that speaks of other messages is as it was.     *)
LEMMA SendersOne ==
  ASSUME Types, SendersInv, NEW m \in Messages, UNCHANGED order, broken => broken',
         \A x \in Messages \ {m} : phase'[x] = phase[x] /\ put'[x] = put[x],
         \/ phase[m] = "sending" /\ phase'[m] \in {"sending", "sent", "failed"}
         \/ m \in Objects /\ phase[m] = "new" /\ phase'[m] = "skipped"
            /\ phase[Started] = "sent" /\ put'[m] = put[m],
         phase'[m] = "failed" => broken',
         phase'[m] = "sent" <=> put'[m] = FrameSize(m),
         put'[m] \in 0..FrameSize(m)
  PROVE  SendersInv'
<1>1. /\ Started \in Messages /\ Finished \in Messages /\ Objects \subseteq Messages
      /\ \A o \in Objects : o # Started /\ o # Finished
      /\ Started # Finished
  BY MessageAssumption DEF Messages
<1>2. (\A x \in Messages : Begun(x) <=> phase[x] \in {"sending", "sent", "failed"})'
  BY DEF SendersInv, Begun
<1>3. (\A i, j \in DOMAIN order : order[i] = order[j] => i = j)'
  BY DEF SendersInv
<1>4. (\A x \in Messages :
          /\ phase[x] = "sending" => x = order[Len(order)]
          /\ phase[x] = "failed" => broken
          /\ phase[x] = "sent" <=> put[x] = FrameSize(x)
          /\ put[x] \in 0..FrameSize(x)
          /\ phase[x] \in {"new", "skipped"} => put[x] = 0)'
  BY DEF SendersInv, FrameSize
<1>5. (phase[Started] # "sent" => \A x \in Messages \ {Started} : phase[x] = "new")'
  BY <1>1 DEF SendersInv
<1>6. (phase[Finished] # "new" =>
         order[Len(order)] = Finished /\ \A o \in Objects : Over(o))'
  BY <1>1 DEF SendersInv, Over
<1> QED
  BY <1>2, <1>3, <1>4, <1>5, <1>6 DEF SendersInv

(* Every step keeps the senders in order.                                  *)
LEMMA SendersStep ==
  ASSUME Types, SendersInv, [Next]_vars
  PROVE  SendersInv'
<1>1. CASE UNCHANGED <<phase, put, order>> /\ (broken => broken')
  BY <1>1 DEF SendersInv, Begun, Over, FrameSize
<1>2. ASSUME NEW m \in Messages, SkipTask(m) PROVE SendersInv'
  <2>1. /\ m \in Objects /\ phase[m] = "new" /\ phase[Started] = "sent"
        /\ phase' = [phase EXCEPT ![m] = "skipped"]
        /\ UNCHANGED <<put, order, broken>>
    BY <1>2 DEF SkipTask
  <2>2. phase'[m] = "skipped" /\ \A x \in Messages \ {m} : phase'[x] = phase[x]
    BY <2>1 DEF Types
  <2>3. put[m] \in 0..FrameSize(m) /\ put[m] # FrameSize(m)
    BY <2>1 DEF SendersInv
  <2> QED
    BY <2>1, <2>2, <2>3, SendersOne
<1>3. ASSUME NEW m \in Messages, SendSome(m) PROVE SendersInv'
  <2>1. PICK n \in Nat \ {0} :
          /\ put[m] + n <= FrameSize(m) /\ put' = [put EXCEPT ![m] = put[m] + n]
          /\ phase' = IF put[m] + n = FrameSize(m) THEN [phase EXCEPT ![m] = "sent"] ELSE phase
    BY <1>3, SendFacts
  <2>2. phase[m] = "sending" /\ UNCHANGED <<order, broken>>
    BY <1>3 DEF SendSome
  <2>3. put'[m] = put[m] + n /\ \A x \in Messages \ {m} : put'[x] = put[x]
    BY <2>1 DEF Types
  <2>4. /\ phase'[m] = IF put[m] + n = FrameSize(m) THEN "sent" ELSE "sending"
        /\ \A x \in Messages \ {m} : phase'[x] = phase[x]
    BY <2>1, <2>2 DEF Types
  <2>5. put'[m] \in 0..FrameSize(m)
    BY <2>1, <2>3, SizeFacts DEF Types
  <2>6. phase'[m] = "sent" <=> put'[m] = FrameSize(m)
    BY <2>3, <2>4
  <2>7. phase'[m] \in {"sending", "sent"}
    BY <2>4
  <2> QED
    BY <2>2, <2>3, <2>4, <2>5, <2>6, <2>7, SendersOne
<1>4. ASSUME NEW m \in Messages, SendFails(m) PROVE SendersInv'
  <2>1. /\ phase[m] = "sending" /\ broken /\ phase' = [phase EXCEPT ![m] = "failed"]
        /\ UNCHANGED <<put, order, broken>>
    BY <1>4 DEF SendFails
  <2>2. phase'[m] = "failed" /\ \A x \in Messages \ {m} : phase'[x] = phase[x]
    BY <2>1 DEF Types
  <2>3. put[m] \in 0..FrameSize(m) /\ put[m] # FrameSize(m)
    BY <2>1 DEF SendersInv
  <2> QED
    BY <2>1, <2>2, <2>3, SendersOne
<1>5. CASE UNCHANGED vars
  BY <1>1, <1>5 DEF vars, server
<1>6. CASE Close \/ Die \/ ReadSome \/ ReadSize \/ ReadBody \/ ReadEnd \/ Break
  BY <1>1, <1>6 DEF Close, Die, ReadSome, ReadSize, ReadBody, ReadEnd, Break, server
<1> QED
  BY <1>2, <1>3, <1>4, <1>5, <1>6, SendersBegin DEF Next

(* Where the client is depends on one entry of start only.                 *)
LEMMA ReadingMoved ==
  ASSUME Types, NEW s, NEW t, ReadingAt(s), t[Len(got) + 1] = s[Len(got) + 1],
         UNCHANGED <<got, size, need, taken>>,
         Len(got) < Len(order) =>
           Len(got) < Len(order') /\ order'[Len(got) + 1] = order[Len(got) + 1]
  PROVE  ReadingAt(t)'
BY DEF ReadingAt

(* Beginning a message begins an empty frame at the end of the wire.       *)
LEMMA FramesBegin ==
  ASSUME IInv, NEW m \in Messages, BeginSend(m)
  PROVE  FramesInv'
<1>1. /\ Types /\ SendersInv /\ GotInOrder
      /\ phase[m] = "new" /\ put[m] = 0 /\ phase' = [phase EXCEPT ![m] = "sending"]
      /\ UNCHANGED <<put, wire, client, broken>>
  BY DEF IInv, FramesInv, BeginSend, SendersInv
<1>2. PICK L \in Nat : L = Len(order) /\ DOMAIN order = 1..L
  BY <1>1, SeqFacts
<1>3. PICK n \in Nat : n = Len(got) /\ DOMAIN got = 1..n /\ n <= L
  BY <1>1, <1>2, SeqFacts DEF GotInOrder
<1>4. /\ Len(order') = L + 1 /\ DOMAIN order' = 1..(L + 1)
      /\ \A i \in 1..L : order'[i] = order[i]
      /\ order'[L + 1] = m
  BY <1>1, <1>2, BeginFacts
<1>5. PICK W \in Nat : W = Len(wire)
  BY <1>1, SeqFacts
<1>6. PICK start : LaidOut(start) /\ (broken \/ stopped \/ ReadingAt(start))
  BY DEF IInv, FramesInv
<1>7. /\ start \in [1..(L + 1) -> 0..W] /\ start[1] = 0 /\ start[L + 1] = W
      /\ \A i \in 1..L : start[i + 1] = start[i] + put[order[i]]
      /\ \A i \in 1..L : \A k \in 1..put[order[i]] : wire[start[i] + k] = Byte(order[i], k)
  BY <1>2, <1>5, <1>6 DEF LaidOut
<1>8. PICK t : t = [i \in 1..(L + 2) |-> IF i = L + 2 THEN W ELSE start[i]]
  OBVIOUS
<1>9. /\ t \in [1..(L + 2) -> 0..W] /\ t[L + 2] = W
      /\ \A i \in 1..(L + 1) : t[i] = start[i]
  BY <1>5, <1>7, <1>8
<1>10. LaidOut(t)'
  <2>1. t \in [1..(Len(order') + 1) -> 0..Len(wire')]
    BY <1>1, <1>4, <1>5, <1>9
  <2>2. t[1] = 0 /\ Len(wire') = t[Len(order') + 1]
    BY <1>1, <1>4, <1>5, <1>7, <1>9
  <2>3. ASSUME NEW i \in 1..L
        PROVE  /\ t[i + 1] = t[i] + put'[order'[i]]
               /\ \A k \in 1..put'[order'[i]] : wire'[t[i] + k] = Byte(order'[i], k)
    <3>1. t[i] = start[i] /\ t[i + 1] = start[i + 1] /\ order'[i] = order[i]
      BY <1>4, <1>9
    <3> QED
      BY <1>1, <1>7, <3>1
  <2>4. /\ t[L + 1 + 1] = t[L + 1] + put'[order'[L + 1]]
        /\ \A k \in 1..put'[order'[L + 1]] : wire'[t[L + 1] + k] = Byte(order'[L + 1], k)
    BY <1>1, <1>4, <1>7, <1>9
  <2>5. \A i \in DOMAIN order' :
          /\ t[i + 1] = t[i] + put'[order'[i]]
          /\ \A k \in 1..put'[order'[i]] : wire'[t[i] + k] = Byte(order'[i], k)
    <3>1. \A i \in 1..(L + 1) : i \in 1..L \/ i = L + 1
      OBVIOUS
    <3> QED
      BY <1>4, <2>3, <2>4, <3>1
  <2> QED
    BY <2>1, <2>2, <2>5 DEF LaidOut, Byte
<1>11. GotInOrder'
  <2>1. Len(got') <= Len(order')
    BY <1>1, <1>3, <1>4 DEF client
  <2>2. ASSUME NEW i \in 1..n PROVE got'[i] = order'[i] /\ phase'[got'[i]] = "sent"
    <3>1. got[i] = order[i] /\ phase[got[i]] = "sent" /\ got[i] # m
      BY <1>1, <1>3 DEF GotInOrder
    <3>2. order'[i] = order[i] /\ got' = got
      BY <1>1, <1>3, <1>4 DEF client
    <3>3. phase'[got[i]] = phase[got[i]]
      BY <1>1, <1>3, <3>1, SeqFacts DEF Types
    <3> QED
      BY <3>1, <3>2, <3>3
  <2> QED
    BY <1>1, <1>3, <2>1, <2>2 DEF GotInOrder, client
<1>12. broken' \/ stopped' \/ ReadingAt(t)'
  <2>1. CASE broken \/ stopped
    BY <1>1, <2>1 DEF client
  <2>2. CASE ReadingAt(start)
    <3>1. t[n + 1] = start[n + 1]
      BY <1>3, <1>9
    <3>2. n < L => n < Len(order') /\ order'[n + 1] = order[n + 1]
      BY <1>3, <1>4
    <3> QED
      BY <1>1, <1>2, <1>3, <2>2, <3>1, <3>2, ReadingMoved DEF client
  <2> QED
    BY <1>6, <2>1, <2>2
<1> QED
  BY <1>10, <1>11, <1>12 DEF FramesInv

(* A send lengthens the last frame, which the client has not got.          *)
LEMMA FramesSend ==
  ASSUME IInv, NEW m \in Messages, SendSome(m)
  PROVE  FramesInv'
<1>1. /\ Types /\ SendersInv /\ GotInOrder /\ phase[m] = "sending"
      /\ UNCHANGED <<order, client, broken>>
  BY DEF IInv, FramesInv, SendSome
<1>2. PICK d \in Nat \ {0} :
        /\ put[m] + d <= FrameSize(m) /\ put' = [put EXCEPT ![m] = put[m] + d]
        /\ phase' = IF put[m] + d = FrameSize(m) THEN [phase EXCEPT ![m] = "sent"] ELSE phase
        /\ wire' \in Seq(Bytes) /\ Len(wire') = Len(wire) + d
        /\ \A i \in 1..Len(wire) : wire'[i] = wire[i]
        /\ \A k \in 1..d : wire'[Len(wire) + k] = Byte(m, put[m] + k)
  BY <1>1, SendFacts
<1>3. PICK W \in Nat : W = Len(wire) /\ Len(wire') = W + d
  BY <1>1, <1>2, SeqFacts
<1>4. PICK p \in Nat : p = put[m]
  BY <1>1 DEF Types
<1>5. PICK n \in Nat : n = Len(got) /\ DOMAIN got = 1..n
  BY <1>1, SeqFacts
<1>6. PICK L \in Nat \ {0} :
        /\ L = Len(order) /\ DOMAIN order = 1..L
        /\ order[L] = m /\ \A i \in 1..L : i # L => order[i] # m
  <2>1. PICK L \in Nat : L = Len(order) /\ DOMAIN order = 1..L
    BY <1>1, SeqFacts
  <2>2. L # 0 /\ order[L] = m
    <3>1. \E i \in 1..L : order[i] = m
      BY <1>1, <2>1 DEF SendersInv, Begun
    <3>2. order[L] = m
      BY <1>1, <2>1 DEF SendersInv
    <3> QED
      BY <2>1, <3>1, <3>2
  <2>3. L \in 1..L
    BY <2>1, <2>2
  <2>4. \A i \in 1..L : i # L => order[i] # m
    BY <1>1, <2>1, <2>2, <2>3 DEF SendersInv
  <2> QED
    BY <2>1, <2>2, <2>4
<1>7. n < L
  <2>1. n <= L
    BY <1>1, <1>5, <1>6 DEF GotInOrder
  <2>2. ASSUME n = L PROVE FALSE
    BY <1>1, <1>5, <1>6, <2>2 DEF GotInOrder
  <2> QED
    BY <2>1, <2>2
<1>8. PICK start : LaidOut(start) /\ (broken \/ stopped \/ ReadingAt(start))
  BY DEF IInv, FramesInv
<1>9. /\ start \in [1..(L + 1) -> 0..W] /\ start[1] = 0 /\ start[L + 1] = W
      /\ \A i \in 1..L : start[i + 1] = start[i] + put[order[i]]
      /\ \A i \in 1..L : \A k \in 1..put[order[i]] : wire[start[i] + k] = Byte(order[i], k)
  BY <1>3, <1>6, <1>8 DEF LaidOut
<1>10. PICK t : t = [start EXCEPT ![L + 1] = W + d]
  OBVIOUS
<1>11. /\ t[L + 1] = W + d /\ \A i \in 1..L : t[i] = start[i]
       /\ t \in [1..(L + 1) -> 0..(W + d)]
  BY <1>9, <1>10
<1>12. /\ put'[m] = p + d /\ \A x \in Messages \ {m} : put'[x] = put[x]
       /\ \A i \in 1..W : wire'[i] = wire[i]
       /\ \A k \in 1..d : wire'[W + k] = Byte(m, p + k)
  BY <1>1, <1>2, <1>3, <1>4 DEF Types
<1>13. LaidOut(t)'
  <2>1. t \in [1..(Len(order') + 1) -> 0..Len(wire')]
    BY <1>1, <1>3, <1>6, <1>11
  <2>2. t[1] = 0 /\ Len(wire') = t[Len(order') + 1]
    BY <1>1, <1>3, <1>6, <1>9, <1>11
  <2>3. ASSUME NEW i \in 1..L, i # L
        PROVE  /\ t[i + 1] = t[i] + put'[order[i]]
               /\ \A k \in 1..put'[order[i]] : wire'[t[i] + k] = Byte(order[i], k)
    <3>1. t[i] = start[i] /\ t[i + 1] = start[i + 1]
      BY <1>11, <2>3
    <3>2. order[i] \in Messages /\ put'[order[i]] = put[order[i]]
      BY <1>1, <1>6, <1>12, <2>3, SeqFacts
    <3>3. PICK s \in Nat, e \in 0..W, q \in Nat :
            s = start[i] /\ e = start[i + 1] /\ q = put[order[i]] /\ e = s + q
      <4>1. start[i] \in 0..W /\ start[i + 1] \in 0..W
        BY <1>9
      <4>2. put[order[i]] \in Nat
        BY <1>1, <3>2 DEF Types
      <4>3. start[i + 1] = start[i] + put[order[i]]
        BY <1>9
      <4>4. PICK s \in Nat : s = start[i]
        BY <4>1
      <4>5. PICK q \in Nat : q = put[order[i]]
        BY <4>2
      <4> QED
        BY <4>1, <4>3, <4>4, <4>5
    <3>4. ASSUME NEW k \in 1..q PROVE wire'[s + k] = Byte(order[i], k)
      <4>1. s + k \in 1..W
        BY <3>3
      <4>2. wire'[s + k] = wire[s + k]
        BY <1>12, <4>1
      <4>3. wire[s + k] = Byte(order[i], k)
        BY <1>9, <3>3
      <4> QED
        BY <4>2, <4>3
    <3> QED
      BY <1>9, <3>1, <3>2, <3>3, <3>4
  <2>4. /\ t[L + 1] = t[L] + put'[order[L]]
        /\ \A k \in 1..put'[order[L]] : wire'[t[L] + k] = Byte(order[L], k)
    <3>1. PICK s \in Nat : s = start[L] /\ W = s + p /\ t[L] = s
      BY <1>4, <1>6, <1>9, <1>11
    <3>2. ASSUME NEW k \in 1..(p + d) PROVE wire'[s + k] = Byte(m, k)
      <4>1. CASE k <= p
        <5>1. s + k \in 1..W /\ k \in 1..p
          BY <3>1, <4>1, SMTT(30)
        <5>2. wire'[s + k] = wire[s + k]
          BY <1>12, <5>1
        <5>3. wire[s + k] = Byte(m, k)
          BY <1>4, <1>6, <1>9, <3>1, <5>1, SMTT(30)
        <5> QED
          BY <5>2, <5>3
      <4>2. CASE k > p
        <5>1. PICK j \in 1..d : k = p + j
          BY <4>2
        <5>2. s + k = W + j
          BY <3>1, <5>1
        <5> QED
          BY <1>12, <5>1, <5>2
      <4> QED
        BY <4>1, <4>2
    <3>3. t[L + 1] = s + (p + d)
      BY <1>11, <3>1, SMTT(30)
    <3> QED
      BY <1>6, <1>12, <3>1, <3>2, <3>3
  <2>5. \A i \in DOMAIN order' :
          /\ t[i + 1] = t[i] + put'[order'[i]]
          /\ \A k \in 1..put'[order'[i]] : wire'[t[i] + k] = Byte(order'[i], k)
    BY <1>1, <1>6, <2>3, <2>4
  <2> QED
    BY <2>1, <2>2, <2>5 DEF LaidOut, Byte
<1>14. GotInOrder'
  <2>1. ASSUME NEW i \in 1..n PROVE phase'[got[i]] = "sent"
    <3>1. phase[got[i]] = "sent" /\ got[i] # m /\ got[i] \in Messages
      BY <1>1, <1>5, SeqFacts DEF GotInOrder
    <3> QED
      BY <1>1, <1>2, <3>1 DEF Types
  <2> QED
    BY <1>1, <1>5, <2>1 DEF GotInOrder, client
<1>15. broken' \/ stopped' \/ ReadingAt(t)'
  <2>1. CASE broken \/ stopped
    BY <1>1, <2>1 DEF client
  <2>2. CASE ReadingAt(start)
    <3>1. t[n + 1] = start[n + 1]
      BY <1>7, <1>11
    <3> QED
      BY <1>1, <1>5, <2>2, <3>1, ReadingMoved DEF client
  <2> QED
    BY <1>8, <2>1, <2>2
<1> QED
  BY <1>13, <1>14, <1>15 DEF FramesInv

(* What the client does to get the frames moves none of them.              *)
LEMMA FramesStay ==
  ASSUME IInv, UNCHANGED <<put, wire, order>>, NEW start, LaidOut(start)
  PROVE  LaidOut(start)'
BY DEF LaidOut, Byte

(* The client takes some of the bytes that it needs.                       *)
LEMMA FramesRead ==
  ASSUME IInv, ReadSome
  PROVE  FramesInv'
<1>1. /\ Types /\ GotInOrder /\ ~broken /\ ~stopped
      /\ UNCHANGED <<phase, put, wire, order, got, size, broken, stopped>>
  BY DEF IInv, FramesInv, ReadSome, server
<1>2. PICK start : LaidOut(start) /\ ReadingAt(start)
  BY <1>1 DEF IInv, FramesInv
<1>3. PICK n \in 1..need : taken' = taken + n /\ need' = need - n
  BY DEF ReadSome
<1>4. PICK a \in Nat, b \in Nat : a = need /\ b = taken
  BY <1>1, SeqFacts DEF Types
<1>5. PICK d \in 1..a : d = n
  BY <1>3, <1>4
<1>6. PICK s : s = start[Len(got) + 1]
  OBVIOUS
<1>7. s \in Nat
  BY <1>1, <1>2, <1>6, SeqFacts DEF LaidOut, GotInOrder
<1>8. LaidOut(start)' /\ GotInOrder'
  BY <1>1, <1>2, FramesStay DEF GotInOrder
<1>9. ReadingAt(start)'
  <2>1. CASE size = 0 /\ need \in 0..Header /\ taken = start[Len(got) + 1] + Header - need
    <3>1. PICK h \in Nat : h = Header
      BY SizeAssumption
    <3>2. a \in 0..h /\ b = s + h - a
      BY <1>4, <1>6, <2>1, <3>1
    <3>3. a - d \in 0..h /\ b + d = s + h - (a - d)
      BY <1>5, <1>7, <3>2
    <3> QED
      BY <1>1, <1>3, <1>4, <1>5, <1>6, <2>1, <3>1, <3>3 DEF ReadingAt
  <2>2. CASE /\ Len(got) < Len(order) /\ size = SizeOf[order[Len(got) + 1]]
             /\ need \in 0..size
             /\ taken = start[Len(got) + 1] + Header + size - need
    <3>1. PICK h \in Nat : h = Header
      BY SizeAssumption
    <3>2. PICK z \in Nat : z = size
      BY <1>1 DEF Types
    <3>3. a \in 0..z /\ b = s + h + z - a
      BY <1>4, <1>6, <2>2, <3>1, <3>2
    <3>4. a - d \in 0..z /\ b + d = s + h + z - (a - d)
      BY <1>5, <1>7, <3>3
    <3> QED
      BY <1>1, <1>3, <1>4, <1>5, <1>6, <2>2, <3>1, <3>2, <3>4 DEF ReadingAt
  <2> QED
    BY <1>2, <2>1, <2>2 DEF ReadingAt
<1> QED
  BY <1>8, <1>9 DEF FramesInv

(* It has read the length, and needs the body of the same message.         *)
LEMMA FramesReadSize ==
  ASSUME IInv, ReadSize
  PROVE  FramesInv'
<1>1. /\ Types /\ GotInOrder
      /\ UNCHANGED <<phase, put, wire, order, got, taken>>
      /\ need' = size'
  BY DEF IInv, FramesInv, ReadSize, server
<1>2. PICK start : LaidOut(start) /\ taken = start[Len(got) + 1] + Header
  BY SizeRead
<1>3. Len(got) < Len(order) /\ size' = SizeOf[order[Len(got) + 1]]
  BY SizeRead
<1>4. LaidOut(start)' /\ GotInOrder'
  BY <1>1, <1>2, FramesStay DEF GotInOrder
<1>5. PICK m \in Messages : m = order[Len(got) + 1]
  BY <1>1, <1>3, SeqFacts
<1>6. PICK z \in Nat, h \in Nat : z = SizeOf[m] /\ h = Header
  BY SizeFacts
<1>7. PICK s : s = start[Len(got) + 1]
  OBVIOUS
<1>8. s \in Nat
  BY <1>1, <1>2, <1>7, SeqFacts DEF LaidOut, GotInOrder
<1>9. z \in 0..z /\ s + h = s + h + z - z
  BY <1>6, <1>8
<1>10. size' = z /\ need' = z /\ taken' = s + h + z - z
  BY <1>1, <1>2, <1>3, <1>5, <1>6, <1>7, <1>9
<1>11. ReadingAt(start)'
  BY <1>1, <1>3, <1>5, <1>6, <1>7, <1>9, <1>10 DEF ReadingAt
<1> QED
  BY <1>4, <1>11 DEF FramesInv

(* It has read the body, and is at the beginning of the frame that follows.*)
LEMMA FramesReadBody ==
  ASSUME IInv, ReadBody
  PROVE  FramesInv'
<1>1. /\ Types /\ SendersInv /\ GotInOrder
      /\ UNCHANGED <<phase, put, wire, order, taken>>
      /\ need' = Header /\ size' = 0
  BY DEF IInv, FramesInv, ReadBody, server
<1>2. PICK L \in Nat, n \in Nat :
        /\ L = Len(order) /\ DOMAIN order = 1..L
        /\ n = Len(got) /\ DOMAIN got = 1..n
  BY <1>1, SeqFacts
<1>3. PICK p : p = n + 1
  OBVIOUS
<1>4. n < L /\ p \in 1..L
  BY <1>2, <1>3, BodyRead
<1>5. PICK m \in Messages : m = order[p]
  BY <1>1, <1>2, <1>4, SeqFacts
<1>6. phase[m] = "sent" /\ got' = Append(got, m)
  BY <1>2, <1>3, <1>5, BodyRead
<1>7. PICK start : LaidOut(start) /\ taken = start[p] + FrameSize(m)
  BY <1>2, <1>3, <1>5, BodyRead
<1>8. /\ Len(got') = p /\ DOMAIN got' = 1..p /\ got'[p] = m
      /\ \A i \in 1..n : got'[i] = got[i]
  <2>1. got \in Seq(Messages)
    BY <1>1 DEF Types
  <2> QED
    BY <1>2, <1>3, <1>6, <2>1, AppendProperties, LenProperties
<1>9. GotInOrder'
  <2>1. ASSUME NEW i \in 1..p PROVE got'[i] = order[i] /\ phase[got'[i]] = "sent"
    <3>1. i \in 1..n \/ i = p
      BY <1>3
    <3>2. CASE i \in 1..n
      BY <1>1, <1>2, <1>8, <3>2 DEF GotInOrder
    <3> QED
      BY <1>5, <1>6, <1>8, <3>1, <3>2
  <2> QED
    BY <1>1, <1>2, <1>4, <1>8, <2>1 DEF GotInOrder
<1>10. LaidOut(start)'
  BY <1>1, <1>7, FramesStay
<1>11. start[p + 1] = start[p] + FrameSize(m)
  <2>1. put[m] = FrameSize(m)
    BY <1>1, <1>6 DEF SendersInv
  <2> QED
    BY <1>2, <1>4, <1>5, <1>7, <2>1 DEF LaidOut
<1>12. ReadingAt(start)'
  <2>1. PICK h \in Nat : h = Header
    BY SizeAssumption
  <2>2. PICK b \in Nat : b = taken
    BY <1>1, SeqFacts DEF Types
  <2>3. b = b + h - h /\ h \in 0..h
    BY <2>1, <2>2
  <2>4. taken' = start[p + 1] + Header - need' /\ need' \in 0..Header
    BY <1>1, <1>7, <1>11, <2>1, <2>2, <2>3
  <2> QED
    BY <1>1, <1>8, <2>4 DEF ReadingAt
<1> QED
  BY <1>9, <1>10, <1>12 DEF FramesInv

(* Steps that leave frames and client where they are, or stop one of them. *)
LEMMA FramesOther ==
  ASSUME IInv, UNCHANGED <<put, wire, order, got, taken, need, size>>,
         broken => broken', stopped => stopped',
         \A m \in Messages : phase[m] = "sent" => phase'[m] = "sent"
  PROVE  FramesInv'
<1>1. Types /\ GotInOrder
  BY DEF IInv, FramesInv
<1>2. PICK start : LaidOut(start) /\ (broken \/ stopped \/ ReadingAt(start))
  BY DEF IInv, FramesInv
<1>3. LaidOut(start)'
  BY <1>2, FramesStay
<1>4. GotInOrder'
  BY <1>1, SeqFacts DEF GotInOrder
<1>5. ReadingAt(start) => ReadingAt(start)'
  BY DEF ReadingAt
<1> QED
  BY <1>2, <1>3, <1>4, <1>5 DEF FramesInv

(* Every step keeps the frames and the client's place in them.             *)
LEMMA FramesStep ==
  ASSUME IInv, [Next]_vars
  PROVE  FramesInv'
<1>1. Types
  BY DEF IInv
<1>2. ASSUME NEW m \in Messages, SkipTask(m) \/ SendFails(m) PROVE FramesInv'
  <2>1. /\ UNCHANGED <<put, wire, order, client, broken>>
        /\ \E to : phase' = [phase EXCEPT ![m] = to] /\ phase[m] # "sent"
    BY <1>2 DEF SkipTask, SendFails
  <2>2. \A x \in Messages : phase[x] = "sent" => phase'[x] = "sent"
    BY <1>1, <2>1 DEF Types
  <2> QED
    BY <2>1, <2>2, FramesOther DEF client
<1>3. CASE Close \/ Die \/ ReadEnd \/ Break \/ UNCHANGED vars
  <2>1. /\ UNCHANGED <<phase, put, wire, order, got, taken, need, size>>
        /\ broken => broken'
        /\ stopped => stopped'
    BY <1>3 DEF Close, Die, ReadEnd, Break, vars, server, client
  <2> QED
    BY <2>1, FramesOther
<1> QED
  BY <1>2, <1>3, FramesBegin, FramesSend, FramesRead, FramesReadSize, FramesReadBody
     DEF Next

-------------------------------------------------------------------------------
(* The invariant.                                                          *)

(* At the beginning nothing has been sent.                                 *)
LEMMA InvariantInit ==
  ASSUME Init
  PROVE  IInv
<1>1. Started \in Messages /\ Finished \in Messages
  BY DEF Messages
<1>2. Header \in Nat \ {0}
  BY SizeAssumption
<1>3. wire = << >> /\ order = << >> /\ got = << >> /\ taken = 0
  BY DEF Init
<1>4. /\ Len(wire) = 0 /\ Len(order) = 0 /\ Len(got) = 0
      /\ DOMAIN order = {} /\ DOMAIN got = {}
  BY <1>3
<1>5. wire \in Seq(Bytes) /\ order \in Seq(Messages) /\ got \in Seq(Messages)
  BY <1>3
<1>6. Types
  <2>1. taken \in 0..Len(wire)
    BY <1>3, <1>4
  <2> QED
    BY <1>2, <1>5, <2>1 DEF Types, Init
<1>7. SendersInv
  <2>1. \A m \in Messages : phase[m] = "new" /\ put[m] = 0 /\ FrameSize(m) \in Nat \ {0}
    BY SizeFacts DEF Init
  <2> QED
    BY <1>1, <1>4, <2>1 DEF SendersInv, Begun
<1>8. FramesInv
  <2>1. PICK start : start = [i \in 1..1 |-> 0]
    OBVIOUS
  <2>2. LaidOut(start)
    BY <1>4, <2>1 DEF LaidOut
  <2>3. ReadingAt(start)
    BY <1>2, <1>3, <1>4, <2>1 DEF ReadingAt, Init
  <2>4. GotInOrder
    BY <1>4 DEF GotInOrder
  <2> QED
    BY <2>2, <2>3, <2>4 DEF FramesInv
<1> QED
  BY <1>6, <1>7, <1>8 DEF IInv

(* Every step keeps all of it.                                             *)
LEMMA InvariantStep ==
  ASSUME IInv, [Next]_vars
  PROVE  IInv'
BY TypesStep, SendersStep, FramesStep DEF IInv

(* The frames lie on the wire whole and in order, and the client is in     *)
(* them where it takes itself to be, whatever send and recv return, as     *)
(* long as the connection holds.                                           *)
THEOREM Invariance == Spec => []IInv
<1>1. Init => IInv
  BY InvariantInit
<1>2. IInv /\ [Next]_vars => IInv'
  BY InvariantStep
<1> QED
  BY <1>1, <1>2, PTL DEF Spec

-------------------------------------------------------------------------------
(* What it comes to for the client.                                        *)

(* JobFinished, once read, is the last message that is ever read, and all  *)
(* objects whose sending succeeded have been read before it.               *)
THEOREM FinishedComesLast == Spec => []FinishedIsLast
<1>1. ASSUME IInv PROVE FinishedIsLast
  <2>1. Types /\ SendersInv /\ GotInOrder
    BY <1>1 DEF IInv, FramesInv
  <2>2. PICK L \in Nat, n \in Nat :
          /\ L = Len(order) /\ DOMAIN order = 1..L
          /\ n = Len(got) /\ DOMAIN got = 1..n /\ n <= L
    BY <2>1, SeqFacts DEF GotInOrder
  <2>3. ASSUME NEW i \in 1..n, got[i] = Finished
        PROVE  /\ i = n
               /\ \A o \in Objects : phase[o] = "sent" => \E k \in 1..n : got[k] = o
    <3>1. order[i] = Finished /\ phase[Finished] = "sent"
      BY <2>1, <2>2, <2>3 DEF GotInOrder
    <3>2. order[L] = Finished
      BY <2>1, <2>2, <3>1 DEF SendersInv
    <3>3. i \in 1..L /\ L \in 1..L
      BY <2>2
    <3>4. i = L
      BY <2>1, <2>2, <3>1, <3>2, <3>3 DEF SendersInv
    <3>5. n = L
      BY <2>2, <3>4
    <3>6. ASSUME NEW o \in Objects, phase[o] = "sent" PROVE \E k \in 1..n : got[k] = o
      <4>1. Begun(o)
        BY <2>1, <3>6 DEF SendersInv, Messages
      <4>2. PICK k \in 1..n : order[k] = o
        BY <2>2, <3>5, <4>1 DEF Begun
      <4> QED
        BY <2>1, <2>2, <4>2 DEF GotInOrder
    <3> QED
      BY <3>4, <3>5, <3>6
  <2> QED
    BY <2>2, <2>3 DEF FinishedIsLast
<1> QED
  BY <1>1, Invariance, PTL

(* A step of the connection, seen from outside: a message is begun, the    *)
(* next of those begun is got, or neither.                                 *)
LEMMA ChannelStep ==
  ASSUME IInv, [Next]_vars
  PROVE  [Ch!CNext]_<<order, got>>
<1>1. Types
  BY DEF IInv
<1>2. ASSUME NEW m \in Messages, BeginSend(m) PROVE Ch!Put(m)
  BY <1>2 DEF BeginSend, client, Ch!Put
<1>3. CASE ReadBody
  <2>1. Len(got) < Len(order) /\ got' = Append(got, order[Len(got) + 1])
    BY <1>3, BodyRead
  <2> QED
    BY <1>3, <2>1 DEF ReadBody, server, Ch!Get, Ch!CNext
<1>4. CASE UNCHANGED <<order, got>>
  BY <1>4
<1>5. CASE \/ \E m \in Messages : SkipTask(m) \/ SendSome(m) \/ SendFails(m)
           \/ Close \/ Die \/ ReadSome \/ ReadSize \/ ReadEnd \/ Break \/ UNCHANGED vars
  BY <1>4, <1>5 DEF SkipTask, SendSome, SendFails, Close, Die, ReadSome, ReadSize,
                    ReadEnd, Break, vars, server, client
<1> QED
  BY <1>2, <1>3, <1>5 DEF Next, Ch!CNext

(* The client gets whole messages in the order in which their sending was  *)
(* begun: it never takes the inside of a frame for a length.               *)
THEOREM RefinesChannel == Spec => ImplementsChannel
<1>1. Init => Ch!CInit
  BY DEF Init, Ch!CInit
<1>2. IInv /\ [Next]_vars => [Ch!CNext]_<<order, got>>
  BY ChannelStep
<1>3. Spec => Ch!CInit /\ [][Ch!CNext]_<<order, got>>
  BY <1>1, <1>2, Invariance, PTL DEF Spec
<1> QED
  BY <1>3 DEF ImplementsChannel, Ch!CSpec, Ch!cvars
==============================================================================
