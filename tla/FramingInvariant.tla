--------------------------- MODULE FramingInvariant ---------------------------
(***************************************************************************)
(* The inductive invariant of Framing: the frames lie on the wire one      *)
(* after the other, in the order in which they were begun, and the client  *)
(* is always at the place in a frame that it takes itself to be at.        *)
(* FramingProofs proves that, and what follows from it.                    *)
(***************************************************************************)
EXTENDS Framing

(* The size of a frame, and the byte at a place in it.                     *)
FrameSize(m) == Header + SizeOf[m]
Byte(m, k) == <<m, k>>
Bytes == Messages \X Nat

Types ==
  /\ phase \in [Messages -> {"new", "sending", "sent", "failed", "skipped"}]
  /\ put \in [Messages -> Nat]
  /\ wire \in Seq(Bytes)
  /\ order \in Seq(Messages) /\ got \in Seq(Messages)
  /\ taken \in 0..Len(wire) /\ need \in Nat /\ size \in Nat
  /\ broken \in BOOLEAN /\ stopped \in BOOLEAN

(* One message is sent at a time, Started before all others and Finished   *)
(* after them; as long as the connection holds, each is sent to its end.   *)
Begun(m) == \E i \in DOMAIN order : order[i] = m

SendersInv ==
  /\ \A m \in Messages : Begun(m) <=> phase[m] \in {"sending", "sent", "failed"}
  /\ \A i, j \in DOMAIN order : order[i] = order[j] => i = j
  /\ \A m \in Messages :
       /\ phase[m] = "sending" => m = order[Len(order)]
       /\ phase[m] = "failed" => broken
       /\ phase[m] = "sent" <=> put[m] = FrameSize(m)
       /\ put[m] \in 0..FrameSize(m)
       /\ phase[m] \in {"new", "skipped"} => put[m] = 0
  /\ phase[Started] # "sent" => \A m \in Messages \ {Started} : phase[m] = "new"
  /\ phase[Finished] # "new" =>
       order[Len(order)] = Finished /\ \A o \in Objects : Over(o)

(* start[i] bytes of the wire come before the frame of order[i].           *)
LaidOut(start) ==
  /\ start \in [1..(Len(order) + 1) -> 0..Len(wire)]
  /\ start[1] = 0
  /\ \A i \in DOMAIN order :
       /\ start[i + 1] = start[i] + put[order[i]]
       /\ \A k \in 1..put[order[i]] : wire[start[i] + k] = Byte(order[i], k)
  /\ Len(wire) = start[Len(order) + 1]

(* What the client has read, and where it is in the frame that follows.    *)
ReadingAt(start) ==
  LET n == Len(got)
  IN \/ size = 0 /\ need \in 0..Header /\ taken = start[n + 1] + Header - need
     \/ /\ n < Len(order) /\ size = SizeOf[order[n + 1]] /\ need \in 0..size
        /\ taken = start[n + 1] + Header + size - need

GotInOrder ==
  /\ Len(got) <= Len(order)
  /\ \A i \in DOMAIN got : got[i] = order[i] /\ phase[got[i]] = "sent"

FramesInv ==
  /\ GotInOrder
  /\ \E start : LaidOut(start) /\ (broken \/ stopped \/ ReadingAt(start))

IInv == Types /\ SendersInv /\ FramesInv
===============================================================================
