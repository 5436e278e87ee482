------------------------------- MODULE Utf8Width -------------------------------
(***************************************************************************)
(* Utf8WidthInformation::ForString of src/netpull/client/utf8.cc: the      *)
(* characters of a path, where they begin and how wide they are.           *)
(*                                                                         *)
(* The strings are paths out of proto3 "string" fields, which protobuf     *)
(* parses only if they are well-formed UTF-8, and two constants.  So a     *)
(* string is the encoding of a text, a sequence of code points.            *)
(*                                                                         *)
(* An operator whose comment begins with "Faulty" is not part of the       *)
(* model: it is a plausible bug, kept to show that a property notices it.  *)
(***************************************************************************)
EXTENDS Integers, Sequences

CONSTANT wcwidth(_)  (* the columns a terminal gives to a code point; -1 of
                        a control character, which has no columns but an
                        effect of its own                                  *)

LastCodePoint == 1114111
CodePoints == 0..LastCodePoint

(* The widest characters take two columns.                                 *)
ASSUME ColumnsAssumption == \A c \in CodePoints : wcwidth(c) \in {-1, 0, 1, 2}

(* The bytes of a code point.                                              *)
Encode(c) ==
  LET Lead(mark, unit) == mark + (c \div unit)
      More(unit) == 128 + ((c \div unit) % 64)
  IN IF c < 128 THEN <<c>>
     ELSE IF c < 2048 THEN <<Lead(192, 64), More(1)>>
     ELSE IF c < 65536 THEN <<Lead(224, 4096), More(64), More(1)>>
     ELSE <<Lead(240, 262144), More(4096), More(64), More(1)>>

(* The bytes of the first k code points of a text, and of all of them.     *)
BytesSoFar(text) ==
  LET bytes[k \in 0..Len(text)] ==
        IF k = 0 THEN << >> ELSE bytes[k - 1] \o Encode(text[k])
  IN bytes

Bytes(text) == BytesSoFar(text)[Len(text)]

-------------------------------------------------------------------------------
(* How many bytes the masks say the sequence has that begins with a byte;  *)
(* none of them fits a byte from inside a sequence.                        *)
Size(byte) ==
  IF byte < 128 THEN 1
  ELSE IF byte \div 32 = 6 THEN 2
  ELSE IF byte \div 16 = 14 THEN 3
  ELSE IF byte \div 8 = 30 THEN 4
  ELSE 0

(* The bits of the first byte, and six of each of the others.              *)
Decode(bytes) ==
  LET More(c, k) == c * 64 + (bytes[k] % 64)
  IN IF Len(bytes) = 1 THEN bytes[1]
     ELSE IF Len(bytes) = 2 THEN More(bytes[1] % 32, 2)
     ELSE IF Len(bytes) = 3 THEN More(More(bytes[1] % 16, 2), 3)
     ELSE More(More(More(bytes[1] % 8, 2), 3), 4)

(* What the code counts for a character; there is a warning for a -1.      *)
Columns(c) == IF wcwidth(c) = -1 THEN 0 ELSE wcwidth(c)

(* The character that begins at an offset.                                *)
CharacterAt(str, it) ==
  [index |-> it,
   width |-> Columns(Decode(SubSeq(str, it + 1, it + Size(str[it + 1]))))]

(* The loop from an offset on.  It does not return if it comes to a byte   *)
(* from inside a sequence, or to one with fewer bytes left than it should  *)
(* have, which the "continue" looks at again and again.                    *)
ForString(str) ==
  LET from[it \in 0..Len(str)] ==
        IF it = Len(str) THEN [returns |-> TRUE, characters |-> << >>]
        ELSE IF Size(str[it + 1]) \in 1..(Len(str) - it)
        THEN [from[it + Size(str[it + 1])] EXCEPT !.characters = <<CharacterAt(str, it)>> \o @]
        ELSE [returns |-> FALSE, characters |-> << >>]
  IN from[0]

(* The columns of the characters from the k-th on, and of all of them.     *)
WidthFrom(characters) ==
  LET from[k \in 1..(Len(characters) + 1)] ==
        IF k > Len(characters) THEN 0 ELSE characters[k].width + from[k + 1]
  IN from

Width(characters) == WidthFrom(characters)[1]

(* What ForString should return for a text.                                *)
Described(text) ==
  [returns |-> TRUE,
   characters |-> [k \in 1..Len(text) |->
     [index |-> Len(BytesSoFar(text)[k - 1]), width |-> Columns(text[k])]]]
================================================================================
