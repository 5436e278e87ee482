--------------------------- MODULE MCStreamTransfer ---------------------------
(***************************************************************************)
(* An announced size of 4 bits, so 7 is the largest that can be counted, 8 *)
(* to 15 become negative, 16 becomes 0 and 18 becomes 2.                   *)
(*                                                                         *)
(* Paths with sequences of one to four bytes, of up to thirteen columns,   *)
(* with narrow, wide and zero-width characters where they are cut, one with*)
(* a control character and one with more accents than a narrow result has  *)
(* room for; terminals on both sides of the narrowest that is wide enough, *)
(* with every remainder by three, and one without a size.                  *)
(***************************************************************************)
EXTENDS StreamTransfer, SequencesExt

MCSizes == {0, 1, 3, 6, 7, 8, 13, 16, 18}

MCWidth(c) ==
  CASE c \in {10, 127, 128} -> -1
    [] c = 769 -> 0
    [] c \in {20013, 65536} -> 2
    [] OTHER -> 1

MCItems == {<<97, 20013>>,
            <<233, 20013, 769, 97, 65536, 10, 2048>>,
            <<97, 97, 97, 97, 97, 97, 97, 20013>>,
            <<65536, 20013, 20013, 65536, 20013, 97, 20013>>,
            <<233, 20013, 769, 97, 65536, 769, 2048>>,
            <<97>> \o [k \in 1..27 |-> 769]}

MCTerminals == {0, 13, 17, 18, 19, 20, 22, 24, 75}
MCIntMin == -2147483647 - 1

(* The first and the last code point of each length, a control character,  *)
(* a combining accent and an ideograph.                                    *)
Samples == {10, 97, 127, 128, 769, 2047, 2048, 20013, 65535, 65536, 1114111}

(* ForString returns, with the characters of the text, for every text of   *)
(* up to three of them.                                                    *)
ASSUME ForStringDescribes ==
  \A text \in BoundedSeq(Samples, 3) : ForString(Bytes(text)) = Described(text)
===============================================================================
