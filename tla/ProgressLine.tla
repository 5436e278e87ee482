------------------------------ MODULE ProgressLine ------------------------------
(***************************************************************************)
(* BuildLine of src/netpull/client/progress_builder.cc: what is put on the *)
(* console line of a task, as the numbers it is made from.                 *)
(*                                                                         *)
(* The progress is done / total, two integers.  A product of doubles that  *)
(* is a whole number may come out just below it, and is then truncated to  *)
(* the one before.                                                         *)
(*                                                                         *)
(* An operator whose comment begins with "Faulty" is not part of the       *)
(* model: it is a plausible bug, kept to show that a property notices it.  *)
(***************************************************************************)
EXTENDS Utf8Width

CONSTANTS Items,     (* the paths that lines are about                     *)
          Terminals, (* the columns of a terminal, 0 if it has no size; 75
                        are assumed if there is none                       *)
          SizeLimit, (* what a size_t cannot count any more: 2^64          *)
          IntMin     (* what an int may be made from what is not a number  *)

ASSUME ItemAssumption == Items \subseteq Seq(CodePoints)

ASSUME NumberAssumption ==
  /\ IntMin \in Int /\ SizeLimit \in Nat
  /\ \A terminal \in Terminals : terminal \in Nat /\ terminal < SizeLimit

-------------------------------------------------------------------------------
(* Integer division and the conversion of a double, towards zero.          *)
Quotient(a, b) ==
  LET n == IF b < 0 THEN -a ELSE a
      d == IF b < 0 THEN -b ELSE b
  IN IF n >= 0 THEN n \div d ELSE (n + d - 1) \div d

(* What the int may be that is made from n times the progress.             *)
Truncated(n, done, total) ==
  IF total = 0 THEN {0, IntMin}
  ELSE LET q == Quotient(n * done, total)
       IN {q} \cup IF q * total = n * done /\ 0 < done /\ done < total /\ q > 0
                   THEN {q - 1} ELSE {}

(* Faulty Place: a digit is blank whatever comes before it.                *)
PlaceOftenBlank(acc, factor) ==
  LET digit == Quotient(acc.rest, factor)
      rest == acc.rest - digit * factor
      blank == digit = 0 /\ factor >= 100
  IN [rest |-> IF rest < 0 THEN 0 ELSE rest,
      zeros |-> acc.zeros /\ digit = 0,
      out |-> acc.out \o (IF factor = 1 THEN <<46>> ELSE << >>)
                      \o <<IF blank THEN 32 ELSE (48 + digit) % 256>>]

(* One turn of the loop of PercentToStringIterator; characters are their   *)
(* codes.                                                                  *)
Place(acc, factor) ==
  LET digit == Quotient(acc.rest, factor)
      rest == acc.rest - digit * factor
      blank == digit = 0 /\ factor >= 100 /\ acc.zeros
  IN [rest |-> IF rest < 0 THEN 0 ELSE rest,
      zeros |-> acc.zeros /\ digit = 0,
      out |-> acc.out \o (IF factor = 1 THEN <<46>> ELSE << >>)
                      \o <<IF blank THEN 32 ELSE (48 + digit) % 256>>]

(* Its four turns.                                                         *)
Places(scaled) ==
  Place(Place(Place(Place([rest |-> scaled, zeros |-> TRUE, out |-> << >>],
                          1000), 100), 10), 1)

PercentToString(scaled) == Places(scaled).out \o <<37>>

(* item_space - kEllipses.size(), a size_t.                                *)
Room(space) == (space - 3) % SizeLimit

(* Faulty Back: the character that does not fit is not given back.         *)
BackTooFar(acc, c, room) ==
  IF acc.stopped THEN acc
  ELSE [width |-> acc.width + c.width, index |-> c.index,
        stopped |-> acc.width + c.width > room]

(* One turn of the loop over the characters from the last, or its end by   *)
(* break, which goes back by one.                                          *)
Back(acc, c, room) ==
  IF acc.stopped \/ acc.width + c.width > room
  THEN [acc EXCEPT !.stopped = TRUE]
  ELSE [width |-> acc.width + c.width, index |-> c.index, stopped |-> FALSE]

(* The loop down to the k-th character, and the whole of it; index is -1   *)
(* as long as there is none.                                               *)
ShownFrom(characters, space) ==
  LET from[k \in 1..(Len(characters) + 1)] ==
        IF k > Len(characters) THEN [width |-> 0, index |-> -1, stopped |-> FALSE]
        ELSE Back(from[k + 1], characters[k], Room(space))
  IN from

Shown(characters, space) == ShownFrom(characters, space)[1]

(* The item_utf8 of a ProgressBuilder for each path.                       *)
item_utf8 == [text \in Items |-> ForString(Bytes(text))]

(* The size of result.                                                     *)
ResultSize(columns) == IF columns * 4 > 15 THEN columns * 4 ELSE 15

(* The lines that BuildLine may return, with the bytes that are written    *)
(* into result: the three of an action, those of an item or of its end, the*)
(* bar and what is around it, the percentage.  If the loop over the        *)
(* characters has ended without a break, or by one at its first character, *)
(* the iterator it leaves points to no character, and what is copied then  *)
(* is not defined; nor is it if the bytes are more than result has.        *)
BuildLine(text, terminal, done, total) ==
  LET characters == item_utf8[text].characters
      columns == terminal - 1
      space == Quotient(columns, 3)
      wide == Width(characters) > space
      tail == Shown(characters, space)
      bar == columns - (4 + space) - 8
      item == IF wide THEN 3 + Len(Bytes(text)) - tail.index
              ELSE Len(Bytes(text)) + space - Width(characters)
      written == 3 + 1 + item + 2 + (IF bar > 0 THEN bar ELSE 0) + 2 + 6
  IN {[text |-> text,
       defined |-> /\ item_utf8[text].returns
                   /\ wide => tail.stopped /\ tail.index >= 0
                   /\ written <= ResultSize(columns),
       written |-> written,
       columns |-> columns,
       from |-> IF wide THEN tail.index ELSE 0,
       pad |-> IF wide THEN 3 ELSE space - Width(characters),
       bar |-> IF bar > 0 THEN bar ELSE 0,
       filled |-> IF filled < 0 \/ bar < 0 THEN 0 ELSE IF filled > bar THEN bar ELSE filled,
       percent |-> PercentToString(scaled),
       done |-> done, total |-> total] :
      filled \in Truncated(bar, done, total), scaled \in Truncated(1000, done, total)}

-------------------------------------------------------------------------------
(* There is no control character in a path: each character has columns.    *)
Printable(text) == \A k \in 1..Len(text) : wcwidth(text[k]) # -1

(* Each has at least one, so that there are no more than four bytes to one.*)
Spacing(text) == \A k \in 1..Len(text) : wcwidth(text[k]) >= 1

(* The columns of a printable path from its k-th character on.             *)
ColumnsFrom(text, k) ==
  LET columns == [j \in 1..Len(text) |-> [index |-> j, width |-> wcwidth(text[j])]]
  IN WidthFrom(columns)[k]

(* The columns that a line takes: action, space, item, space, bracket, bar,*)
(* bracket, space, percentage.                                             *)
LineWidth(line, item) == 2 + item + line.pad + 2 + line.bar + 2 + 6

(* The columns from which on all parts of a line find their place.         *)
WideEnough == 18

(* A value from [0:1], of which BuildLine is meant.                        *)
InRange(line) == 0 < line.total /\ 0 <= line.done /\ line.done <= line.total

(* The line shows the path from some character on, takes all columns but   *)
(* one, or less by the width of a character that had to be cut, and shows  *)
(* as much of the path as fits.                                            *)
Fits(line) ==
  /\ line.defined
  /\ \E k \in 1..(Len(line.text) + 1) :
       /\ line.from = Len(BytesSoFar(line.text)[k - 1])
       /\ LineWidth(line, ColumnsFrom(line.text, k)) \in (line.columns - 1)..line.columns
       /\ k > 1 => ColumnsFrom(line.text, k - 1) + 3 > line.columns \div 3

(* Bar and percentage agree with the progress, to a column and a tenth:    *)
(* six characters, of which only leading zeros are blank.                  *)
TellsProgress(line) ==
  LET digits == <<line.percent[1], line.percent[2], line.percent[3], line.percent[5]>>
      Value(k) == IF digits[k] = 32 THEN 0 ELSE digits[k] - 48
      tenths == 1000 * Value(1) + 100 * Value(2) + 10 * Value(3) + Value(4)
  IN /\ (line.filled - 1) * line.total <= line.bar * line.done
     /\ line.bar * line.done <= (line.filled + 1) * line.total
     /\ Len(line.percent) = 6 /\ line.percent[4] = 46 /\ line.percent[6] = 37
     /\ \A k \in 1..4 : digits[k] = 32 \/ Value(k) \in 0..9
     /\ \A k \in 1..4 : digits[k] = 32 <=> k <= 2 /\ \A j \in 1..k : Value(j) = 0
     /\ tenths * line.total <= 1000 * line.done
     /\ 1000 * line.done <= (tenths + 1) * line.total
=================================================================================
