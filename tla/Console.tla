------------------------------- MODULE Console -------------------------------
(***************************************************************************)
(* The console of src/netpull/console.cc as the client uses it: threads    *)
(* claim a line each, update it, and release it; the console thread draws  *)
(* all lines every 100 ms; any thread logs messages, which go above the    *)
(* lines.  The model includes the terminal: rows, and a cursor that is on  *)
(* the last row whenever g_mutex is free.                                  *)
(*                                                                         *)
(* An operator whose comment begins with "Faulty" is not part of the       *)
(* model: it is a plausible bug, kept to show that a property notices it.  *)
(*                                                                         *)
(* Claim, the destructor, DrawAll and LogGenericString hold g_mutex and    *)
(* are one action each.  Update takes no mutex; it begins and ends.  A row *)
(* is one line of text: no content is wider than the terminal, which for   *)
(* tasks is LineFits of StreamTransfer if their paths are printable and the*)
(* terminal is wide enough, and is assumed of the status line; no message  *)
(* and no text, stored halves included, has a newline in it.               *)
(***************************************************************************)
EXTENDS Integers, Sequences

CONSTANTS Threads,   (* the threads that claim lines, and log              *)
          Texts,     (* what Update may be given                           *)
          Empty,     (* the text of a line that has not been updated       *)
          Torn,      (* any other text                                     *)
          MaxLogs    (* bound on messages                                  *)

ASSUME TextAssumption ==
  /\ Empty \notin Texts /\ Torn \notin Texts \cup {Empty}
  /\ MaxLogs \in Nat

VARIABLES
  lines,    (* ConsoleLine::lines, by the thread of each line              *)
  diff,     (* ConsoleLine::diff                                           *)
  content,  (* the text of each thread's line                              *)
  writing,  (* the text an Update is storing, Empty if there is none       *)
  above,    (* the rows above the cursor's, from the top: messages are
               numbers, rows of lines are texts                            *)
  cursor,   (* the row the cursor is on                                    *)
  logs      (* the number of messages so far                               *)

vars == <<lines, diff, content, writing, above, cursor, logs>>

Owners == {lines[i] : i \in DOMAIN lines}

Init ==
  /\ lines = << >> /\ diff = 0 /\ logs = 0
  /\ content = [t \in Threads |-> Empty]
  /\ writing = [t \in Threads |-> Empty]
  /\ above = << >> /\ cursor = Empty

-------------------------------------------------------------------------------
(* Faulty MovesUp: diff is left out.                                       *)
MovesUpOfLines == IF Len(lines) > 0 THEN Len(lines) - 1 ELSE 0

(* The moves of InternalUnsafeEraseOldLines.  lines.size() - diff is       *)
(* unsigned; a negative diff wraps twice and gives the sum.                *)
MovesUp == IF Len(lines) - diff > 0 THEN Len(lines) - diff - 1 ELSE 0

(* The rows that are left above the cursor when it has moved up and        *)
(* everything from there on is cleared; it does not leave the screen.      *)
Kept == SubSeq(above, 1, IF MovesUp < Len(above) THEN Len(above) - MovesUp ELSE 0)

(* What may be drawn for a line whose Update is not over.                  *)
Seen(t) == IF writing[t] = Empty THEN {content[t]} ELSE {content[t], writing[t], Torn}

(* InternalUnsafeDrawAll below the given rows: newlines between the lines, *)
(* none after the last.                                                    *)
Draw(rows) ==
  \E text \in [Owners -> Texts \cup {Empty, Torn}] :
    /\ \A t \in Owners : text[t] \in Seen(t)
    /\ above' = rows \o [i \in 1..(Len(lines) - 1) |-> text[lines[i]]]
    /\ cursor' = IF lines = << >> THEN Empty ELSE text[lines[Len(lines)]]
    /\ diff' = 0

(* ConsoleLine::Claim; a thread has one line at a time.                    *)
Claim(t) ==
  /\ t \notin Owners
  /\ lines' = Append(lines, t) /\ diff' = diff + 1
  /\ content' = [content EXCEPT ![t] = Empty]
  /\ UNCHANGED <<writing, above, cursor, logs>>

(* lines.erase(it).                                                        *)
Without(i) == [k \in 1..(Len(lines) - 1) |-> IF k < i THEN lines[k] ELSE lines[k + 1]]

(* The destructor.                                                         *)
Release(t) ==
  /\ writing[t] = Empty
  /\ \E i \in DOMAIN lines : lines[i] = t /\ lines' = Without(i)
  /\ diff' = diff - 1
  /\ UNCHANGED <<content, writing, above, cursor, logs>>

(* Update, as another thread may see it.                                   *)
BeginUpdate(t, text) ==
  /\ t \in Owners /\ writing[t] = Empty
  /\ writing' = [writing EXCEPT ![t] = text]
  /\ UNCHANGED <<lines, diff, content, above, cursor, logs>>

EndUpdate(t) ==
  /\ writing[t] # Empty
  /\ content' = [content EXCEPT ![t] = writing[t]]
  /\ writing' = [writing EXCEPT ![t] = Empty]
  /\ UNCHANGED <<lines, diff, above, cursor, logs>>

(* DrawAll, which the console thread calls over and over.                  *)
DrawAll == Draw(Kept) /\ UNCHANGED <<lines, content, writing, logs>>

(* LogGenericString, unless the level is switched off.  A thread that logs *)
(* is not inside Update, but others may be.                                *)
Log ==
  /\ logs < MaxLogs
  /\ logs' = logs + 1
  /\ Draw(Append(Kept, logs'))
  /\ UNCHANGED <<lines, content, writing>>

Next ==
  \/ \E t \in Threads :
       \/ Claim(t) \/ Release(t) \/ EndUpdate(t)
       \/ \E text \in Texts : BeginUpdate(t, text)
  \/ DrawAll
  \/ Log

Spec == Init /\ [][Next]_vars
-------------------------------------------------------------------------------
Row == Texts \cup {Empty, Torn}

(* Every variable has its type, no thread has two lines, and a line that   *)
(* is being updated is in the list.                                        *)
TypeOK ==
  /\ lines \in Seq(Threads)
  /\ \A i, k \in DOMAIN lines : lines[i] = lines[k] => i = k
  /\ diff \in Int /\ logs \in 0..MaxLogs
  /\ content \in [Threads -> Texts \cup {Empty}]
  /\ writing \in [Threads -> Texts \cup {Empty}]
  /\ cursor \in Row
  /\ \A t \in Threads : writing[t] # Empty => t \in Owners

(* console.h:75: messages are printed above the lines, and the lines keep  *)
(* their position.  The screen is all the messages in their order, then    *)
(* the rows drawn last and nothing else, whatever lines have been claimed  *)
(* and released since: no message is wiped out, no old row is left behind. *)
MessagesThenLines ==
  /\ \A i \in 1..logs : i \in DOMAIN above /\ above[i] = i
  /\ Len(above) = logs + MovesUp

(* console.h:97: Update sets the contents "with the given text".  What is  *)
(* on display is a text that some line was given.  It does not hold: a     *)
(* line may be drawn while it is stored.                                   *)
DrawnIsWhole == cursor # Torn
==============================================================================
