------------------------------ MODULE MCFraming ------------------------------
(***************************************************************************)
(* Two objects, lengths of two bytes, bodies of one to three: every call   *)
(* may move one byte or two, so lengths and bodies both come in parts.     *)
(* The file of one object may turn out unreadable.                         *)
(***************************************************************************)
EXTENDS Framing

CONSTANTS o1, o2

MCSizeOf == [m \in {o1, o2, Started, Finished} |->
               CASE m = o1 -> 3 [] m = o2 -> 2 [] OTHER -> 1]
==============================================================================
