------------------------------- MODULE PullJob -------------------------------
(***************************************************************************)
(* What a pull job promises across sessions, without sockets, tasks,       *)
(* crashes or retries: a file is recorded as completed only when the       *)
(* destination holds a whole version of it, a record is never taken back,  *)
(* and a recorded file is not touched again.  NetPull implements this      *)
(* (README.md, "Resuming jobs").                                           *)
(***************************************************************************)
CONSTANTS Files,      (* the files under the pulled directory              *)
          Contents    (* the versions a source file may have               *)

VARIABLES dest,       (* what the destination holds of each file           *)
          recorded    (* the files in the job's log                        *)

pvars == <<dest, recorded>>

PInit == recorded = {}

(* Some part of an unrecorded file is created or written.                  *)
Write(f) ==
  /\ f \notin recorded
  /\ \A g \in Files \ {f} : dest'[g] = dest[g]
  /\ UNCHANGED recorded

Record(f) ==
  /\ dest[f] \in Contents
  /\ recorded' = recorded \cup {f}
  /\ UNCHANGED dest

PNext == \E f \in Files : Write(f) \/ Record(f)

PSpec == PInit /\ [][PNext]_pvars
==============================================================================
