------------------------------ MODULE AtomicSet ------------------------------
(***************************************************************************)
(* What "a thread-safe wrapper over a flat_hash_set" (guarded_set.h:12)    *)
(* promises: every call takes effect at one instant between its beginning  *)
(* and its end.                                                            *)
(***************************************************************************)
CONSTANTS Threads, Values

VARIABLES members,    (* the set                                           *)
          answer      (* what each thread's last Contains has returned     *)

avars == <<members, answer>>

AInit ==
  /\ members = {}
  /\ answer \in [Threads -> [value : Values, found : BOOLEAN]]

Insert(v) == members' = members \cup {v} /\ UNCHANGED answer

Erase(v) == members' = members \ {v} /\ UNCHANGED answer

Contains(t, v) ==
  /\ answer' = [answer EXCEPT ![t] = [value |-> v, found |-> v \in members]]
  /\ UNCHANGED members

ANext ==
  \/ \E v \in Values : Insert(v) \/ Erase(v)
  \/ \E t \in Threads, v \in Values : Contains(t, v)

ASpec == AInit /\ [][ANext]_avars
==============================================================================
