------------------------------ MODULE MCIpFilter ------------------------------
(***************************************************************************)
(* Addresses of three parts, two values each; any one denied range, and    *)
(* one or two of a few allowed ones, among them one that is inverted.      *)
(***************************************************************************)
EXTENDS IpFilter, SequencesExt

MCDenyLists == {<< >>} \cup {<<range>> : range \in Ranges}

Few == {range \in Ranges : range.start[2] = 1 /\ range.start[3] = 0 /\ range.end # None
                           /\ range.end[1] = 1 /\ range.end[2] # range.end[3]}

MCAllowLists == {<<range>> : range \in Few} \cup {<<q, s>> : q, s \in Few}

(* The number that an address stands for.                                  *)
Value(a) == FoldLeft(LAMBDA n, part : n * Base + part, 0, a)

(* The order in which the verdicts are stated is the order of the numbers. *)
ASSUME OrderIsNumeric ==
  \A a, b \in Addresses : NoMore(a, b) <=> Value(a) <= Value(b)
===============================================================================
