------------------------------- MODULE IpFilter -------------------------------
(***************************************************************************)
(* The decision of the server's accept loop about the peer of every        *)
(* connection: IpRange::MultiContains of the denied ranges, then of the    *)
(* allowed ones, range by range and in a range part by part, with the      *)
(* early exits of GenericLessThan(other, true).                            *)
(*                                                                         *)
(* An operator whose comment begins with "Faulty" is not part of the       *)
(* model: it is a plausible bug, kept to show that a property notices it.  *)
(***************************************************************************)
EXTENDS Integers, Sequences

CONSTANTS Parts,       (* kNumParts                                        *)
          Base,        (* a part is less than this                         *)
          None,        (* the end of a range that is a single address      *)
          DenyLists,   (* what deny_ip_ranges may be                       *)
          AllowLists   (* what allow_ip_ranges may be; main refuses to run
                          without any                                      *)

Addresses == [1..Parts -> 0..(Base - 1)]
Ranges == [start : Addresses, end : Addresses \cup {None}]

ASSUME SizeAssumption == Parts \in Nat \ {0} /\ Base \in Nat \ {0}

ASSUME ListAssumption ==
  /\ None \notin Addresses
  /\ DenyLists \subseteq Seq(Ranges) /\ AllowLists \subseteq Seq(Ranges) \ {<< >>}

VARIABLES
  deny, allow,  (* deny_ip_ranges and allow_ip_ranges                      *)
  ip,           (* conn->peer()                                            *)
  verdict,      (* none, deny or allow while that list is gone through,
                   denied, refused or admitted                             *)
  r,            (* the range at hand                                       *)
  side,         (* start: start_ <= ip is evaluated, end: ip <= *end_      *)
  i             (* the part at hand                                        *)

lists == <<deny, allow>>
vars == <<lists, ip, verdict, r, side, i>>

Init ==
  /\ deny \in DenyLists /\ allow \in AllowLists
  /\ ip \in Addresses /\ verdict = "none"
  /\ r = 1 /\ side = "start" /\ i = 1

Deciding == verdict \in {"deny", "allow"}
List == IF verdict = "deny" THEN deny ELSE allow

-------------------------------------------------------------------------------
(* A connection is accepted, after whatever happened to the one before.    *)
Accept ==
  /\ ~Deciding
  /\ ip' \in Addresses /\ verdict' = "deny"
  /\ r' = 1 /\ side' = "start" /\ i' = 1
  /\ UNCHANGED lists

(* A comparison is under way; its operands are Left and Right.             *)
Comparing == Deciding /\ r <= Len(List) /\ List[r].end # None
Left == IF side = "start" THEN List[r].start ELSE ip
Right == IF side = "start" THEN ip ELSE List[r].end

Restart == side' = "start" /\ i' = 1

(* MultiContains returns true.                                             *)
Contained ==
  /\ verdict' = IF verdict = "deny" THEN "denied" ELSE "admitted"
  /\ r' = r /\ Restart

(* Contains has returned false.                                            *)
NextRange == r' = r + 1 /\ Restart /\ UNCHANGED verdict

(* Faulty EqualPart: a smaller part does not end the comparison.           *)
EqualPartOrSmaller ==
  /\ Comparing /\ Left[i] <= Right[i] /\ i < Parts
  /\ i' = i + 1
  /\ UNCHANGED <<lists, ip, verdict, r, side>>

(* The parts are equal and there are more.                                 *)
EqualPart ==
  /\ Comparing /\ Left[i] = Right[i] /\ i < Parts
  /\ i' = i + 1
  /\ UNCHANGED <<lists, ip, verdict, r, side>>

(* The comparison yields true: by break, or at the end of the loop.        *)
AtMost ==
  /\ Comparing
  /\ Left[i] < Right[i] \/ (Left[i] = Right[i] /\ i = Parts)
  /\ \/ side = "start" /\ side' = "end" /\ i' = 1 /\ UNCHANGED <<verdict, r>>
     \/ side = "end" /\ Contained
  /\ UNCHANGED <<lists, ip>>

(* The comparison yields false.                                            *)
Greater ==
  /\ Comparing /\ Left[i] > Right[i]
  /\ NextRange
  /\ UNCHANGED <<lists, ip>>

(* A range that is a single address.                                       *)
Single ==
  /\ Deciding /\ r <= Len(List) /\ List[r].end = None
  /\ (ip = List[r].start /\ Contained) \/ (ip # List[r].start /\ NextRange)
  /\ UNCHANGED <<lists, ip>>

(* MultiContains returns false.                                            *)
Exhausted ==
  /\ Deciding /\ r > Len(List)
  /\ verdict' = IF verdict = "deny" THEN "allow" ELSE "refused"
  /\ r' = 1 /\ Restart
  /\ UNCHANGED <<lists, ip>>

Next == Accept \/ EqualPart \/ AtMost \/ Greater \/ Single \/ Exhausted

Spec == Init /\ [][Next]_vars

-------------------------------------------------------------------------------
(* Every variable has its type.                                            *)
TypeOK ==
  /\ deny \in DenyLists /\ allow \in AllowLists
  /\ ip \in Addresses
  /\ verdict \in {"none", "deny", "allow", "denied", "refused", "admitted"}
  /\ r \in Nat \ {0} /\ side \in {"start", "end"} /\ i \in 1..Parts

(* The order of addresses as numbers, the first part the most significant. *)
Below(a, b) ==
  \E k \in 1..Parts : a[k] < b[k] /\ \A j \in 1..(k - 1) : a[j] = b[j]

NoMore(a, b) == a = b \/ Below(a, b)

Within(a, range) ==
  IF range.end = None THEN a = range.start
  ELSE NoMore(range.start, a) /\ NoMore(a, range.end)

InSome(list, a) == \E n \in DOMAIN list : Within(a, list[n])

(* A connection is let in exactly if no denied range holds its peer and    *)
(* some allowed range does, both ends included, in the order of addresses  *)
(* as numbers; no part-by-part exit and no order of the ranges changes it. *)
VerdictIsRight ==
  /\ verdict = "denied" => InSome(deny, ip)
  /\ verdict = "admitted" => ~InSome(deny, ip) /\ InSome(allow, ip)
  /\ verdict = "refused" => ~InSome(deny, ip) /\ ~InSome(allow, ip)
===============================================================================
