------------------------------ MODULE RequestProofs -----------------------------
(***************************************************************************)
(* Proofs about what a request goes through: the filter of its peer and    *)
(* the paths of its job.                                                   *)
(*                                                                         *)
(* IpFilter: for any number of parts, any values of a part and any lists   *)
(* of ranges.  A verdict depends on what the loops have found so far, so   *)
(* the inductive invariant says it: the ranges passed do not hold the      *)
(* address, the start of the range at hand is no more than the address     *)
(* once its end is looked at, and the operands agree in the parts before   *)
(* the one at hand.                                                        *)
(*                                                                         *)
(* Paths: for any characters, roots, job paths, names, targets and depth.  *)
(* Two invariants: PathsInv says what kind of path each variable holds,    *)
(* which excludes all ends but those with a reason; NamesInv says which    *)
(* names it consists of.  Both rest on what Join and RelativeTo make of    *)
(* paths, and the second on Components being a homomorphism, which is      *)
(* shown by induction over the length of a path.                           *)
(***************************************************************************)
EXTENDS IpFilter, Paths, SequenceTheorems, WellFoundedInduction, TLAPS

(* The ranges that have been passed in the list at hand.                   *)
PassedAreOutside ==
  Deciding => \A n \in DOMAIN List : n < r => ~Within(ip, List[n])

(* The denied ranges when the allowed ones are gone through.               *)
NotDenied == verdict = "allow" => ~InSome(deny, ip)

(* What the comparison under way has seen.                                 *)
ComparedSoFar ==
  Comparing =>
    /\ side = "end" => NoMore(List[r].start, ip)
    /\ \A j \in 1..(i - 1) : Left[j] = Right[j]

IInv == TypeOK /\ PassedAreOutside /\ NotDenied /\ ComparedSoFar /\ VerdictIsRight

-------------------------------------------------------------------------------
(* The elements of the lists are ranges of addresses.                      *)
LEMMA ListTypes ==
  ASSUME TypeOK
  PROVE  /\ deny \in Seq(Ranges) /\ allow \in Seq(Ranges) /\ List \in Seq(Ranges)
         /\ \A n \in DOMAIN List : List[n] \in Ranges
BY ListAssumption DEF TypeOK, List

(* The operands of a comparison are addresses.                             *)
LEMMA OperandTypes ==
  ASSUME TypeOK, Comparing
  PROVE  /\ r \in DOMAIN List /\ Left \in Addresses /\ Right \in Addresses
         /\ \A j \in 1..Parts : Left[j] \in Int /\ Right[j] \in Int
<1>1. r \in DOMAIN List /\ List[r] \in Ranges /\ List[r].end # None
  BY ListTypes DEF TypeOK, Comparing
<1>2. List[r].start \in Addresses /\ List[r].end \in Addresses
  BY <1>1 DEF Ranges
<1>3. Left \in Addresses /\ Right \in Addresses
  BY <1>2 DEF Left, Right, TypeOK
<1>4. \A a \in Addresses, j \in 1..Parts : a[j] \in Int
  BY SizeAssumption DEF Addresses
<1> QED BY <1>1, <1>3, <1>4

(* The break of GenericLessThan is right.                                  *)
LEMMA SmallerPart ==
  ASSUME NEW a \in Addresses, NEW b \in Addresses, NEW k \in 1..Parts,
         \A j \in 1..(k - 1) : a[j] = b[j], a[k] < b[k]
  PROVE  NoMore(a, b)
BY DEF NoMore, Below

(* The end of its loop is right.                                           *)
LEMMA AllParts ==
  ASSUME NEW a \in Addresses, NEW b \in Addresses,
         \A j \in 1..(Parts - 1) : a[j] = b[j], a[Parts] = b[Parts]
  PROVE  a = b
<1>1. \A j \in 1..Parts : a[j] = b[j]
  BY SizeAssumption
<1>2. a = [j \in 1..Parts |-> a[j]] /\ b = [j \in 1..Parts |-> b[j]]
  BY DEF Addresses
<1>3. [j \in 1..Parts |-> a[j]] = [j \in 1..Parts |-> b[j]]
  BY <1>1
<1> QED BY <1>2, <1>3

(* Its return false is right.                                              *)
LEMMA GreaterPart ==
  ASSUME NEW a \in Addresses, NEW b \in Addresses, NEW k \in 1..Parts,
         \A j \in 1..(k - 1) : a[j] = b[j], a[k] > b[k]
  PROVE  ~NoMore(a, b)
<1>1. \A j \in 1..Parts : a[j] \in Int /\ b[j] \in Int
  BY SizeAssumption DEF Addresses
<1>2. a # b
  BY <1>1
<1>3. ASSUME NEW m \in 1..Parts, a[m] < b[m], \A j \in 1..(m - 1) : a[j] = b[j]
      PROVE  FALSE
  <2>1. CASE m < k
    BY <2>1, <1>1, <1>3, SizeAssumption
  <2>2. CASE m = k
    BY <2>2, <1>1, <1>3
  <2>3. CASE m > k
    BY <2>3, <1>1, <1>3, SizeAssumption
  <2> QED BY <2>1, <2>2, <2>3, SizeAssumption
<1> QED BY <1>2, <1>3 DEF NoMore, Below

-------------------------------------------------------------------------------
(* The invariant holds of the initial states.                              *)
LEMMA InitIInv == Init => IInv
<1> SUFFICES ASSUME Init PROVE IInv
  OBVIOUS
<1>1. TypeOK
  BY SizeAssumption DEF Init, TypeOK
<1>2. ~Deciding /\ verdict = "none"
  BY DEF Init, Deciding
<1> QED BY <1>1, <1>2 DEF IInv, PassedAreOutside, NotDenied, ComparedSoFar, Comparing, VerdictIsRight

(* Types are kept by every step.                                           *)
LEMMA TypeStep ==
  ASSUME TypeOK, Next
  PROVE  TypeOK'
<1> USE SizeAssumption DEF TypeOK, lists, Restart
<1>1. CASE Accept BY <1>1 DEF Accept
<1>2. CASE EqualPart BY <1>2 DEF EqualPart
<1>3. CASE AtMost BY <1>3 DEF AtMost, Contained
<1>4. CASE Greater BY <1>4 DEF Greater, NextRange
<1>5. CASE Single BY <1>5 DEF Single, NextRange, Contained
<1>6. CASE Exhausted BY <1>6 DEF Exhausted
<1> QED BY <1>1, <1>2, <1>3, <1>4, <1>5, <1>6 DEF Next

(* The other parts of the invariant are kept.  A step that leaves the list *)
(* and the verdict alone keeps what they mean.                             *)
LEMMA ListKept ==
  ASSUME UNCHANGED lists, verdict' = verdict
  PROVE  List' = List /\ (Deciding' <=> Deciding)
BY DEF lists, List, Deciding

(* The range at hand has been found to hold the address.                   *)
LEMMA ContainedStep ==
  ASSUME IInv, Deciding, r \in DOMAIN List, Within(ip, List[r]),
         Contained, UNCHANGED <<lists, ip>>
  PROVE  PassedAreOutside' /\ NotDenied' /\ ComparedSoFar' /\ VerdictIsRight'
<1> USE DEF lists, Contained
<1>1. InSome(List, ip)
  BY DEF InSome
<1>2. ~Deciding' /\ verdict' \in {"denied", "admitted"}
  BY DEF Deciding
<1>3. CASE verdict = "deny"
  BY <1>1, <1>2, <1>3 DEF List, VerdictIsRight, InSome, Within, NoMore, Below,
     PassedAreOutside, NotDenied, ComparedSoFar, Comparing
<1>4. CASE verdict = "allow"
  BY <1>1, <1>2, <1>4 DEF IInv, List, VerdictIsRight, InSome, Within, NoMore, Below,
     PassedAreOutside, NotDenied, ComparedSoFar, Comparing
<1> QED BY <1>3, <1>4 DEF Deciding

(* The range at hand has been found not to hold it.                        *)
LEMMA NextRangeStep ==
  ASSUME IInv, Deciding, r \in DOMAIN List, ~Within(ip, List[r]),
         NextRange, UNCHANGED <<lists, ip>>
  PROVE  PassedAreOutside' /\ NotDenied' /\ ComparedSoFar' /\ VerdictIsRight'
<1>1. List' = List /\ ip' = ip /\ deny' = deny /\ allow' = allow /\ verdict' = verdict
  BY ListKept DEF NextRange, lists
<1>2. r' = r + 1 /\ side' = "start" /\ i' = 1 /\ r \in Nat
  BY DEF NextRange, Restart, IInv, TypeOK
<1>3. \A n \in DOMAIN List : n < r' => ~Within(ip, List[n])
  <2> SUFFICES ASSUME NEW n \in DOMAIN List, n < r' PROVE ~Within(ip, List[n])
    OBVIOUS
  <2>1. n \in Nat
    BY ListTypes DEF IInv
  <2>2. n < r \/ n = r
    BY <1>2, <2>1
  <2> QED BY <2>2 DEF IInv, PassedAreOutside
<1>4. PassedAreOutside'
  BY <1>1, <1>3 DEF PassedAreOutside, Within, NoMore, Below
<1>5. NotDenied' /\ VerdictIsRight'
  BY <1>1 DEF IInv, NotDenied, VerdictIsRight, InSome, Within, NoMore, Below
<1>6. ComparedSoFar'
  BY <1>2 DEF ComparedSoFar
<1> QED BY <1>4, <1>5, <1>6

(* A connection is accepted, and the denied ranges come first.             *)
LEMMA AcceptStep ==
  ASSUME IInv, Accept
  PROVE  PassedAreOutside' /\ NotDenied' /\ ComparedSoFar' /\ VerdictIsRight'
<1>1. r' = 1 /\ side' = "start" /\ i' = 1 /\ verdict' = "deny"
  BY DEF Accept
<1>2. List' \in Seq(Ranges)
  BY <1>1, ListTypes DEF IInv, List, Accept, lists
<1>3. PassedAreOutside'
  BY <1>1, <1>2 DEF PassedAreOutside
<1> QED BY <1>1, <1>3 DEF NotDenied, ComparedSoFar, VerdictIsRight

(* One part has been compared, and the comparison goes on.                 *)
LEMMA EqualPartStep ==
  ASSUME IInv, EqualPart
  PROVE  PassedAreOutside' /\ NotDenied' /\ ComparedSoFar' /\ VerdictIsRight'
<1>1. List' = List /\ ip' = ip /\ deny' = deny /\ allow' = allow /\ verdict' = verdict
  BY ListKept DEF EqualPart, lists
<1>2. r' = r /\ side' = side /\ i' = i + 1 /\ Left[i] = Right[i] /\ Comparing
  BY DEF EqualPart
<1>3. Left' = Left /\ Right' = Right
  BY <1>1, <1>2 DEF Left, Right
<1>4. \A j \in 1..(i' - 1) : Left[j] = Right[j]
  BY <1>2 DEF IInv, ComparedSoFar, TypeOK
<1>5. ComparedSoFar'
  BY <1>1, <1>2, <1>3, <1>4 DEF IInv, ComparedSoFar, NoMore, Below
<1>6. PassedAreOutside'
  BY <1>1, <1>2 DEF IInv, PassedAreOutside, Deciding, Within, NoMore, Below
<1>7. NotDenied' /\ VerdictIsRight'
  BY <1>1 DEF IInv, NotDenied, VerdictIsRight, InSome, Within, NoMore, Below
<1> QED BY <1>5, <1>6, <1>7

(* start_ <= ip holds, and its end comes next; or the range holds ip.      *)
LEMMA AtMostStep ==
  ASSUME IInv, AtMost
  PROVE  PassedAreOutside' /\ NotDenied' /\ ComparedSoFar' /\ VerdictIsRight'
<1>1. Comparing /\ r \in DOMAIN List /\ Left \in Addresses /\ Right \in Addresses
      /\ i \in 1..Parts
  BY OperandTypes DEF IInv, AtMost, TypeOK
<1>2. \A j \in 1..(i - 1) : Left[j] = Right[j]
  BY <1>1 DEF IInv, ComparedSoFar
<1>3. NoMore(Left, Right)
  <2>1. CASE Left[i] < Right[i]
    BY <1>1, <1>2, <2>1, SmallerPart
  <2>2. CASE Left[i] = Right[i] /\ i = Parts
    BY <1>1, <1>2, <2>2, AllParts DEF NoMore
  <2> QED BY <2>1, <2>2 DEF AtMost
<1>4. CASE side = "start" /\ side' = "end" /\ i' = 1 /\ UNCHANGED <<verdict, r>>
  <2>1. List' = List /\ ip' = ip /\ deny' = deny /\ allow' = allow /\ verdict' = verdict
        /\ r' = r
    BY <1>4, ListKept DEF AtMost, lists
  <2>2. NoMore(List[r].start, ip)
    BY <1>3, <1>4 DEF Left, Right
  <2>3. ComparedSoFar'
    BY <1>4, <2>1, <2>2 DEF ComparedSoFar, NoMore, Below
  <2>4. PassedAreOutside'
    BY <2>1 DEF IInv, PassedAreOutside, Deciding, Within, NoMore, Below
  <2>5. NotDenied' /\ VerdictIsRight'
    BY <2>1 DEF IInv, NotDenied, VerdictIsRight, InSome, Within, NoMore, Below
  <2> QED BY <2>3, <2>4, <2>5
<1>5. CASE side = "end" /\ Contained
  <2>1. Within(ip, List[r])
    BY <1>1, <1>3, <1>5 DEF Within, Left, Right, Comparing, IInv, ComparedSoFar
  <2> QED BY <1>1, <1>5, <2>1, ContainedStep DEF AtMost, Comparing
<1> QED BY <1>4, <1>5 DEF AtMost

(* One side of the range is out.                                           *)
LEMMA GreaterStep ==
  ASSUME IInv, Greater
  PROVE  PassedAreOutside' /\ NotDenied' /\ ComparedSoFar' /\ VerdictIsRight'
<1>1. Comparing /\ r \in DOMAIN List /\ Left \in Addresses /\ Right \in Addresses
      /\ i \in 1..Parts
  BY OperandTypes DEF IInv, Greater, TypeOK
<1>2. ~NoMore(Left, Right)
  BY <1>1, GreaterPart DEF IInv, ComparedSoFar, Greater
<1>3. ~Within(ip, List[r])
  BY <1>1, <1>2 DEF Within, Left, Right, Comparing
<1> QED BY <1>1, <1>3, NextRangeStep DEF Greater, Comparing

(* A range of one address.                                                 *)
LEMMA SingleStep ==
  ASSUME IInv, Single
  PROVE  PassedAreOutside' /\ NotDenied' /\ ComparedSoFar' /\ VerdictIsRight'
<1>1. Deciding /\ r \in DOMAIN List /\ List[r].end = None
  BY ListTypes DEF IInv, Single, TypeOK
<1>2. CASE ip = List[r].start /\ Contained
  BY <1>1, <1>2, ContainedStep DEF Single, Within
<1>3. CASE ip # List[r].start /\ NextRange
  BY <1>1, <1>3, NextRangeStep DEF Single, Within
<1> QED BY <1>2, <1>3 DEF Single

(* No range of the list holds the address.                                 *)
LEMMA ExhaustedStep ==
  ASSUME IInv, Exhausted
  PROVE  PassedAreOutside' /\ NotDenied' /\ ComparedSoFar' /\ VerdictIsRight'
<1>1. r' = 1 /\ side' = "start" /\ i' = 1 /\ ip' = ip /\ deny' = deny /\ allow' = allow
  BY DEF Exhausted, Restart, lists
<1>2. ~InSome(List, ip)
  <2> SUFFICES ASSUME NEW n \in DOMAIN List PROVE ~Within(ip, List[n])
    BY DEF InSome
  <2>1. n < r
    BY ListTypes DEF IInv, Exhausted, TypeOK
  <2> QED BY <2>1 DEF IInv, PassedAreOutside, Exhausted
<1>3. PassedAreOutside' /\ ComparedSoFar'
  <2>1. List' \in Seq(Ranges)
    BY <1>1, ListTypes DEF IInv, List
  <2> QED BY <1>1, <2>1 DEF PassedAreOutside, ComparedSoFar
<1>4. CASE verdict = "deny"
  BY <1>1, <1>2, <1>3, <1>4 DEF Exhausted, List, NotDenied, VerdictIsRight, InSome, Within, NoMore,
     Below
<1>5. CASE verdict = "allow"
  BY <1>1, <1>2, <1>3, <1>5 DEF IInv, Exhausted, List, NotDenied, VerdictIsRight, InSome, Within,
     NoMore, Below
<1> QED BY <1>3, <1>4, <1>5 DEF Exhausted, Deciding

(* Every step keeps the invariant.                                         *)
LEMMA NextIInv == IInv /\ [Next]_vars => IInv'
<1> SUFFICES ASSUME IInv, [Next]_vars PROVE IInv'
  OBVIOUS
<1>1. CASE Next
  <2>1. TypeOK'
    BY <1>1, TypeStep DEF IInv
  <2> QED BY <1>1, <2>1, AcceptStep, EqualPartStep, AtMostStep, GreaterStep, SingleStep,
             ExhaustedStep DEF Next, IInv
<1>2. CASE UNCHANGED vars
  BY <1>2 DEF vars, lists, IInv, TypeOK, PassedAreOutside, NotDenied, ComparedSoFar,
     VerdictIsRight, Deciding, Comparing, List, Left, Right, InSome, Within, NoMore, Below
<1> QED BY <1>1, <1>2

-------------------------------------------------------------------------------
(* Types, for every number of parts and all lists.                         *)
THEOREM TypeCorrect == Spec => []TypeOK
<1>1. IInv => TypeOK
  BY DEF IInv
<1> QED BY InitIInv, NextIInv, <1>1, PTL DEF Spec

(* The loops of MultiContains and GenericLessThan decide what the ranges   *)
(* say, for every number of parts, every width of a part and all lists.    *)
THEOREM FilterIsRight == Spec => []VerdictIsRight
<1>1. IInv => VerdictIsRight
  BY DEF IInv
<1> QED BY InitIInv, NextIInv, <1>1, PTL DEF Spec

-------------------------------------------------------------------------------
(* Paths, for any served roots, jobs, names and targets.                   *)
Strings == Seq(Characters)

StartsWithSlash(p) == Len(p) >= 1 /\ p[1] = "/"

EndsWithSlash(p) == Len(p) >= 1 /\ p[Len(p)] = "/"

(* What IsPrefix says of the characters.                                   *)
LEMMA PrefixMeans ==
  ASSUME NEW p \in Strings, NEW q \in Strings
  PROVE  IsPrefix(p, q) <=> Len(p) <= Len(q) /\ \A k \in 1..Len(p) : p[k] = q[k]
<1>1. Len(p) \in Nat /\ Len(q) \in Nat /\ SubSeq(p, 1, Len(p)) = p
  BY SubSeqFull DEF Strings
<1>2. ASSUME Len(p) <= Len(q)
      PROVE  /\ SubSeq(q, 1, Len(p)) \in Strings /\ Len(SubSeq(q, 1, Len(p))) = Len(p)
             /\ \A k \in 1..Len(p) : SubSeq(q, 1, Len(p))[k] = q[k]
  <2>1. \A k \in 1..Len(p) : q[k] \in Characters
    BY <1>1, <1>2 DEF Strings
  <2> QED
    BY <1>1, <2>1, SubSeqProperties DEF Strings
<1>3. ASSUME Len(p) <= Len(q), \A k \in 1..Len(p) : p[k] = q[k]
      PROVE  p = SubSeq(q, 1, Len(p))
  <2> DEFINE s == SubSeq(q, 1, Len(p))
  <2>1. s \in Strings /\ Len(s) = Len(p) /\ \A k \in 1..Len(p) : p[k] = s[k]
    BY <1>2, <1>3
  <2> HIDE DEF s
  <2>2. p = s
    BY <2>1, SeqEqual DEF Strings
  <2> QED
    BY <2>2 DEF s
<1> QED
  BY <1>1, <1>2, <1>3 DEF IsPrefix

(* The string that is a slash.                                             *)
LEMMA SlashIsString ==
  /\ <<"/">> \in Strings /\ Len(<<"/">>) = 1 /\ <<"/">>[1] = "/"
  /\ \A p \in Strings : Len(p) = 1 /\ p[1] = "/" => p = <<"/">>
<1>1. <<"/">> \in Strings /\ Len(<<"/">>) = 1 /\ <<"/">>[1] = "/"
  BY PathAssumption DEF Strings
<1>2. ASSUME NEW p \in Strings, Len(p) = 1, p[1] = "/" PROVE p = <<"/">>
  BY <1>1, <1>2, SeqEqual DEF Strings
<1> QED
  BY <1>1, <1>2

(* A prefix of one character.                                              *)
LEMMA SlashIsPrefix ==
  ASSUME NEW s \in Strings, Len(s) = 1, s[1] = "/", NEW t \in Strings
  PROVE  IsPrefix(s, t) <=> StartsWithSlash(t)
<1>1. IsPrefix(s, t) <=> Len(s) <= Len(t) /\ \A k \in 1..Len(s) : s[k] = t[k]
  BY PrefixMeans
<1>2. Len(s) <= Len(t) <=> Len(t) >= 1
  BY DEF Strings
<1>3. (\A k \in 1..Len(s) : s[k] = t[k]) <=> t[1] = "/"
  OBVIOUS
<1> QED
  BY <1>1, <1>2, <1>3, Zenon DEF StartsWithSlash

(* What IsAbsolute and the beginnings in Join look at.                     *)
LEMMA AbsoluteMeans ==
  ASSUME NEW p \in Strings
  PROVE  /\ IsPrefix(<<"/">>, p) <=> StartsWithSlash(p)
         /\ IsAbsolute(p) <=> StartsWithSlash(p)
<1> DEFINE s == <<"/">>
<1>1. s \in Strings /\ Len(s) = 1 /\ s[1] = "/" /\ Len(p) \in Nat
  BY SlashIsString DEF Strings
<1> HIDE DEF s
<1>2. IsPrefix(s, p) <=> StartsWithSlash(p)
  BY <1>1, SlashIsPrefix
<1> QED
  BY <1>2 DEF s, IsAbsolute

(* What Ends looks at.                                                     *)
LEMMA EndsMeans ==
  ASSUME NEW p \in Strings
  PROVE  Ends(p) <=> EndsWithSlash(p)
<1>1. Len(p) \in Nat
  BY DEF Strings
<1>2. /\ Reverse(<<"/">>) \in Strings /\ Len(Reverse(<<"/">>)) = 1 /\ Reverse(<<"/">>)[1] = "/"
  BY PathAssumption DEF Strings, Reverse
<1>3. Reverse(p) \in Strings /\ Len(Reverse(p)) = Len(p) /\ (Len(p) >= 1 => Reverse(p)[1] = p[Len(p)])
  <2>1. \A k \in 1..Len(p) : p[(Len(p) - k) + 1] \in Characters
    BY <1>1 DEF Strings
  <2>2. [k \in 1..Len(p) |-> p[(Len(p) - k) + 1]] \in Strings
    BY <1>1, <2>1 DEF Strings
  <2> QED
    BY <1>1, <2>2 DEF Reverse
<1> DEFINE s == Reverse(<<"/">>)
           t == Reverse(p)
<1>4. IsPrefix(s, t) <=> EndsWithSlash(p)
  <2>1. s \in Strings /\ t \in Strings /\ Len(s) = 1 /\ s[1] = "/"
    BY <1>2, <1>3
  <2>2. Len(t) = Len(p) /\ (Len(p) >= 1 => t[1] = p[Len(p)])
    BY <1>3
  <2> HIDE DEF s, t
  <2>3. IsPrefix(s, t) <=> StartsWithSlash(t)
    BY <2>1, SlashIsPrefix
  <2> QED
    BY <1>1, <2>2, <2>3 DEF StartsWithSlash, EndsWithSlash
<1> QED
  BY <1>4 DEF Ends, IsSuffix

(* The piece from m on is empty, or "." or "..".                           *)
BadAt(p, m) ==
  \/ m = Len(p) + 1
  \/ m <= Len(p) /\ p[m] = "/"
  \/ m <= Len(p) /\ p[m] = "." /\ (m = Len(p) \/ p[m + 1] = "/")
  \/ m + 1 <= Len(p) /\ p[m] = "." /\ p[m + 1] = "." /\ (m + 1 = Len(p) \/ p[m + 2] = "/")

(* No piece of a string is bad.                                            *)
NoBadPiece(q) == \A m \in 1..(Len(q) + 1) : (m = 1 \/ q[m - 1] = "/") => ~BadAt(q, m)

(* An absolute path that is resolved and is not the root.                  *)
Proper(p) ==
  /\ p \in Strings /\ StartsWithSlash(p)
  /\ \A m \in 2..(Len(p) + 1) : p[m - 1] = "/" => ~BadAt(p, m)

(* The pieces of a string by where they begin and end.                     *)
PieceFromTo(p, a, b) ==
  /\ a <= b + 1
  /\ a = 1 \/ p[a - 1] = "/"
  /\ b = Len(p) \/ p[b + 1] = "/"
  /\ \A k \in a..b : p[k] # "/"

(* They are the members of Pieces.                                         *)
LEMMA PiecesMeans ==
  ASSUME NEW p
  PROVE  \A s : s \in Pieces(p) <=>
           \E a \in 1..(Len(p) + 1), b \in 0..Len(p) : PieceFromTo(p, a, b) /\ s = SubSeq(p, a, b)
<1> DEFINE Box == (1..(Len(p) + 1)) \X (0..Len(p))
           Cut(ij) == PieceFromTo(p, ij[1], ij[2])
<1>1. Pieces(p) = {SubSeq(p, ij[1], ij[2]) : ij \in {ij \in Box : Cut(ij)}}
  BY DEF Pieces, PieceFromTo
<1>2. ASSUME NEW s, s \in Pieces(p)
      PROVE  \E a \in 1..(Len(p) + 1), b \in 0..Len(p) : PieceFromTo(p, a, b) /\ s = SubSeq(p, a, b)
  <2>1. PICK ij \in Box : Cut(ij) /\ s = SubSeq(p, ij[1], ij[2])
    BY <1>1, <1>2
  <2>2. ij[1] \in 1..(Len(p) + 1) /\ ij[2] \in 0..Len(p)
    BY <2>1
  <2> QED
    BY <2>1, <2>2
<1>3. ASSUME NEW s, NEW a \in 1..(Len(p) + 1), NEW b \in 0..Len(p),
             PieceFromTo(p, a, b), s = SubSeq(p, a, b)
      PROVE  s \in Pieces(p)
  <2>1. <<a, b>> \in Box /\ <<a, b>>[1] = a /\ <<a, b>>[2] = b
    OBVIOUS
  <2>2. Cut(<<a, b>>) /\ s = SubSeq(p, <<a, b>>[1], <<a, b>>[2])
    BY <1>3, <2>1
  <2> QED
    BY <1>1, <2>1, <2>2
<1> QED
  BY <1>2, <1>3

(* The bad pieces as strings.                                              *)
LEMMA DotStrings ==
  ASSUME NEW s \in Strings
  PROVE  /\ s = << >> <=> Len(s) = 0
         /\ s = <<".">> <=> Len(s) = 1 /\ s[1] = "."
         /\ s = <<".", ".">> <=> Len(s) = 2 /\ s[1] = "." /\ s[2] = "."
<1>1. /\ <<".">> \in Strings /\ Len(<<".">>) = 1 /\ <<".">>[1] = "."
      /\ <<".", ".">> \in Strings /\ Len(<<".", ".">>) = 2
      /\ <<".", ".">>[1] = "." /\ <<".", ".">>[2] = "."
  BY PathAssumption DEF Strings
<1>2. s = << >> <=> Len(s) = 0
  BY DEF Strings
<1>3. ASSUME Len(s) = 1, s[1] = "." PROVE s = <<".">>
  <2> DEFINE t == <<".">>
  <2>1. t \in Strings /\ Len(s) = Len(t) /\ \A k \in 1..Len(s) : s[k] = t[k]
    BY <1>1, <1>3
  <2> HIDE DEF t
  <2>2. s = t
    BY <2>1, SeqEqual DEF Strings
  <2> QED
    BY <2>2 DEF t
<1>4. ASSUME Len(s) = 2, s[1] = ".", s[2] = "." PROVE s = <<".", ".">>
  <2> DEFINE t == <<".", ".">>
  <2>1. t \in Strings /\ Len(s) = Len(t) /\ \A k \in 1..Len(s) : s[k] = t[k]
    BY <1>1, <1>4
  <2> HIDE DEF t
  <2>2. s = t
    BY <2>1, SeqEqual DEF Strings
  <2> QED
    BY <2>2 DEF t
<1> QED
  BY <1>1, <1>2, <1>3, <1>4

(* A part of a string.                                                     *)
LEMMA PartOfString ==
  ASSUME NEW q \in Strings, NEW a \in 1..(Len(q) + 1), NEW b \in 0..Len(q), a <= b + 1
  PROVE  /\ SubSeq(q, a, b) \in Strings /\ Len(SubSeq(q, a, b)) = b - a + 1
         /\ \A j \in 1..(b - a + 1) : SubSeq(q, a, b)[j] = q[a + j - 1]
         /\ b >= a => SubSeq(q, a, b)[1] = q[a]
         /\ b > a => SubSeq(q, a, b)[2] = q[a + 1]
<1>1. Len(q) \in Nat /\ \A j \in a..b : q[j] \in Characters
  BY DEF Strings
<1>2. /\ SubSeq(q, a, b) \in Strings /\ Len(SubSeq(q, a, b)) = b - a + 1
      /\ \A j \in 1..(b - a + 1) : SubSeq(q, a, b)[j] = q[a + j - 1]
  BY <1>1, SubSeqProperties DEF Strings
<1>3. ASSUME b >= a PROVE SubSeq(q, a, b)[1] = q[a]
  <2>1. 1 \in 1..(b - a + 1) /\ a + 1 - 1 = a
    BY <1>3
  <2> QED
    BY <1>2, <2>1
<1>4. ASSUME b > a PROVE SubSeq(q, a, b)[2] = q[a + 1]
  <2>1. 2 \in 1..(b - a + 1) /\ a + 2 - 1 = a + 1
    BY <1>4
  <2> QED
    BY <1>2, <2>1
<1> QED
  BY <1>2, <1>3, <1>4

(* No piece is empty, "." or "..": what is looked at where pieces begin.   *)
LEMMA NoBadPieceMeans ==
  ASSUME NEW q \in Strings
  PROVE  Pieces(q) \cap {<< >>, <<".">>, <<".", ".">>} = {} <=> NoBadPiece(q)
<1>0. Len(q) \in Nat
  BY DEF Strings
<1>1. ASSUME NEW a \in 1..(Len(q) + 1), NEW b \in 0..Len(q), PieceFromTo(q, a, b),
             SubSeq(q, a, b) \in {<< >>, <<".">>, <<".", ".">>}
      PROVE  (a = 1 \/ q[a - 1] = "/") /\ BadAt(q, a)
  <2> DEFINE s == SubSeq(q, a, b)
  <2>1. a <= b + 1 /\ (a = 1 \/ q[a - 1] = "/") /\ (b = Len(q) \/ q[b + 1] = "/")
    BY <1>1 DEF PieceFromTo
  <2>2. /\ s \in Strings /\ Len(s) = b - a + 1
        /\ b >= a => s[1] = q[a]
        /\ b > a => s[2] = q[a + 1]
    BY <2>1, PartOfString
  <2>3. s = << >> \/ s = <<".">> \/ s = <<".", ".">>
    BY <1>1
  <2> HIDE DEF s
  <2>4. CASE s = << >>
    <3>1. b = a - 1
      BY <2>2, <2>4, DotStrings
    <3> QED
      BY <1>0, <2>1, <3>1 DEF BadAt
  <2>5. CASE s = <<".">>
    <3>1. Len(s) = 1 /\ s[1] = "."
      BY <2>2, <2>5, DotStrings
    <3>2. b = a
      <4>1. b - a + 1 = 1
        BY <2>2, <3>1
      <4> QED
        BY <1>0, <4>1
    <3>3. q[a] = "."
      BY <2>2, <3>1, <3>2
    <3> QED
      BY <1>0, <2>1, <3>2, <3>3 DEF BadAt
  <2>6. CASE s = <<".", ".">>
    <3>1. Len(s) = 2 /\ s[1] = "." /\ s[2] = "."
      BY <2>2, <2>6, DotStrings
    <3>2. b = a + 1
      <4>1. b - a + 1 = 2
        BY <2>2, <3>1
      <4> QED
        BY <1>0, <4>1
    <3>3. q[a] = "." /\ q[a + 1] = "."
      BY <2>2, <3>1, <3>2
    <3> QED
      BY <1>0, <2>1, <3>2, <3>3 DEF BadAt
  <2> QED
    BY <2>3, <2>4, <2>5, <2>6
<1>2. ASSUME NEW m \in 1..(Len(q) + 1), m = 1 \/ q[m - 1] = "/", BadAt(q, m)
      PROVE  \E b \in 0..Len(q) :
               /\ PieceFromTo(q, m, b)
               /\ SubSeq(q, m, b) \in {<< >>, <<".">>, <<".", ".">>}
  <2>1. CASE m = Len(q) + 1 \/ (m <= Len(q) /\ q[m] = "/")
    <3>1. m - 1 \in 0..Len(q) /\ PieceFromTo(q, m, m - 1)
      BY <1>0, <1>2, <2>1 DEF PieceFromTo
    <3>2. SubSeq(q, m, m - 1) = << >>
      BY <1>0, SubSeqEmpty
    <3> QED
      BY <3>1, <3>2
  <2>2. CASE m <= Len(q) /\ q[m] = "." /\ (m = Len(q) \/ q[m + 1] = "/")
    <3>1. m \in 0..Len(q) /\ PieceFromTo(q, m, m)
      BY <1>0, <1>2, <2>2 DEF PieceFromTo
    <3>2. SubSeq(q, m, m) \in Strings /\ Len(SubSeq(q, m, m)) = 1 /\ SubSeq(q, m, m)[1] = "."
      BY <2>2, <3>1, PartOfString
    <3>3. SubSeq(q, m, m) = <<".">>
      BY <3>2, DotStrings
    <3> QED
      BY <3>1, <3>3
  <2>3. CASE m + 1 <= Len(q) /\ q[m] = "." /\ q[m + 1] = "." /\ (m + 1 = Len(q) \/ q[m + 2] = "/")
    <3>1. m + 1 \in 0..Len(q) /\ PieceFromTo(q, m, m + 1)
      BY <1>0, <1>2, <2>3 DEF PieceFromTo
    <3>2. /\ SubSeq(q, m, m + 1) \in Strings /\ Len(SubSeq(q, m, m + 1)) = 2
          /\ SubSeq(q, m, m + 1)[1] = "." /\ SubSeq(q, m, m + 1)[2] = "."
      <4> DEFINE e == m + 1
      <4>1. e \in 0..Len(q) /\ m <= e + 1 /\ e - m + 1 = 2 /\ e > m
        BY <3>1
      <4> HIDE DEF e
      <4>2. /\ SubSeq(q, m, e) \in Strings /\ Len(SubSeq(q, m, e)) = 2
            /\ SubSeq(q, m, e)[1] = q[m] /\ SubSeq(q, m, e)[2] = q[m + 1]
        BY <4>1, PartOfString
      <4> QED
        BY <2>3, <4>2 DEF e
    <3>3. SubSeq(q, m, m + 1) = <<".", ".">>
      BY <3>2, DotStrings
    <3> QED
      BY <3>1, <3>3
  <2> QED
    BY <1>2, <2>1, <2>2, <2>3 DEF BadAt
<1>3. ASSUME NoBadPiece(q), NEW s \in Pieces(q), s \in {<< >>, <<".">>, <<".", ".">>} PROVE FALSE
  <2>1. PICK a \in 1..(Len(q) + 1), b \in 0..Len(q) : PieceFromTo(q, a, b) /\ s = SubSeq(q, a, b)
    BY PiecesMeans
  <2> QED
    BY <1>1, <1>3, <2>1 DEF NoBadPiece
<1>4. ASSUME NEW m \in 1..(Len(q) + 1), m = 1 \/ q[m - 1] = "/", BadAt(q, m)
      PROVE  \E s \in Pieces(q) : s \in {<< >>, <<".">>, <<".", ".">>}
  <2>1. PICK b \in 0..Len(q) : /\ PieceFromTo(q, m, b)
                               /\ SubSeq(q, m, b) \in {<< >>, <<".">>, <<".", ".">>}
    BY <1>2, <1>4
  <2>2. SubSeq(q, m, b) \in Pieces(q)
    BY <2>1, PiecesMeans
  <2> QED
    BY <2>1, <2>2
<1> QED
  BY <1>3, <1>4 DEF NoBadPiece

(* A string is free of bad pieces if it makes a proper path behind a slash.*)
LEMMA SlashBefore ==
  ASSUME NEW q \in Strings, NEW p \in Strings, Len(p) = Len(q) + 1, p[1] = "/",
         \A k \in 1..Len(q) : p[k + 1] = q[k]
  PROVE  NoBadPiece(q) <=> Proper(p)
<1>1. Len(q) \in Nat
  BY DEF Strings
<1>2. ASSUME NEW m \in 1..(Len(q) + 1)
      PROVE  /\ BadAt(q, m) <=> BadAt(p, m + 1)
             /\ (m = 1 \/ q[m - 1] = "/") <=> p[m] = "/"
  <2>1. m <= Len(q) => p[m + 1] = q[m]
    BY <1>1
  <2>2. m + 1 <= Len(q) => p[m + 2] = q[m + 1]
    <3>1. m + 1 <= Len(q) => p[(m + 1) + 1] = q[m + 1]
      BY <1>1
    <3> QED
      BY <3>1
  <2>3. m + 2 <= Len(q) => p[m + 3] = q[m + 2]
    <3>1. m + 2 <= Len(q) => p[(m + 2) + 1] = q[m + 2]
      BY <1>1
    <3> QED
      BY <3>1
  <2>4. m # 1 => p[m] = q[m - 1]
    <3>1. m # 1 => p[(m - 1) + 1] = q[m - 1]
      BY <1>1
    <3> QED
      BY <3>1
  <2>5. BadAt(q, m) <=> BadAt(p, m + 1)
    BY <1>1, <2>1, <2>2, <2>3 DEF BadAt
  <2> QED
    BY <2>4, <2>5
<1>3. ASSUME NoBadPiece(q), NEW m \in 2..(Len(p) + 1), p[m - 1] = "/" PROVE ~BadAt(p, m)
  <2>1. m - 1 \in 1..(Len(q) + 1) /\ (m - 1) + 1 = m
    BY <1>1
  <2>2. (m - 1 = 1 \/ q[(m - 1) - 1] = "/") /\ (BadAt(q, m - 1) <=> BadAt(p, m))
    BY <1>2, <1>3, <2>1
  <2> QED
    BY <1>3, <2>1, <2>2 DEF NoBadPiece
<1>4. ASSUME Proper(p), NEW m \in 1..(Len(q) + 1), m = 1 \/ q[m - 1] = "/" PROVE ~BadAt(q, m)
  <2>1. m + 1 \in 2..(Len(p) + 1) /\ (m + 1) - 1 = m
    BY <1>1
  <2> QED
    BY <1>2, <1>4, <2>1 DEF Proper
<1>5. StartsWithSlash(p)
  BY <1>1 DEF StartsWithSlash
<1> QED
  BY <1>3, <1>4, <1>5 DEF NoBadPiece, Proper

(* An absolute path is resolved if it is the root or proper.               *)
LEMMA ResolvedMeans ==
  ASSUME NEW p \in Strings, StartsWithSlash(p)
  PROVE  IsResolved(p) <=> p = <<"/">> \/ Proper(p)
<1>1. IsAbsolute(p) /\ Len(p) \in Nat /\ p # << >>
  BY AbsoluteMeans DEF StartsWithSlash, Strings
<1> DEFINE q == Tail(p)
<1>2. /\ q \in Strings /\ Len(p) = Len(q) + 1 /\ p[1] = "/"
      /\ \A k \in 1..Len(q) : p[k + 1] = q[k]
  BY <1>1, HeadTailProperties DEF Strings, StartsWithSlash
<1>3. IsResolved(p) <=> p = <<"/">> \/ Pieces(q) \cap {<< >>, <<".">>, <<".", ".">>} = {}
  BY <1>1 DEF IsResolved
<1> HIDE DEF q
<1> QED
  BY <1>2, <1>3, NoBadPieceMeans, SlashBefore

(* What a proper path is.                                                  *)
LEMMA ProperFacts ==
  ASSUME NEW p, Proper(p)
  PROVE  /\ p \in Strings /\ Len(p) \in Nat /\ Len(p) >= 2 /\ p[1] = "/" /\ p[Len(p)] # "/"
         /\ p # <<"/">> /\ StartsWithSlash(p) /\ ~EndsWithSlash(p)
         /\ ~Ends(p) /\ IsAbsolute(p) /\ IsResolved(p)
<1>1. p \in Strings /\ Len(p) \in Nat /\ StartsWithSlash(p) /\ Len(p) >= 1 /\ p[1] = "/"
  BY DEF Proper, StartsWithSlash, Strings
<1>2. p[Len(p)] # "/"
  <2>1. Len(p) + 1 \in 2..(Len(p) + 1) /\ (Len(p) + 1) - 1 = Len(p) /\ BadAt(p, Len(p) + 1)
    BY <1>1 DEF BadAt
  <2> QED
    BY <2>1 DEF Proper
<1>3. Len(p) >= 2
  BY <1>1, <1>2
<1>4. ASSUME p = <<"/">> PROVE FALSE
  <2>1. Len(p) = 1
    BY <1>4, SlashIsString
  <2> QED
    BY <1>3, <2>1
<1> QED
  BY <1>1, <1>2, <1>3, <1>4, AbsoluteMeans, EndsMeans, ResolvedMeans DEF EndsWithSlash

(* What two strings make together.                                         *)
LEMMA ConcatMeans ==
  ASSUME NEW x \in Strings, NEW y \in Strings
  PROVE  /\ x \o y \in Strings /\ Len(x \o y) = Len(x) + Len(y)
         /\ \A k \in 1..Len(x) : (x \o y)[k] = x[k]
         /\ \A k \in 1..Len(y) : (x \o y)[Len(x) + k] = y[k]
<1> DEFINE p == x \o y
<1>1. Len(x) \in Nat /\ Len(y) \in Nat
  BY DEF Strings
<1>2. /\ p \in Strings /\ Len(p) = Len(x) + Len(y)
      /\ \A k \in 1..(Len(x) + Len(y)) : p[k] = IF k <= Len(x) THEN x[k] ELSE y[k - Len(x)]
  BY <1>1, ConcatProperties DEF Strings
<1> HIDE DEF p
<1>3. \A k \in 1..Len(x) : p[k] = x[k]
  BY <1>1, <1>2
<1>4. ASSUME NEW k \in 1..Len(y) PROVE p[Len(x) + k] = y[k]
  <2>1. Len(x) + k \in 1..(Len(x) + Len(y)) /\ ~(Len(x) + k <= Len(x)) /\ (Len(x) + k) - Len(x) = k
    BY <1>1
  <2> QED
    BY <1>2, <2>1
<1>5. /\ p \in Strings /\ Len(p) = Len(x) + Len(y)
      /\ \A k \in 1..Len(x) : p[k] = x[k]
      /\ \A k \in 1..Len(y) : p[Len(x) + k] = y[k]
  BY <1>2, <1>3, <1>4
<1> QED
  BY <1>5 DEF p

(* Two proper paths make a proper path.                                    *)
LEMMA ProperConcat ==
  ASSUME NEW x, Proper(x), NEW y, Proper(y)
  PROVE  Proper(x \o y)
<1> DEFINE p == x \o y
<1>1. /\ x \in Strings /\ Len(x) \in Nat /\ Len(x) >= 2 /\ x[1] = "/" /\ x[Len(x)] # "/"
      /\ y \in Strings /\ Len(y) \in Nat /\ Len(y) >= 2 /\ y[1] = "/"
  BY ProperFacts
<1>2. /\ p \in Strings /\ Len(p) = Len(x) + Len(y)
      /\ \A k \in 1..Len(x) : p[k] = x[k]
      /\ \A k \in 1..Len(y) : p[Len(x) + k] = y[k]
  BY <1>1, ConcatMeans
<1> HIDE DEF p
<1>3. StartsWithSlash(p)
  BY <1>1, <1>2 DEF StartsWithSlash
<1>4. ASSUME NEW m \in 2..(Len(p) + 1), p[m - 1] = "/" PROVE ~BadAt(p, m)
  <2>1. CASE m <= Len(x)
    <3>1. ~BadAt(x, m)
      <4>1. m \in 2..(Len(x) + 1) /\ m - 1 \in 1..Len(x)
        BY <1>1, <1>2, <2>1
      <4>2. x[m - 1] = "/"
        BY <1>2, <1>4, <4>1
      <4> QED
        BY <4>1, <4>2 DEF Proper
    <3>2. /\ p[m] = x[m] /\ m + 1 <= Len(x) => p[m + 1] = x[m + 1]
          /\ m + 2 <= Len(x) => p[m + 2] = x[m + 2]
          /\ x[m] # "/"
      BY <1>1, <1>2, <2>1, <3>1 DEF BadAt
    <3>3. m + 1 > Len(x) => x[m] # "."
      BY <1>1, <2>1, <3>1 DEF BadAt
    <3>4. m + 2 > Len(x) => ~(m + 1 <= Len(x) /\ x[m] = "." /\ x[m + 1] = ".")
      BY <1>1, <2>1, <3>1 DEF BadAt
    <3> QED
      BY <1>1, <1>2, <2>1, <3>1, <3>2, <3>3, <3>4 DEF BadAt
  <2>2. CASE m = Len(x) + 1
    BY <1>1, <1>2, <1>4, <2>2
  <2>3. CASE m > Len(x) + 1
    <3> DEFINE n == m - Len(x)
    <3>1. n \in 2..(Len(y) + 1) /\ m = Len(x) + n
      BY <1>1, <1>2, <2>3
    <3>2. p[m - 1] = y[n - 1]
      <4>1. n - 1 \in 1..Len(y) /\ Len(x) + (n - 1) = m - 1
        BY <1>1, <3>1
      <4> QED
        BY <1>2, <4>1
    <3>3. ~BadAt(y, n)
      BY <1>4, <3>1, <3>2 DEF Proper
    <3>4. n <= Len(y) => p[m] = y[n]
      BY <1>1, <1>2, <3>1
    <3>5. n + 1 <= Len(y) => p[m + 1] = y[n + 1]
      <4>1. n + 1 <= Len(y) => p[Len(x) + (n + 1)] = y[n + 1]
        BY <1>1, <1>2, <3>1, SMTT(30)
      <4> QED
        BY <1>1, <3>1, <4>1
    <3>6. n + 2 <= Len(y) => p[m + 2] = y[n + 2]
      <4>1. n + 2 <= Len(y) => p[Len(x) + (n + 2)] = y[n + 2]
        BY <1>1, <1>2, <3>1
      <4> QED
        BY <1>1, <3>1, <4>1
    <3> HIDE DEF n
    <3>7. /\ m = Len(p) + 1 <=> n = Len(y) + 1
          /\ m <= Len(p) <=> n <= Len(y)
          /\ m = Len(p) <=> n = Len(y)
          /\ m + 1 <= Len(p) <=> n + 1 <= Len(y)
          /\ m + 1 = Len(p) <=> n + 1 = Len(y)
      <4>1. \A lx, ly, nn \in Int :
              /\ lx + nn = lx + ly + 1 <=> nn = ly + 1
              /\ lx + nn <= lx + ly <=> nn <= ly
              /\ lx + nn = lx + ly <=> nn = ly
              /\ lx + nn + 1 <= lx + ly <=> nn + 1 <= ly
              /\ lx + nn + 1 = lx + ly <=> nn + 1 = ly
        OBVIOUS
      <4>2. Len(p) = Len(x) + Len(y)
        BY <1>2
      <4>3. Len(x) \in Int /\ Len(y) \in Int /\ n \in Int
        BY <1>1, <3>1
      <4> QED
        BY <3>1, <4>1, <4>2, <4>3
    <3>8. n <= Len(y) /\ n # Len(y) => n + 1 <= Len(y)
      BY <1>1, <3>1
    <3>9. n + 1 <= Len(y) => n <= Len(y) /\ (n + 1 # Len(y) => n + 2 <= Len(y))
      BY <1>1, <3>1
    <3> QED
      BY <3>3, <3>4, <3>5, <3>6, <3>7, <3>8, <3>9 DEF BadAt
  <2> QED
    BY <1>1, <1>2, <2>1, <2>2, <2>3
<1>5. Proper(p)
  BY <1>2, <1>3, <1>4 DEF Proper
<1> QED
  BY <1>5 DEF p

(* A slash and a string.                                                   *)
LEMMA SlashConcat ==
  ASSUME NEW q \in Strings
  PROVE  /\ <<"/">> \o q \in Strings /\ Len(<<"/">> \o q) = Len(q) + 1
         /\ (<<"/">> \o q)[1] = "/"
         /\ \A k \in 1..Len(q) : (<<"/">> \o q)[k + 1] = q[k]
<1> DEFINE s == <<"/">>
<1>1. s \in Strings /\ Len(s) = 1 /\ s[1] = "/"
  BY SlashIsString
<1> HIDE DEF s
<1>2. /\ s \o q \in Strings /\ Len(s \o q) = Len(s) + Len(q)
      /\ \A k \in 1..Len(s) : (s \o q)[k] = s[k]
      /\ \A k \in 1..Len(q) : (s \o q)[Len(s) + k] = q[k]
  BY <1>1, ConcatMeans
<1>3. Len(q) \in Nat
  BY DEF Strings
<1>4. (s \o q)[1] = "/"
  BY <1>1, <1>2
<1>5. \A k \in 1..Len(q) : (s \o q)[k + 1] = q[k]
  BY <1>1, <1>2
<1>6. s \o q \in Strings /\ Len(s \o q) = Len(q) + 1
  BY <1>1, <1>2, <1>3
<1> QED
  BY <1>4, <1>5, <1>6 DEF s

(* A proper path is a slash and what comes after it.                       *)
LEMMA SlashTail ==
  ASSUME NEW y, Proper(y)
  PROVE  Tail(y) \in Strings /\ <<"/">> \o Tail(y) = y
<1>1. y \in Strings /\ Len(y) \in Nat /\ Len(y) >= 2 /\ y[1] = "/"
  BY ProperFacts
<1>2. y # << >>
  BY <1>1
<1>3. Tail(y) \in Strings /\ Len(Tail(y)) = Len(y) - 1 /\ \A k \in 1..Len(Tail(y)) : Tail(y)[k] = y[k + 1]
  BY <1>1, <1>2, HeadTailProperties DEF Strings
<1> DEFINE q == Tail(y)
           p == <<"/">> \o q
<1>4. /\ p \in Strings /\ Len(p) = Len(q) + 1 /\ p[1] = "/"
      /\ \A k \in 1..Len(q) : p[k + 1] = q[k]
  BY <1>3, SlashConcat
<1>5. Len(q) = Len(y) - 1 /\ \A k \in 1..Len(q) : q[k] = y[k + 1]
  BY <1>3
<1> HIDE DEF p, q
<1>6. Len(p) = Len(y)
  BY <1>1, <1>4, <1>5
<1>7. ASSUME NEW k \in 1..Len(p) PROVE p[k] = y[k]
  <2>1. k # 1 => k - 1 \in 1..Len(q) /\ (k - 1) + 1 = k
    BY <1>1, <1>4, <1>5
  <2>2. k # 1 => p[(k - 1) + 1] = q[k - 1] /\ q[k - 1] = y[(k - 1) + 1]
    BY <1>4, <1>5, <2>1
  <2> QED
    BY <1>1, <1>4, <2>1, <2>2
<1>8. p = y
  BY <1>1, <1>4, <1>6, <1>7, SeqEqual DEF Strings
<1> QED
  BY <1>3, <1>8 DEF p, q

(* A name behind a slash is a proper path.                                 *)
LEMMA ProperName ==
  ASSUME NEW name \in Names
  PROVE  /\ name \in Strings /\ Len(name) \in Nat /\ Len(name) >= 1
         /\ ~StartsWithSlash(name)
         /\ Proper(<<"/">> \o name)
<1>1. /\ name \in Strings /\ name # << >> /\ name # <<".">> /\ name # <<".", ".">>
      /\ \A k \in 1..Len(name) : name[k] # "/"
  BY PathAssumption DEF Strings
<1>2. Len(name) \in Nat /\ Len(name) >= 1
  <2>1. Len(name) \in Nat
    BY <1>1 DEF Strings
  <2> QED
    BY <1>1, <2>1, DotStrings
<1>3. ~StartsWithSlash(name)
  BY <1>1, <1>2 DEF StartsWithSlash
<1>4. ~BadAt(name, 1)
  <2>1. ~(Len(name) = 1 /\ name[1] = ".") /\ ~(Len(name) = 2 /\ name[1] = "." /\ name[2] = ".")
    BY <1>1, DotStrings
  <2>2. /\ name[1] # "/"
        /\ Len(name) >= 2 => name[1 + 1] # "/"
        /\ Len(name) >= 3 => name[1 + 2] # "/"
    <3>1. /\ 1 \in 1..Len(name)
          /\ Len(name) >= 2 => 1 + 1 \in 1..Len(name)
          /\ Len(name) >= 3 => 1 + 2 \in 1..Len(name)
      BY <1>2
    <3> QED
      BY <1>1, <3>1
  <2>3. name[1] = "." => Len(name) # 1 /\ 1 # Len(name)
    BY <1>2, <2>1
  <2>4. name[1] = "." /\ name[1 + 1] = "." => Len(name) # 2 /\ 1 + 1 # Len(name)
    <3>1. name[1 + 1] = name[2]
      OBVIOUS
    <3> QED
      BY <1>2, <2>1, <3>1
  <2>5. 1 # Len(name) + 1
    BY <1>2
  <2>6. ASSUME name[1] = "." PROVE ~(1 = Len(name) \/ name[1 + 1] = "/")
    <3>1. Len(name) # 1
      BY <2>3, <2>6
    <3>2. Len(name) >= 2
      <4>1. Len(name) \in Nat /\ Len(name) >= 1
        BY <1>2
      <4> QED
        BY <3>1, <4>1, SMTT(30)
    <3> QED
      BY <2>2, <3>1, <3>2
  <2>7. ASSUME name[1] = ".", name[1 + 1] = ".", 1 + 1 <= Len(name)
        PROVE  ~(1 + 1 = Len(name) \/ name[1 + 2] = "/")
    <3>1. Len(name) # 2 /\ 1 + 1 # Len(name)
      BY <2>4, <2>7
    <3>2. Len(name) >= 3
      <4>1. \A n \in Nat : n # 2 /\ 1 + 1 <= n => n >= 3
        OBVIOUS
      <4>2. 1 + 1 <= Len(name)
        BY <2>7
      <4> QED
        BY <1>2, <3>1, <4>1, <4>2
    <3> QED
      BY <2>2, <3>1, <3>2
  <2> QED
    BY <2>2, <2>5, <2>6, <2>7 DEF BadAt
<1>5. NoBadPiece(name)
  <2>1. ASSUME NEW m \in 1..(Len(name) + 1), m = 1 \/ name[m - 1] = "/" PROVE m = 1
    <3>1. m # 1 => m - 1 \in 1..Len(name)
      BY <1>2
    <3> QED
      BY <1>1, <2>1, <3>1
  <2> QED
    BY <1>4, <2>1 DEF NoBadPiece
<1> DEFINE p == <<"/">> \o name
<1>6. /\ p \in Strings /\ Len(p) = Len(name) + 1 /\ p[1] = "/"
      /\ \A k \in 1..Len(name) : p[k + 1] = name[k]
  BY <1>1, SlashConcat
<1> HIDE DEF p
<1>7. Proper(p)
  BY <1>1, <1>5, <1>6, SlashBefore
<1> QED
  BY <1>1, <1>2, <1>3, <1>7 DEF p

(* What Join makes of a proper path and a name.                            *)
LEMMA JoinName ==
  ASSUME NEW x, Proper(x), NEW name \in Names
  PROVE  Join(x, name) = x \o (<<"/">> \o name) /\ Proper(Join(x, name))
<1> DEFINE p == x \o (<<"/">> \o name)
<1>1. ~Ends(x) /\ ~IsPrefix(<<"/">>, name)
  <2>1. ~IsAbsolute(name)
    BY ProperName, AbsoluteMeans
  <2> QED
    BY <2>1, ProperFacts DEF IsAbsolute
<1>2. Proper(p)
  BY ProperName, ProperConcat
<1>3. ~Ends(p)
  BY <1>2, ProperFacts
<1>4. Join(x, name) = p
  BY <1>1, <1>3 DEF Join
<1> QED
  BY <1>2, <1>4

(* What Join makes of the served root and the path of a job.               *)
LEMMA JoinRoots ==
  ASSUME NEW x, NEW y
  PROVE  /\ Proper(x) /\ Proper(y) => Join(x, y) = x \o y /\ Proper(Join(x, y))
         /\ Proper(x) /\ y = <<"/">> => Join(x, y) = x
         /\ x = <<"/">> /\ Proper(y) => Join(x, y) = y
         /\ x = <<"/">> /\ y = <<"/">> => Join(x, y) = << >>
         /\ x = << >> /\ Proper(y) => Join(x, y) = y
<1> DEFINE s == <<"/">>
<1>0. s \in Strings /\ Len(s) = 1 /\ s[1] = "/"
  BY SlashIsString
<1>1. s # << >> /\ Tail(s) = << >> /\ Front(s) = << >>
  BY DEF Front
<1> HIDE DEF s
<1>2. Ends(s) /\ IsPrefix(s, s)
  <2>1. StartsWithSlash(s) /\ EndsWithSlash(s)
    BY <1>0 DEF StartsWithSlash, EndsWithSlash
  <2>2. IsAbsolute(s) /\ Ends(s)
    BY <1>0, <2>1, AbsoluteMeans, EndsMeans
  <2> QED
    BY <2>2 DEF IsAbsolute, s
<1>3. ASSUME Proper(x), Proper(y) PROVE Join(x, y) = x \o y /\ Proper(Join(x, y))
  <2>1. ~Ends(x) /\ IsPrefix(<<"/">>, y)
    BY <1>3, ProperFacts DEF IsAbsolute
  <2>2. Proper(x \o y) /\ ~Ends(x \o y)
    BY <1>3, ProperConcat, ProperFacts
  <2>3. Join(x, y) = x \o y
    BY <2>1, <2>2 DEF Join
  <2> QED
    BY <2>2, <2>3
<1>4. ASSUME Proper(x), y = s PROVE Join(x, y) = x
  <2>1. x \in Strings /\ Len(x) \in Nat /\ Len(x) >= 2 /\ ~Ends(x)
    BY <1>4, ProperFacts
  <2>2. IsPrefix(<<"/">>, s)
    BY <1>2 DEF s
  <2>3. /\ x \o s \in Strings /\ Len(x \o s) = Len(x) + 1
        /\ \A k \in 1..Len(x) : (x \o s)[k] = x[k]
        /\ (x \o s)[Len(x) + 1] = "/"
    <3>1. /\ x \o s \in Strings /\ Len(x \o s) = Len(x) + Len(s)
          /\ \A k \in 1..Len(x) : (x \o s)[k] = x[k]
          /\ \A k \in 1..Len(s) : (x \o s)[Len(x) + k] = s[k]
      BY <1>0, <2>1, ConcatMeans
    <3>2. 1 \in 1..Len(s)
      BY <1>0
    <3> QED
      BY <1>0, <3>1, <3>2
  <2> DEFINE p == x \o s
  <2>4. EndsWithSlash(p)
    BY <2>1, <2>3 DEF EndsWithSlash
  <2>5. Ends(p)
    BY <2>3, <2>4, EndsMeans
  <2>6. Front(p) = SubSeq(p, 1, Len(x))
    BY <2>1, <2>3 DEF Front
  <2>7. SubSeq(p, 1, Len(x)) = SubSeq(x, 1, Len(x))
    <3>1. 1 \in 1..Len(x) /\ Len(x) \in 1..Len(x)
      BY <2>1
    <3> QED
      BY <1>0, <2>1, <3>1, SubSeqOfConcat1 DEF Strings
  <2>8. SubSeq(x, 1, Len(x)) = x
    BY <2>1, SubSeqFull DEF Strings
  <2>9. Join(x, s) = Front(p)
    BY <2>1, <2>2, <2>5 DEF Join
  <2> QED
    BY <1>4, <2>6, <2>7, <2>8, <2>9
<1>5. ASSUME x = s, Proper(y) PROVE Join(x, y) = y
  <2>1. y \in Strings /\ IsAbsolute(y) /\ ~Ends(y)
    BY <1>5, ProperFacts
  <2>4. s \o Tail(y) = y
    BY <1>5, SlashTail DEF s
  <2>5. Join(s, y) = s \o Tail(y)
    <3>1. IsPrefix(<<"/">>, y)
      BY <2>1 DEF IsAbsolute
    <3>2. ~Ends(s \o Tail(y))
      BY <2>1, <2>4
    <3> QED
      BY <1>2, <3>1, <3>2 DEF Join
  <2> QED
    BY <1>5, <2>4, <2>5
<1>6. ASSUME x = s, y = s PROVE Join(x, y) = << >>
  <2>1. s \o Tail(s) = s
    BY <1>0, <1>1, ConcatEmptySeq DEF Strings
  <2>2. IsPrefix(<<"/">>, s)
    BY <1>2 DEF s
  <2>3. Join(s, s) = Front(s)
    BY <1>2, <2>1, <2>2 DEF Join
  <2> QED
    BY <1>1, <1>6, <2>3
<1>7. ASSUME x = << >>, Proper(y) PROVE Join(x, y) = y
  <2>1. y \in Strings /\ IsAbsolute(y) /\ ~Ends(y)
    BY <1>7, ProperFacts
  <2>2. << >> \o y = y
    BY <2>1, ConcatEmptySeq DEF Strings
  <2>3. << >> \in Strings /\ ~EndsWithSlash(<< >>)
    BY DEF Strings, EndsWithSlash
  <2>4. ~Ends(<< >>)
    BY <2>3, EndsMeans
  <2>5. IsPrefix(<<"/">>, y)
    BY <2>1 DEF IsAbsolute
  <2>6. Join(<< >>, y) = y
    BY <2>1, <2>2, <2>4, <2>5 DEF Join
  <2> QED
    BY <1>7, <2>6
<1> QED
  BY <1>3, <1>4, <1>5, <1>6, <1>7 DEF s

(* The empty path is not resolved.                                         *)
LEMMA EmptyIsNotResolved == ~IsResolved(<< >>) /\ ~IsAbsolute(<< >>)
<1> DEFINE q == << >>
<1>1. q \in Strings /\ Len(q) = 0
  BY DEF Strings
<1>2. q # <<"/">>
  BY <1>1, SlashIsString
<1> HIDE DEF q
<1>3. ~IsAbsolute(q)
  BY <1>1, AbsoluteMeans DEF StartsWithSlash
<1>4. ~NoBadPiece(q)
  <2>1. 1 \in 1..(Len(q) + 1) /\ BadAt(q, 1)
    BY <1>1 DEF BadAt
  <2> QED
    BY <2>1 DEF NoBadPiece
<1>5. ~IsResolved(q)
  BY <1>1, <1>2, <1>3, <1>4, NoBadPieceMeans DEF IsResolved
<1> QED
  BY <1>3, <1>5 DEF q

(* What follows the slash of a proper path is relative and resolved.       *)
LEMMA RelativeFacts ==
  ASSUME NEW q \in Strings, Proper(<<"/">> \o q)
  PROVE  ~IsAbsolute(q) /\ IsResolved(q) /\ Len(q) \in Nat /\ Len(q) >= 1
<1> DEFINE p == <<"/">> \o q
<1>1. /\ p \in Strings /\ Len(p) = Len(q) + 1 /\ p[1] = "/"
      /\ \A k \in 1..Len(q) : p[k + 1] = q[k]
  BY SlashConcat
<1>2. Proper(p) /\ Len(p) >= 2
  BY ProperFacts
<1> HIDE DEF p
<1>3. Len(q) \in Nat /\ Len(q) >= 1
  <2>1. Len(q) \in Nat
    BY DEF Strings
  <2> QED
    BY <1>1, <1>2, <2>1
<1>4. NoBadPiece(q)
  BY <1>1, <1>2, SlashBefore
<1>5. ~StartsWithSlash(q)
  <2>1. 1 \in 1..(Len(q) + 1)
    BY <1>3
  <2>2. ~BadAt(q, 1)
    BY <1>4, <2>1 DEF NoBadPiece
  <2> QED
    BY <1>3, <2>2 DEF BadAt, StartsWithSlash
<1>6. ~IsAbsolute(q)
  BY <1>5, AbsoluteMeans
<1>7. IsResolved(q)
  BY <1>4, <1>6, NoBadPieceMeans DEF IsResolved
<1> QED
  BY <1>3, <1>6, <1>7

(* A path is another one or leads on from it.                              *)
Inside(d, v) == \E deep \in Strings : d = v \o deep /\ (deep = << >> \/ Proper(deep))

(* What an object is to what is visited, if its directory is inside that.  *)
LEMMA ObjectMeans ==
  ASSUME NEW v, Proper(v), NEW d, Proper(d), Inside(d, v), NEW name \in Names
  PROVE  /\ Proper(Join(d, name)) /\ Inside(Join(d, name), v)
         /\ Comparable(Join(d, name), v) /\ IsChildOf(Join(d, name), v)
         /\ RelativeTo(Join(d, name), v) \in Strings
         /\ Proper(<<"/">> \o RelativeTo(Join(d, name), v))
         /\ Join(d, name) = v \o (<<"/">> \o RelativeTo(Join(d, name), v))
<1> DEFINE object == Join(d, name)
           step == <<"/">> \o name
<1>1. v \in Strings /\ Len(v) \in Nat /\ Len(v) >= 2
  BY ProperFacts
<1>2. Proper(step) /\ step \in Strings
  BY ProperName, ProperFacts
<1>3. object = d \o step /\ Proper(object)
  BY JoinName
<1>4. PICK deep \in Strings : d = v \o deep /\ (deep = << >> \/ Proper(deep))
  BY DEF Inside
<1> HIDE DEF step, object
<1>5. \E way : Proper(way) /\ object = v \o way
  <2>1. CASE deep = << >>
    <3>1. d = v
      BY <1>1, <1>4, <2>1, ConcatEmptySeq DEF Strings
    <3> QED
      BY <1>2, <1>3, <3>1
  <2>2. CASE Proper(deep)
    <3>1. object = v \o (deep \o step)
      <4>1. (v \o deep) \o step = v \o (deep \o step)
        BY <1>1, <1>2, ConcatAssociative, SMTT(30) DEF Strings
      <4> QED
        BY <1>3, <1>4, <4>1
    <3>2. Proper(deep \o step)
      BY <1>2, <2>2, ProperConcat
    <3> QED
      BY <3>1, <3>2
  <2> QED
    BY <1>4, <2>1, <2>2
<1>6. PICK way : Proper(way) /\ object = v \o way
  BY <1>5
<1>7. way \in Strings /\ Len(way) \in Nat /\ Len(way) >= 2
  BY <1>6, ProperFacts
<1>8. Inside(object, v)
  BY <1>6, <1>7 DEF Inside
<1>9. Comparable(object, v)
  BY <1>3, ProperFacts DEF Comparable
<1>10. IsChildOf(object, v)
  <2>1. /\ object \in Strings /\ Len(object) = Len(v) + Len(way)
        /\ \A k \in 1..Len(v) : object[k] = v[k]
    BY <1>1, <1>6, <1>7, ConcatMeans
  <2>2. Len(v) <= Len(object)
    BY <1>1, <1>7, <2>1
  <2>3. IsPrefix(v, object)
    BY <1>1, <2>1, <2>2, PrefixMeans
  <2> QED
    BY <2>3 DEF IsChildOf
<1> DEFINE rest == Tail(way)
           front == v \o <<"/">>
<1>11. rest \in Strings /\ <<"/">> \o rest = way
  BY <1>6, SlashTail
<1>12. Len(rest) = Len(way) - 1
  BY <1>7, HeadTailProperties DEF Strings
<1>13. front \in Strings /\ Len(front) = Len(v) + 1
  BY <1>1, SlashIsString, ConcatMeans
<1>14. object = front \o rest
  <2> DEFINE slash == <<"/">>
  <2>1. v \in Seq(Characters) /\ slash \in Seq(Characters) /\ rest \in Seq(Characters)
    BY <1>1, <1>11, SlashIsString DEF Strings
  <2> HIDE DEF rest, slash
  <2>2. (v \o slash) \o rest = v \o (slash \o rest)
    BY <2>1, ConcatAssociative
  <2> QED
    BY <1>6, <1>11, <2>2, Zenon DEF slash
<1> HIDE DEF rest, front
<1>15. RelativeTo(object, v) = rest
  <2>1. RelativeTo(object, v) = SubSeq(object, Len(v) + 1 + 1, Len(object))
    BY DEF RelativeTo, Substr
  <2>2. Len(object) = Len(front) + Len(rest)
    BY <1>11, <1>13, <1>14, ConcatMeans
  <2>3. /\ Len(front) \in Nat /\ Len(rest) \in Nat /\ Len(rest) >= 1
        /\ Len(v) + 1 + 1 = Len(front) + 1
    BY <1>1, <1>7, <1>12, <1>13
  <2> DEFINE one == Len(front) + 1
             all == Len(front) + Len(rest)
  <2>4. /\ one \in (Len(front) + 1)..(Len(front) + Len(rest))
        /\ all \in (Len(front) + 1)..(Len(front) + Len(rest))
        /\ one - Len(front) = 1 /\ all - Len(front) = Len(rest)
    BY <2>3
  <2> HIDE DEF one, all
  <2>5. SubSeq(front \o rest, one, all) = SubSeq(rest, one - Len(front), all - Len(front))
    <3>1. front \in Seq(Characters) /\ rest \in Seq(Characters)
      BY <1>11, <1>13 DEF Strings
    <3> QED
      BY <2>4, <3>1, SubSeqOfConcat2, ZenonT(40)
  <2>6. SubSeq(rest, 1, Len(rest)) = rest
    BY <1>11, SubSeqFull DEF Strings
  <2> QED
    BY <1>14, <2>1, <2>2, <2>3, <2>4, <2>5, <2>6 DEF one, all
<1> QED
  BY <1>3, <1>6, <1>8, <1>9, <1>10, <1>11, <1>15 DEF object

(* The served root is absolute and resolved; so is the path of an accepted *)
(* job; what is visited is the one joined to the other, and what is read   *)
(* is inside it; what is sent is relative and resolved.                    *)
PathsInv ==
  /\ served \in Strings /\ (served = <<"/">> \/ Proper(served)) /\ NoNul(served)
  /\ phase \in {"accepted", "crawling"} =>
       job \in Strings /\ (job = <<"/">> \/ Proper(job))
  /\ phase = "crawling" =>
       /\ visited = Join(served, job) /\ Proper(visited)
       /\ Proper(dir) /\ Inside(dir, visited)
  /\ phase # "ended" => cause = "none"
  /\ cause = "root" => served = <<"/">> /\ job = <<"/">>
  /\ cause # "object"
  /\ sent # Nothing =>
       sent.path \in Strings /\ Proper(<<"/">> \o sent.path)

(* It holds at first.                                                      *)
LEMMA PathsInitInv == PathsInit => PathsInv
<1> SUFFICES ASSUME PathsInit PROVE PathsInv
  OBVIOUS
<1>1. served \in Strings /\ (served = <<"/">> \/ Proper(served)) /\ NoNul(served)
  <2>1. served \in Strings /\ IsAbsolute(served) /\ IsResolved(served) /\ NoNul(served)
    BY PathAssumption DEF PathsInit, Strings
  <2> QED
    BY <2>1, AbsoluteMeans, ResolvedMeans
<1> QED
  BY <1>1 DEF PathsInit, PathsInv

(* A job is accepted.                                                      *)
LEMMA BeginStep ==
  ASSUME PathsInv, NEW p \in JobPaths, Begin(p)
  PROVE  PathsInv'
<1>1. p \in Strings
  BY PathAssumption DEF Strings
<1>2. IsAbsolute(p) /\ IsResolved(p) => p = <<"/">> \/ Proper(p)
  BY <1>1, AbsoluteMeans, ResolvedMeans
<1>3. phase' \in {"accepted", "idle"} /\ (phase' = "accepted" => IsAbsolute(p) /\ IsResolved(p))
  BY DEF Begin
<1> QED
  BY <1>1, <1>2, <1>3 DEF Begin, PathsInv

(* The root of a crawl is read, or it is the root of the file system.      *)
LEMMA VisitStep ==
  ASSUME PathsInv, Visit
  PROVE  PathsInv'
<1>1. /\ phase = "accepted" /\ cause = "none"
      /\ served = <<"/">> \/ Proper(served)
      /\ job = <<"/">> \/ Proper(job)
  BY DEF Visit, PathsInv
<1>2. /\ visited' = Join(served, job) /\ dir' = Join(<< >>, visited')
      /\ UNCHANGED <<served, job, sent>>
      /\ IsResolved(visited') => phase' = "crawling" /\ cause' = cause
      /\ ~IsResolved(visited') => phase' = "ended" /\ cause' = "root"
  BY DEF Visit, End
<1>3. CASE served = <<"/">> /\ job = <<"/">>
  <2>1. visited' = << >>
    BY <1>2, <1>3, JoinRoots
  <2>2. ~IsResolved(visited')
    BY <2>1, EmptyIsNotResolved
  <2> QED
    BY <1>2, <1>3, <2>2 DEF PathsInv
<1>4. CASE ~(served = <<"/">> /\ job = <<"/">>)
  <2>1. Proper(visited')
    <3>1. CASE Proper(served) /\ Proper(job)
      BY <1>2, <3>1, JoinRoots
    <3>2. CASE Proper(served) /\ job = <<"/">>
      BY <1>2, <3>2, JoinRoots
    <3>3. CASE served = <<"/">> /\ Proper(job)
      BY <1>2, <3>3, JoinRoots
    <3> QED
      BY <1>1, <1>4, <3>1, <3>2, <3>3
  <2>2. dir' = visited'
    <3>1. Join(<< >>, visited') = visited'
      BY <2>1, JoinRoots
    <3> QED
      BY <1>2, <3>1
  <2>3. IsResolved(visited') /\ visited' \in Strings
    BY <2>1, ProperFacts
  <2>4. Inside(dir', visited')
    <3>1. << >> \in Strings /\ visited' \o << >> = visited'
      BY <2>3, ConcatEmptySeq, EmptySeq DEF Strings
    <3> QED
      BY <2>2, <3>1 DEF Inside
  <2>5. phase' = "crawling" /\ cause' = "none"
    BY <1>1, <1>2, <2>3
  <2> QED
    BY <1>1, <1>2, <2>1, <2>2, <2>4, <2>5 DEF PathsInv
<1> QED
  BY <1>3, <1>4

(* The crawl goes down.                                                    *)
LEMMA DescendStep ==
  ASSUME PathsInv, NEW name \in Names, Descend(name)
  PROVE  PathsInv'
<1>1. /\ phase = "crawling" /\ Proper(visited) /\ Proper(dir) /\ Inside(dir, visited)
  BY DEF Descend, PathsInv
<1>2. Proper(Join(dir, name)) /\ Inside(Join(dir, name), visited)
  BY <1>1, ObjectMeans
<1> QED
  BY <1>1, <1>2 DEF Descend, PathsInv

(* What is sent has the path it should have.                               *)
LEMMA SendStep ==
  ASSUME PathsInv, NEW name \in Names, phase = "crawling",
         UNCHANGED <<served, job, visited, dir, names>>,
         NEW link, NEW target, NEW adjusted, Send(name, link, target, adjusted)
  PROVE  PathsInv'
<1>1. Proper(visited) /\ Proper(dir) /\ Inside(dir, visited)
  BY DEF PathsInv
<1>2. /\ RelativeTo(Join(dir, name), visited) \in Strings
      /\ Proper(<<"/">> \o RelativeTo(Join(dir, name), visited))
  BY <1>1, ObjectMeans
<1>3. sent'.path = RelativeTo(Join(dir, name), visited) /\ UNCHANGED <<phase, cause>>
  BY DEF Send
<1> QED
  BY <1>2, <1>3 DEF PathsInv

(* An assertion or an exception about a target.                            *)
LEMMA TargetStep ==
  ASSUME PathsInv, NEW why \in {"target", "substr"}, End(why),
         UNCHANGED <<served, job, visited, dir, names, sent>>
  PROVE  PathsInv'
BY DEF PathsInv, End

(* An object is handled: what is asserted of it holds.                     *)
LEMMA HandleObjectStep ==
  ASSUME PathsInv, NEW name \in Names, NEW link, HandleObject(name, link)
  PROVE  PathsInv'
<1>1. phase = "crawling" /\ Proper(visited) /\ Proper(dir) /\ Inside(dir, visited)
  BY DEF HandleObject, PathsInv
<1>2. Comparable(Join(dir, name), visited) /\ IsChildOf(Join(dir, name), visited)
  BY <1>1, ObjectMeans
<1>3. /\ UNCHANGED <<served, job, visited, dir, names>>
      /\ IF link = NoLink THEN Send(name, NoLink, NoLink, FALSE) ELSE SendLink(name, link)
  BY <1>2 DEF HandleObject
<1>4. CASE Send(name, NoLink, NoLink, FALSE)
  BY <1>1, <1>3, <1>4, SendStep
<1>5. CASE SendLink(name, link)
  <2>1. CASE Send(name, link, link, FALSE)
    BY <1>1, <1>3, <2>1, SendStep
  <2>2. CASE Send(name, link, Substr(RelativeTo(link, visited), 1), TRUE)
    BY <1>1, <1>3, <2>2, SendStep
  <2>3. CASE End("target") /\ UNCHANGED sent
    BY <1>3, <2>3, TargetStep
  <2>4. CASE End("substr") /\ UNCHANGED sent
    BY <1>3, <2>4, TargetStep
  <2> QED
    BY <1>5, <2>1, <2>2, <2>3, <2>4 DEF SendLink
<1> QED
  BY <1>3, <1>4, <1>5

(* Every step keeps the invariant.                                         *)
LEMMA PathsNextInv == PathsInv /\ [PathsNext]_pathVars => PathsInv'
<1> SUFFICES ASSUME PathsInv, [PathsNext]_pathVars PROVE PathsInv'
  OBVIOUS
<1>1. ASSUME NEW p \in JobPaths, Begin(p) PROVE PathsInv'
  BY <1>1, BeginStep
<1>2. CASE Visit
  BY <1>2, VisitStep
<1>3. ASSUME NEW name \in Names, Descend(name) PROVE PathsInv'
  BY <1>3, DescendStep
<1>4. ASSUME NEW name \in Names, NEW link, HandleObject(name, link) PROVE PathsInv'
  BY <1>4, HandleObjectStep
<1>5. CASE Receive
  BY <1>5 DEF Receive, PathsInv
<1>6. CASE Finish
  BY <1>6 DEF Finish, PathsInv
<1>7. CASE UNCHANGED pathVars
  BY <1>7 DEF pathVars, PathsInv
<1> QED
  BY <1>1, <1>2, <1>3, <1>4, <1>5, <1>6, <1>7 DEF PathsNext

(* The server is not brought down by the path of a job or by the name of   *)
(* an object, except when the root of a file system is served and asked    *)
(* for: the assertions of Visit and of HandleObject about what was found.  *)
THEOREM PathsEndForReason == PathsSpec => []EndsForReason
<1>1. PathsInv => EndsForReason
  BY DEF PathsInv, EndsForReason
<1> QED
  BY <1>1, PathsInitInv, PathsNextInv, PTL DEF PathsSpec

-------------------------------------------------------------------------------
(* A set of numbers that has 0 and with each number the next is all of Nat:*)
(* this is how facts about recursive functions are proved here.            *)
LEMMA LeastNat ==
  ASSUME NEW T, T \subseteq Nat, T # {}
  PROVE  \E x \in T : \A y \in T : x <= y
<1> DEFINE Before == OpToRel(<, Nat)
<1>1. IsWellFoundedOn(Before, Nat)
  BY NatLessThanWellFounded
<1>2. \A a, b \in Nat : <<a, b>> \in Before <=> a < b
  BY DEF OpToRel
<1> HIDE DEF Before
<1>3. PICK x \in T : \A y \in T : ~(<<y, x>> \in Before)
  BY <1>1, WFMin
<1>4. \A y \in T : ~(y < x)
  BY <1>2, <1>3
<1> QED
  BY <1>4

(* Induction with a set.                                                   *)
LEMMA InductionSet ==
  ASSUME NEW T, T \subseteq Nat, 0 \in T, \A n \in T : n + 1 \in T
  PROVE  \A n \in Nat : n \in T
<1> SUFFICES ASSUME NEW w \in Nat, w \notin T PROVE FALSE
  OBVIOUS
<1> DEFINE Rest == Nat \ T
<1>1. Rest \subseteq Nat /\ Rest # {}
  OBVIOUS
<1> HIDE DEF Rest
<1>2. PICK x \in Rest : \A y \in Rest : x <= y
  BY <1>1, LeastNat
<1>3. x \in Nat /\ x \notin T /\ x # 0
  BY <1>2 DEF Rest
<1>4. x - 1 \in Nat /\ ~(x <= x - 1) /\ (x - 1) + 1 = x
  BY <1>3
<1>5. x - 1 \in T
  BY <1>2, <1>4 DEF Rest
<1>6. (x - 1) + 1 \in T
  BY <1>5
<1> QED
  BY <1>3, <1>4, <1>6

(* The names in the first k characters, if g gives those in fewer.         *)
NamesStep(p, g, k) ==
  IF k = 0 THEN << >>
  ELSE IF p[k] = "/" THEN g[k - 1]
  ELSE IF k = 1 \/ p[k - 1] = "/" THEN Append(g[k - 1], <<p[k]>>)
  ELSE GoesOn(g[k - 1], p[k])

(* Two functions that agree where it looks give the same names.            *)
LEMMA NamesStepLooks ==
  ASSUME NEW p, NEW g, NEW h, NEW k \in Nat, k # 0 => g[k - 1] = h[k - 1]
  PROVE  NamesStep(p, g, k) = NamesStep(p, h, k)
BY DEF NamesStep

(* NamesSoFar obeys its definition: there is a function that does.         *)
LEMMA NamesSoFarExists ==
  ASSUME NEW p
  PROVE  \A n \in Nat : \E g : g = [k \in 0..n |-> NamesStep(p, g, k)]
<1> DEFINE T == {n \in Nat : \E g : g = [k \in 0..n |-> NamesStep(p, g, k)]}
<1>1. 0 \in T
  <2> DEFINE g == [k \in 0..0 |-> << >>]
  <2>1. \A k \in 0..0 : NamesStep(p, g, k) = << >>
    BY DEF NamesStep
  <2>2. g = [k \in 0..0 |-> NamesStep(p, g, k)]
    BY <2>1
  <2> QED
    BY <2>2
<1>2. ASSUME NEW n \in T PROVE n + 1 \in T
  <2>1. PICK g : g = [k \in 0..n |-> NamesStep(p, g, k)]
    OBVIOUS
  <2>2. n \in Nat
    OBVIOUS
  <2> DEFINE new == NamesStep(p, g, n + 1)
             h == [k \in 0..(n + 1) |-> IF k <= n THEN g[k] ELSE new]
  <2>3. \A k \in 0..n : g[k] = NamesStep(p, g, k)
    BY <2>1
  <2>4. /\ \A k \in 0..n : h[k] = g[k]
        /\ h[n + 1] = new
    <3> HIDE DEF new
    <3> QED
      BY <2>2
  <2>5. ASSUME NEW k \in 0..(n + 1) PROVE h[k] = NamesStep(p, h, k)
    <3>1. k # 0 => k - 1 \in 0..n
      BY <2>2
    <3>2. k # 0 => g[k - 1] = h[k - 1]
      BY <2>4, <3>1
    <3>3. NamesStep(p, g, k) = NamesStep(p, h, k)
      <4> HIDE DEF h
      <4> QED
        BY <2>2, <3>2, NamesStepLooks
    <3>4. h[k] = NamesStep(p, g, k)
      <4>1. k \in 0..n \/ k = n + 1
        BY <2>2
      <4> HIDE DEF h
      <4> QED
        BY <2>3, <2>4, <4>1
    <3> QED
      BY <3>3, <3>4
  <2>6. h = [k \in 0..(n + 1) |-> NamesStep(p, h, k)]
    <3>1. h = [k \in 0..(n + 1) |-> h[k]]
      OBVIOUS
    <3> HIDE DEF h
    <3> QED
      BY <2>5, <3>1
  <2>7. \E f : f = [k \in 0..(n + 1) |-> NamesStep(p, f, k)]
    BY <2>6
  <2> QED
    BY <2>2, <2>7
<1>3. T \subseteq Nat
  OBVIOUS
<1> HIDE DEF T
<1>4. \A n \in Nat : n \in T
  BY <1>1, <1>2, <1>3, InductionSet
<1> QED
  BY <1>4 DEF T

(* The values of NamesSoFar.                                               *)
LEMMA NamesSoFarMeans ==
  ASSUME NEW p \in Strings
  PROVE  \A k \in 0..Len(p) : NamesSoFar(p)[k] = NamesStep(p, NamesSoFar(p), k)
<1>1. Len(p) \in Nat
  BY DEF Strings
<1>2. PICK g : g = [k \in 0..Len(p) |-> NamesStep(p, g, k)]
  BY <1>1, NamesSoFarExists
<1> DEFINE f == CHOOSE h : h = [k \in 0..Len(p) |-> NamesStep(p, h, k)]
<1>3. f = [k \in 0..Len(p) |-> NamesStep(p, f, k)]
  BY <1>2
<1>4. NamesSoFar(p) = f
  BY DEF NamesSoFar, NamesStep
<1> HIDE DEF f
<1>5. \A k \in 0..Len(p) : f[k] = NamesStep(p, f, k)
  BY <1>3
<1> QED
  BY <1>4, <1>5

(* Lists of names.                                                         *)
Lists == Seq(Strings)

(* The last name goes on, and only the last.                               *)
LEMMA GoesOnMeans ==
  ASSUME NEW x \in Lists, x # << >>, NEW c \in Characters
  PROVE  /\ GoesOn(x, c) \in Lists /\ Len(GoesOn(x, c)) = Len(x) /\ GoesOn(x, c) # << >>
         /\ \A k \in 1..Len(x) :
              GoesOn(x, c)[k] = IF k = Len(x) THEN Append(x[Len(x)], c) ELSE x[k]
<1>1. Len(x) \in Nat /\ Len(x) >= 1 /\ Len(x) \in 1..Len(x)
  <2>1. Len(x) \in Nat /\ Len(x) # 0
    BY EmptySeq, LenProperties DEF Lists
  <2> QED
    BY <2>1
<1>2. x[Len(x)] \in Strings
  BY <1>1, ElementOfSeq DEF Lists
<1> DEFINE e == Append(x[Len(x)], c)
<1>3. e \in Strings
  BY <1>2, AppendProperties DEF Strings
<1>4. GoesOn(x, c) = [x EXCEPT ![Len(x)] = e]
  BY DEF GoesOn
<1> HIDE DEF e
<1> DEFINE l == Len(x)
<1>5. /\ [x EXCEPT ![l] = e] \in Lists /\ Len([x EXCEPT ![l] = e]) = Len(x)
      /\ \A k \in 1..Len(x) : [x EXCEPT ![l] = e][k] = IF k = l THEN e ELSE x[k]
  <2>1. l \in 1..Len(x)
    BY <1>1
  <2> HIDE DEF l
  <2> QED
    BY <1>3, <2>1, ExceptSeq DEF Lists
<1> DEFINE y == GoesOn(x, c)
<1>6. y \in Lists /\ Len(y) = Len(x) /\ \A k \in 1..Len(x) : y[k] = IF k = Len(x) THEN e ELSE x[k]
  BY <1>4, <1>5
<1> HIDE DEF y, l
<1>7. y # << >>
  <2>1. Len(y) # 0
    BY <1>1, <1>6
  <2> QED
    BY <2>1, EmptySeq
<1> QED
  BY <1>6, <1>7 DEF y, e

(* What two lists make together.                                           *)
LEMMA ConcatLists ==
  ASSUME NEW x \in Lists, NEW y \in Lists
  PROVE  /\ x \o y \in Lists /\ Len(x \o y) = Len(x) + Len(y)
         /\ Len(x) \in Nat /\ Len(y) \in Nat
         /\ \A k \in 1..Len(x) : (x \o y)[k] = x[k]
         /\ \A k \in 1..Len(y) : (x \o y)[Len(x) + k] = y[k]
         /\ y # << >> => x \o y # << >>
<1> DEFINE p == x \o y
<1>1. Len(x) \in Nat /\ Len(y) \in Nat
  BY DEF Lists
<1>2. /\ p \in Lists /\ Len(p) = Len(x) + Len(y)
      /\ \A k \in 1..(Len(x) + Len(y)) : p[k] = IF k <= Len(x) THEN x[k] ELSE y[k - Len(x)]
  BY <1>1, ConcatProperties DEF Lists
<1>3. y # << >> => p # << >>
  BY ConcatEqualIffEmpty DEF Lists
<1> HIDE DEF p
<1>4. \A k \in 1..Len(x) : p[k] = x[k]
  BY <1>1, <1>2
<1>5. ASSUME NEW k \in 1..Len(y) PROVE p[Len(x) + k] = y[k]
  <2>1. Len(x) + k \in 1..(Len(x) + Len(y)) /\ ~(Len(x) + k <= Len(x)) /\ (Len(x) + k) - Len(x) = k
    BY <1>1
  <2> QED
    BY <1>2, <2>1
<1>6. /\ p \in Lists /\ Len(p) = Len(x) + Len(y)
      /\ \A k \in 1..Len(x) : p[k] = x[k]
      /\ \A k \in 1..Len(y) : p[Len(x) + k] = y[k]
      /\ y # << >> => p # << >>
  BY <1>2, <1>3, <1>4, <1>5
<1> QED
  BY <1>1, <1>6 DEF p

(* Names put before a list do not matter to what is done at its end.       *)
LEMMA GoesOnAfter ==
  ASSUME NEW y \in Lists, NEW x \in Lists, x # << >>, NEW c \in Characters
  PROVE  GoesOn(y \o x, c) = y \o GoesOn(x, c)
<1> DEFINE z == GoesOn(x, c)
           w == y \o x
           a == GoesOn(w, c)
           b == y \o z
<1>1. /\ w \in Lists /\ Len(w) = Len(y) + Len(x) /\ Len(y) \in Nat /\ Len(x) \in Nat
      /\ \A k \in 1..Len(y) : w[k] = y[k]
      /\ \A k \in 1..Len(x) : w[Len(y) + k] = x[k]
      /\ w # << >>
  BY ConcatLists
<1>2. /\ z \in Lists /\ Len(z) = Len(x)
      /\ \A k \in 1..Len(x) : z[k] = IF k = Len(x) THEN Append(x[Len(x)], c) ELSE x[k]
  BY GoesOnMeans
<1> HIDE DEF w, z
<1>3. /\ a \in Lists /\ Len(a) = Len(w)
      /\ \A k \in 1..Len(w) : a[k] = IF k = Len(w) THEN Append(w[Len(w)], c) ELSE w[k]
  BY <1>1, GoesOnMeans
<1>4. /\ b \in Lists /\ Len(b) = Len(y) + Len(z)
      /\ \A k \in 1..Len(y) : b[k] = y[k]
      /\ \A k \in 1..Len(z) : b[Len(y) + k] = z[k]
  BY <1>2, ConcatLists
<1> HIDE DEF a, b
<1>5. Len(x) >= 1
  <2>1. Len(x) # 0
    BY EmptySeq DEF Lists
  <2> QED
    BY <1>1, <2>1
<1>6. w[Len(w)] = x[Len(x)]
  <2>1. Len(x) \in 1..Len(x)
    BY <1>1, <1>5
  <2> QED
    BY <1>1, <2>1
<1>7. ASSUME NEW k \in 1..Len(a) PROVE a[k] = b[k]
  <2>1. CASE k <= Len(y)
    <3>1. k \in 1..Len(y) /\ k \in 1..Len(w) /\ k # Len(w)
      BY <1>1, <1>3, <1>5, <2>1
    <3> QED
      BY <1>1, <1>3, <1>4, <3>1
  <2>2. CASE k > Len(y)
    <3> DEFINE n == k - Len(y)
    <3>1. n \in 1..Len(x) /\ k = Len(y) + n /\ k \in 1..Len(w) /\ (k = Len(w) <=> n = Len(x))
      BY <1>1, <1>3, <2>2
    <3> HIDE DEF n
    <3>2. a[k] = IF n = Len(x) THEN Append(x[Len(x)], c) ELSE w[Len(y) + n]
      BY <1>3, <1>6, <3>1
    <3>3. w[Len(y) + n] = x[n]
      BY <1>1, <3>1
    <3>4. b[k] = IF n = Len(x) THEN Append(x[Len(x)], c) ELSE x[n]
      BY <1>2, <1>4, <3>1
    <3> QED
      BY <3>2, <3>3, <3>4
  <2> QED
    BY <1>1, <1>3, <2>1, <2>2
<1>8. Len(a) = Len(b)
  BY <1>1, <1>2, <1>3, <1>4
<1>9. a = b
  BY <1>3, <1>4, <1>7, <1>8, SeqEqual DEF Lists
<1> QED
  BY <1>9 DEF a, b, w, z

(* A name put behind two lists is put behind the second.                   *)
LEMMA AppendAfter ==
  ASSUME NEW y \in Lists, NEW x \in Lists, NEW e \in Strings
  PROVE  Append(y \o x, e) = y \o Append(x, e)
<1> DEFINE z == <<e>>
<1>1. z \in Lists
  BY DEF Lists
<1>2. y \o x \in Lists
  BY ConcatLists
<1>3. Append(y \o x, e) = (y \o x) \o z /\ Append(x, e) = x \o z
  BY <1>2, AppendIsConcat DEF Lists
<1> HIDE DEF z
<1>4. (y \o x) \o z = y \o (x \o z)
  <2>1. y \in Seq(Strings) /\ x \in Seq(Strings) /\ z \in Seq(Strings)
    BY <1>1 DEF Lists
  <2> QED
    BY <2>1, ConcatAssociative
<1> QED
  BY <1>3, <1>4

(* What the characters of a string make so far is a list of names; behind  *)
(* anything but a slash it is not empty.                                   *)
LEMMA NamesSoFarTypes ==
  ASSUME NEW p \in Strings
  PROVE  \A k \in 0..Len(p) : /\ NamesSoFar(p)[k] \in Lists
                              /\ k >= 1 /\ p[k] # "/" => NamesSoFar(p)[k] # << >>
<1>1. Len(p) \in Nat
  BY DEF Strings
<1> DEFINE f == NamesSoFar(p)
           Good(k) == f[k] \in Lists /\ (k >= 1 /\ p[k] # "/" => f[k] # << >>)
           T == {k \in Nat : k <= Len(p) => Good(k)}
<1>2. \A k \in 0..Len(p) : f[k] = NamesStep(p, f, k)
  BY NamesSoFarMeans
<1> HIDE DEF f
<1>3. 0 \in T
  <2>1. f[0] = << >>
    <3>1. 0 \in 0..Len(p)
      BY <1>1
    <3> QED
      BY <1>2, <3>1 DEF NamesStep
  <2>2. f[0] \in Lists
    BY <2>1 DEF Lists
  <2> QED
    BY <2>2
<1>4. ASSUME NEW n \in T PROVE n + 1 \in T
  <2> SUFFICES ASSUME n + 1 <= Len(p) PROVE Good(n + 1)
    OBVIOUS
  <2>1. n \in Nat /\ n + 1 \in 0..Len(p) /\ n <= Len(p) /\ n + 1 # 0 /\ n + 1 - 1 = n /\ n + 1 >= 1
    BY <1>1
  <2>2. f[n] \in Lists /\ (n >= 1 /\ p[n] # "/" => f[n] # << >>)
    BY <2>1
  <2> DEFINE m == n + 1
             c == p[m]
  <2>3. m \in 1..Len(p) /\ m - 1 = n /\ m # 0 /\ m \in 0..Len(p) /\ (m # 1 => n >= 1)
    BY <2>1
  <2>4. c \in Characters
    BY <2>3, ElementOfSeq DEF Strings
  <2>5. f[m] = NamesStep(p, f, m)
    BY <1>2, <2>3
  <2> HIDE DEF m, c
  <2>6. CASE c = "/"
    <3>1. f[m] = f[n]
      BY <2>3, <2>5, <2>6 DEF NamesStep, c
    <3> QED
      BY <2>2, <2>6, <3>1 DEF m, c
  <2>7. CASE c # "/" /\ (m = 1 \/ p[n] = "/")
    <3>1. f[m] = Append(f[n], <<c>>)
      BY <2>3, <2>5, <2>7 DEF NamesStep, c
    <3>2. <<c>> \in Strings
      BY <2>4 DEF Strings
    <3> DEFINE e == <<c>>
    <3> HIDE DEF e
    <3>3. Append(f[n], e) \in Lists /\ Append(f[n], e) # << >>
      <4>1. e \in Strings
        BY <3>2 DEF e
      <4> QED
        BY <2>2, <4>1, AppendProperties DEF Lists
    <3> QED
      BY <3>1, <3>3 DEF m, e
  <2>8. CASE c # "/" /\ m # 1 /\ p[n] # "/"
    <3>1. f[m] = GoesOn(f[n], c)
      BY <2>3, <2>5, <2>8 DEF NamesStep, c
    <3>2. f[n] # << >>
      BY <2>2, <2>3, <2>8
    <3>3. GoesOn(f[n], c) \in Lists /\ GoesOn(f[n], c) # << >>
      BY <2>2, <2>4, <3>2, GoesOnMeans
    <3> QED
      BY <3>1, <3>3 DEF m
  <2> QED
    BY <2>6, <2>7, <2>8
<1>5. T \subseteq Nat
  OBVIOUS
<1> HIDE DEF T
<1>6. \A k \in Nat : k \in T
  BY <1>3, <1>4, <1>5, InductionSet
<1>7. \A k \in 0..Len(p) : Good(k)
  BY <1>1, <1>6 DEF T
<1> QED
  BY <1>7 DEF f

(* The names in the first characters do not depend on what follows.        *)
LEMMA NamesOfPrefix ==
  ASSUME NEW p \in Strings, NEW q \in Strings
  PROVE  \A k \in 0..Len(p) : NamesSoFar(p \o q)[k] = NamesSoFar(p)[k]
<1> DEFINE w == p \o q
           f == NamesSoFar(p)
           h == NamesSoFar(w)
           T == {k \in Nat : k <= Len(p) => h[k] = f[k]}
<1>1. /\ w \in Strings /\ Len(w) = Len(p) + Len(q) /\ Len(p) \in Nat /\ Len(q) \in Nat
      /\ \A k \in 1..Len(p) : w[k] = p[k]
  <2>1. Len(p) \in Nat /\ Len(q) \in Nat
    BY DEF Strings
  <2> QED
    BY <2>1, ConcatMeans
<1>2. \A k \in 0..Len(p) : f[k] = NamesStep(p, f, k)
  BY NamesSoFarMeans
<1>3. \A k \in 0..Len(w) : h[k] = NamesStep(w, h, k)
  <2> HIDE DEF w
  <2> QED
    BY <1>1, NamesSoFarMeans
<1> HIDE DEF w, f, h
<1>4. 0 \in T
  <2>1. 0 \in 0..Len(p) /\ 0 \in 0..Len(w)
    BY <1>1
  <2>2. f[0] = << >> /\ h[0] = << >>
    BY <1>2, <1>3, <2>1 DEF NamesStep
  <2> QED
    BY <2>2
<1>5. ASSUME NEW n \in T PROVE n + 1 \in T
  <2> DEFINE m == n + 1
  <2>1. n \in Nat
    OBVIOUS
  <2>2. ASSUME m <= Len(p) PROVE h[m] = f[m]
    <3>1. /\ m \in 0..Len(p) /\ m \in 0..Len(w) /\ m \in 1..Len(p) /\ m - 1 = n /\ m # 0
          /\ m # 1 => n \in 1..Len(p)
          /\ n <= Len(p)
      BY <1>1, <2>1, <2>2
    <3>2. h[n] = f[n]
      BY <3>1
    <3> HIDE DEF m
    <3>3. w[m] = p[m] /\ (m # 1 => w[n] = p[n])
      BY <1>1, <3>1
    <3>4. f[m] = NamesStep(p, f, m) /\ h[m] = NamesStep(w, h, m)
      BY <1>2, <1>3, <3>1
    <3>5. NamesStep(w, h, m) = NamesStep(p, f, m)
      BY <3>1, <3>2, <3>3 DEF NamesStep
    <3> QED
      BY <3>4, <3>5
  <2> QED
    BY <2>1, <2>2
<1>6. T \subseteq Nat
  OBVIOUS
<1> HIDE DEF T
<1>7. \A k \in Nat : k \in T
  BY <1>4, <1>5, <1>6, InductionSet
<1>8. \A k \in 0..Len(p) : h[k] = f[k]
  BY <1>1, <1>7 DEF T
<1> QED
  BY <1>8 DEF f, h, w

(* Where a slash is between two strings, the names of both together are    *)
(* those of the one and then those of the other.                           *)
LEMMA ComponentsOfConcat ==
  ASSUME NEW p \in Strings, NEW q \in Strings, StartsWithSlash(q) \/ EndsWithSlash(p)
  PROVE  Components(p \o q) = Components(p) \o Components(q)
<1> DEFINE w == p \o q
           f == NamesSoFar(p)
           g == NamesSoFar(q)
           h == NamesSoFar(w)
           lp == Len(p)
           y == f[lp]
           T == {k \in Nat : k <= Len(q) => h[lp + k] = y \o g[k]}
<1>1. /\ w \in Strings /\ Len(w) = lp + Len(q) /\ lp \in Nat /\ Len(q) \in Nat
      /\ \A k \in 1..Len(p) : w[k] = p[k]
      /\ \A k \in 1..Len(q) : w[lp + k] = q[k]
  <2>1. Len(p) \in Nat /\ Len(q) \in Nat
    BY DEF Strings
  <2> QED
    BY <2>1, ConcatMeans
<1>2. \A k \in 0..Len(q) : g[k] = NamesStep(q, g, k)
  BY NamesSoFarMeans
<1>3. \A k \in 0..Len(w) : h[k] = NamesStep(w, h, k)
  <2> HIDE DEF w
  <2> QED
    BY <1>1, NamesSoFarMeans
<1>4. h[lp] = y
  <2>1. lp \in 0..lp
    BY <1>1
  <2> QED
    BY <2>1, NamesOfPrefix
<1>5. y \in Lists
  <2>1. lp \in 0..lp
    BY <1>1
  <2> QED
    BY <2>1, NamesSoFarTypes
<1>6. \A k \in 0..Len(q) : g[k] \in Lists /\ (k >= 1 /\ q[k] # "/" => g[k] # << >>)
  BY NamesSoFarTypes
<1>7. lp >= 1 /\ q[1] # "/" => w[lp] = "/"
  <2>1. lp >= 1 => w[lp] = p[lp]
    BY <1>1
  <2> HIDE DEF w
  <2> QED
    BY <2>1 DEF StartsWithSlash, EndsWithSlash
<1>8. q[1] # "/" /\ Len(q) >= 1 => lp >= 1
  BY DEF StartsWithSlash, EndsWithSlash
<1> HIDE DEF w, f, g, h, lp, y
<1>9. 0 \in T
  <2>1. 0 \in 0..Len(q) /\ lp + 0 = lp
    BY <1>1
  <2>2. g[0] = << >>
    BY <1>2, <2>1 DEF NamesStep
  <2>3. y \o << >> = y
    BY <1>5, ConcatEmptySeq DEF Lists
  <2> QED
    BY <1>4, <2>1, <2>2, <2>3
<1>10. ASSUME NEW n \in T PROVE n + 1 \in T
  <2>1. n \in Nat
    OBVIOUS
  <2> DEFINE m == n + 1
             wm == lp + m
             c == q[m]
             wn == lp + n
  <2>2. ASSUME m <= Len(q) PROVE h[wm] = y \o g[m]
    <3>1. /\ m \in 1..Len(q) /\ m \in 0..Len(q) /\ n \in 0..Len(q) /\ n <= Len(q)
          /\ m - 1 = n /\ m # 0 /\ (m # 1 => n \in 1..Len(q) /\ n >= 1) /\ (m = 1 => n = 0)
          /\ wm \in 0..Len(w) /\ wm - 1 = wn /\ wm # 0
          /\ (wm = 1 => lp = 0 /\ m = 1) /\ (m # 1 => wm # 1)
      BY <1>1, <2>1, <2>2
    <3>2. h[wn] = y \o g[n]
      BY <3>1
    <3>3. w[wm] = c /\ (m # 1 => w[wn] = q[n])
      BY <1>1, <3>1
    <3>4. g[m] = NamesStep(q, g, m) /\ h[wm] = NamesStep(w, h, wm)
      BY <1>2, <1>3, <3>1
    <3>5. g[n] \in Lists /\ (m # 1 /\ q[n] # "/" => g[n] # << >>)
      BY <1>6, <3>1
    <3>6. c \in Characters
      BY <3>1, ElementOfSeq DEF Strings
    <3>7. m = 1 /\ c # "/" => wm # 1 /\ w[wn] = "/"
      <4>1. m = 1 => wn = lp /\ c = q[1] /\ Len(q) >= 1
        BY <1>1, <3>1
      <4>2. m = 1 /\ c # "/" => lp >= 1 /\ w[wn] = "/"
        BY <1>7, <1>8, <4>1
      <4>3. lp >= 1 => lp # 0
        BY <1>1
      <4> QED
        BY <3>1, <4>2, <4>3
    <3> HIDE DEF m, wm, wn
    <3>8. CASE c = "/"
      <4>1. g[m] = g[n]
        BY <3>1, <3>4, <3>8 DEF NamesStep
      <4>2. h[wm] = h[wn]
        BY <3>1, <3>3, <3>4, <3>8 DEF NamesStep
      <4> QED
        BY <3>2, <4>1, <4>2
    <3>9. CASE c # "/" /\ (m = 1 \/ q[n] = "/")
      <4>1. g[m] = Append(g[n], <<c>>)
        BY <3>1, <3>4, <3>9 DEF NamesStep
      <4>2. wm = 1 \/ w[wn] = "/"
        BY <3>3, <3>7, <3>9
      <4>3. h[wm] = Append(h[wn], <<c>>)
        BY <3>1, <3>3, <3>4, <3>9, <4>2 DEF NamesStep
      <4> DEFINE e == <<c>>
                 x == g[n]
      <4>4. e \in Strings
        BY <3>6 DEF Strings
      <4> HIDE DEF e
      <4>5. Append(y \o x, e) = y \o Append(x, e)
        <5>1. x \in Lists
          BY <3>5
        <5> HIDE DEF x
        <5> QED
          BY <1>5, <4>4, <5>1, AppendAfter
      <4> QED
        BY <3>2, <4>1, <4>3, <4>5 DEF e
    <3>10. CASE c # "/" /\ m # 1 /\ q[n] # "/"
      <4>1. g[m] = GoesOn(g[n], c)
        BY <3>1, <3>4, <3>10 DEF NamesStep
      <4>2. h[wm] = GoesOn(h[wn], c)
        BY <3>1, <3>3, <3>4, <3>10 DEF NamesStep
      <4>3. g[n] # << >>
        BY <3>5, <3>10
      <4>4. GoesOn(y \o g[n], c) = y \o GoesOn(g[n], c)
        BY <1>5, <3>5, <3>6, <4>3, GoesOnAfter
      <4> QED
        BY <3>2, <4>1, <4>2, <4>4
    <3> QED
      BY <3>8, <3>9, <3>10
  <2> QED
    BY <2>1, <2>2
<1>11. T \subseteq Nat
  OBVIOUS
<1> HIDE DEF T
<1>12. \A k \in Nat : k \in T
  BY <1>9, <1>10, <1>11, InductionSet
<1>13. h[lp + Len(q)] = y \o g[Len(q)]
  <2>1. Len(q) \in Nat /\ Len(q) <= Len(q)
    BY <1>1
  <2> QED
    BY <1>12, <2>1 DEF T
<1> QED
  BY <1>1, <1>13 DEF Components, w, f, g, h, lp, y

(* The names of a path are a list of names.                                *)
LEMMA ComponentsTypes ==
  ASSUME NEW p \in Strings
  PROVE  Components(p) \in Lists
<1>1. Len(p) \in 0..Len(p)
  BY DEF Strings
<1> QED
  BY <1>1, NamesSoFarTypes DEF Components

(* A slash alone has no name in it.                                        *)
LEMMA ComponentsOfSlash == Components(<<"/">>) = << >>
<1> DEFINE s == <<"/">>
<1>1. s \in Strings /\ Len(s) = 1 /\ s[1] = "/"
  BY SlashIsString
<1> HIDE DEF s
<1>2. \A k \in 0..1 : NamesSoFar(s)[k] = NamesStep(s, NamesSoFar(s), k)
  BY <1>1, NamesSoFarMeans
<1>3. NamesSoFar(s)[0] = << >>
  BY <1>2 DEF NamesStep
<1>4. NamesSoFar(s)[1] = NamesSoFar(s)[0]
  <2>1. NamesSoFar(s)[1] = NamesStep(s, NamesSoFar(s), 1)
    BY <1>2
  <2>2. NamesStep(s, NamesSoFar(s), 1) = NamesSoFar(s)[1 - 1]
    BY <1>1 DEF NamesStep
  <2> QED
    BY <2>1, <2>2
<1> QED
  BY <1>1, <1>3, <1>4 DEF Components, s

(* A slash in front adds no name.                                          *)
LEMMA ComponentsBehindSlash ==
  ASSUME NEW q \in Strings
  PROVE  Components(<<"/">> \o q) = Components(q)
<1> DEFINE s == <<"/">>
<1>1. s \in Strings /\ EndsWithSlash(s) /\ Components(s) = << >>
  <2>1. s \in Strings /\ Len(s) = 1 /\ s[1] = "/"
    BY SlashIsString
  <2> QED
    BY <2>1, ComponentsOfSlash DEF EndsWithSlash
<1> HIDE DEF s
<1>2. Components(s \o q) = Components(s) \o Components(q)
  BY <1>1, ComponentsOfConcat
<1>3. << >> \o Components(q) = Components(q)
  BY ComponentsTypes, ConcatEmptySeq DEF Lists
<1> QED
  BY <1>1, <1>2, <1>3 DEF s

(* A name is one name.                                                     *)
LEMMA ComponentsOfName ==
  ASSUME NEW name \in Names
  PROVE  Components(name) = <<name>>
<1> DEFINE f == NamesSoFar(name)
           Upto(k) == SubSeq(name, 1, k)
           T == {k \in Nat : k + 1 <= Len(name) => f[k + 1] = <<Upto(k + 1)>>}
<1>1. name \in Strings /\ Len(name) \in Nat /\ Len(name) >= 1
  BY ProperName
<1>2. \A k \in 1..Len(name) : name[k] # "/"
  BY PathAssumption
<1>3. \A k \in 0..Len(name) : f[k] = NamesStep(name, f, k)
  BY <1>1, NamesSoFarMeans
<1>4. \A k \in 1..Len(name) : name[k] \in Characters
  BY <1>1, ElementOfSeq DEF Strings
<1>5. \A k \in 1..Len(name) : Upto(k) = Upto(k - 1) \o <<name[k]>>
  <2>1. ASSUME NEW k \in 1..Len(name) PROVE Upto(k) = Upto(k - 1) \o <<name[k]>>
    <3>1. 1 \in 1..Len(name) /\ k \in 1..Len(name)
      BY <1>1
    <3> QED
      BY <1>1, <3>1, SubSeqRecursiveSecond DEF Strings
  <2> QED
    BY <2>1
<1>6. \A k \in 0..Len(name) : Upto(k) \in Strings
  <2>1. ASSUME NEW k \in 0..Len(name) PROVE Upto(k) \in Strings
    <3>1. 1 \in 1..(Len(name) + 1) /\ 1 <= k + 1
      BY <1>1
    <3> QED
      BY <1>1, <3>1, PartOfString
  <2> QED
    BY <2>1
<1>7. Upto(0) = << >>
  BY SubSeqEmpty
<1> HIDE DEF f, Upto
<1>8. 0 \in T
  <2>1. 0 \in 0..Len(name) /\ 1 \in 0..Len(name) /\ 1 \in 1..Len(name)
    BY <1>1
  <2>2. f[0] = << >>
    BY <1>3, <2>1 DEF NamesStep
  <2> DEFINE c == name[1]
  <2>3. c # "/"
    BY <1>2, <2>1
  <2>4. f[1] = Append(f[0], <<c>>)
    <3>1. f[1] = NamesStep(name, f, 1)
      BY <1>3, <2>1
    <3>2. NamesStep(name, f, 1) = Append(f[1 - 1], <<c>>)
      BY <2>3 DEF NamesStep
    <3> QED
      BY <3>1, <3>2
  <2>5. Upto(1) = <<c>>
    <3>1. Upto(1) = Upto(1 - 1) \o <<c>>
      BY <1>5, <2>1
    <3>2. Upto(1 - 1) = << >>
      BY <1>7
    <3> DEFINE e == <<c>>
    <3>3. e \in Strings
      BY <1>4, <2>1 DEF Strings
    <3> HIDE DEF e
    <3>4. << >> \o e = e
      BY <3>3, ConcatEmptySeq DEF Strings
    <3> QED
      BY <3>1, <3>2, <3>4 DEF e
  <2>6. f[1] = <<Upto(1)>>
    <3> DEFINE e == <<c>>
    <3> HIDE DEF e
    <3>1. Append(<< >>, e) = <<e>>
      OBVIOUS
    <3> QED
      BY <2>2, <2>4, <2>5, <3>1 DEF e
  <2> QED
    BY <2>6
<1>9. ASSUME NEW n \in T PROVE n + 1 \in T
  <2> DEFINE k == n + 1
             m == k + 1
             c == name[m]
             s == Upto(k)
  <2>1. n \in Nat
    OBVIOUS
  <2>2. ASSUME m <= Len(name) PROVE f[m] = <<Upto(m)>>
    <3>1. /\ k \in 1..Len(name) /\ k \in 0..Len(name) /\ k <= Len(name)
          /\ m \in 1..Len(name) /\ m \in 0..Len(name) /\ m - 1 = k /\ m # 0 /\ m # 1
      BY <1>1, <2>1, <2>2
    <3>2. f[k] = <<s>>
      BY <3>1
    <3>3. s \in Strings /\ c \in Characters /\ c # "/" /\ name[k] # "/"
      BY <1>2, <1>4, <1>6, <3>1
    <3>4. f[m] = NamesStep(name, f, m)
      BY <1>3, <3>1
    <3>5. Upto(m) = s \o <<c>>
      <4>1. Upto(m) = Upto(m - 1) \o <<name[m]>>
        BY <1>5, <3>1
      <4> QED
        BY <3>1, <4>1
    <3> HIDE DEF k, m, s
    <3>6. f[m] = GoesOn(f[k], c)
      BY <3>1, <3>3, <3>4 DEF NamesStep
    <3>7. GoesOn(<<s>>, c) = <<Append(s, c)>>
      BY DEF GoesOn
    <3>8. Append(s, c) = s \o <<c>>
      BY <3>3, AppendIsConcat DEF Strings
    <3> QED
      BY <3>2, <3>5, <3>6, <3>7, <3>8
  <2> QED
    BY <2>1, <2>2
<1>10. T \subseteq Nat
  OBVIOUS
<1> HIDE DEF T
<1>11. \A k \in Nat : k \in T
  BY <1>8, <1>9, <1>10, InductionSet
<1>12. f[Len(name)] = <<Upto(Len(name))>>
  <2>1. Len(name) - 1 \in Nat /\ (Len(name) - 1) + 1 = Len(name)
    BY <1>1
  <2>2. Len(name) - 1 \in T
    BY <1>11, <2>1
  <2>3. (Len(name) - 1) + 1 <= Len(name) => f[(Len(name) - 1) + 1] = <<Upto((Len(name) - 1) + 1)>>
    BY <2>2 DEF T
  <2> QED
    BY <1>1, <2>1, <2>3
<1>13. Upto(Len(name)) = name
  BY <1>1, SubSeqFull DEF Strings, Upto
<1> QED
  BY <1>12, <1>13 DEF Components, f

(* A name joined to a path comes after the names of the path.              *)
LEMMA ComponentsOfJoin ==
  ASSUME NEW x, Proper(x), NEW name \in Names
  PROVE  Components(Join(x, name)) = Append(Components(x), name)
<1> DEFINE step == <<"/">> \o name
<1>1. x \in Strings /\ name \in Strings
  BY ProperFacts, ProperName
<1>2. step \in Strings /\ StartsWithSlash(step)
  BY ProperName, ProperFacts
<1>3. Components(step) = <<name>>
  BY <1>1, ComponentsBehindSlash, ComponentsOfName
<1>4. Join(x, name) = x \o step
  BY JoinName
<1> HIDE DEF step
<1>5. Components(x \o step) = Components(x) \o Components(step)
  BY <1>1, <1>2, ComponentsOfConcat
<1>6. Append(Components(x), name) = Components(x) \o <<name>>
  BY <1>1, ComponentsTypes, AppendIsConcat DEF Lists
<1> QED
  BY <1>3, <1>4, <1>5, <1>6

(* The names of what is visited are those of the root and of the job.      *)
LEMMA ComponentsOfVisited ==
  ASSUME NEW x \in Strings, x = <<"/">> \/ Proper(x), NEW y \in Strings, y = <<"/">> \/ Proper(y),
         Proper(Join(x, y))
  PROVE  Components(Join(x, y)) = Components(x) \o Components(y)
<1> DEFINE s == <<"/">>
<1>1. Components(s) = << >> /\ Components(x) \in Lists /\ Components(y) \in Lists
  BY ComponentsOfSlash, ComponentsTypes
<1>2. /\ Components(x) \o << >> = Components(x)
      /\ << >> \o Components(y) = Components(y)
  BY <1>1, ConcatEmptySeq DEF Lists
<1>3. CASE Proper(x) /\ Proper(y)
  <2>1. Join(x, y) = x \o y
    BY <1>3, JoinRoots
  <2>2. StartsWithSlash(y)
    BY <1>3, ProperFacts
  <2> QED
    BY <2>1, <2>2, ComponentsOfConcat
<1>4. CASE Proper(x) /\ y = s
  <2>1. Join(x, y) = x
    BY <1>4, JoinRoots
  <2> QED
    BY <1>1, <1>2, <1>4, <2>1
<1>5. CASE x = s /\ Proper(y)
  <2>1. Join(x, y) = y
    BY <1>5, JoinRoots
  <2> QED
    BY <1>1, <1>2, <1>5, <2>1
<1>6. CASE x = s /\ y = s
  <2>1. Join(x, y) = << >>
    BY <1>6, JoinRoots
  <2>2. ~IsResolved(Join(x, y))
    BY <2>1, EmptyIsNotResolved
  <2> QED
    BY <2>2, ProperFacts
<1> QED
  BY <1>3, <1>4, <1>5, <1>6

(* The names of the whole paths, which the server has joined.              *)
VisitedNames ==
  phase = "crawling" =>
    /\ Components(visited) = Components(served) \o Components(job)
    /\ Components(dir) = Components(visited) \o names

(* A path joined from two without a NUL is opened as it is.                *)
LEMMA JoinedIsOpened ==
  ASSUME NEW x \in Strings, x = <<"/">> \/ Proper(x), NEW y \in Strings, y = <<"/">> \/ Proper(y),
         Proper(Join(x, y)), NoNul(x), NoNul(y)
  PROVE  CString(Join(x, y)) = Join(x, y)
<1>1. NoNul(x \o y)
  BY ConcatProperties DEF NoNul, Strings
<1>2. ~Proper(<< >>)
  BY EmptyIsNotResolved, ProperFacts
<1>3. Join(x, y) \in {x, y, x \o y}
  BY <1>2, JoinRoots
<1>4. NoNul(Join(x, y))
  BY <1>1, <1>3
<1> QED
  BY <1>4 DEF CString

(* The names that are kept are those of the paths.                         *)
NamesInv ==
  /\ PathsInv
  /\ phase = "crawling" => names \in Lists
  /\ VisitedNames
  /\ PathIsNames

(* The root of a crawl has the names it should have.                       *)
LEMMA VisitNames ==
  ASSUME NamesInv, Visit, PathsInv'
  PROVE  NamesInv'
<1>1. sent' = sent /\ served' = served /\ job' = job /\ names' = << >> /\ visited' = Join(served, job)
      /\ dir' = Join(<< >>, visited') /\ phase = "accepted"
  BY DEF Visit
<1>2. PathIsNames'
  BY <1>1 DEF NamesInv, PathIsNames
<1>3. ASSUME phase' = "crawling"
      PROVE  /\ names' \in Lists
             /\ Components(visited') = Components(served') \o Components(job')
             /\ Components(dir') = Components(visited') \o names'
  <2>1. /\ served \in Strings /\ (served = <<"/">> \/ Proper(served))
        /\ job \in Strings /\ (job = <<"/">> \/ Proper(job))
    BY <1>1 DEF NamesInv, PathsInv
  <2>2. Proper(visited')
    BY <1>3 DEF PathsInv
  <2>3. Components(visited') = Components(served) \o Components(job)
    BY <1>1, <2>1, <2>2, ComponentsOfVisited
  <2>4. dir' = visited'
    <3>1. Join(<< >>, visited') = visited'
      BY <2>2, JoinRoots
    <3> QED
      BY <1>1, <3>1
  <2>5. Components(visited') \o << >> = Components(visited') /\ << >> \in Lists
    <3>1. visited' \in Strings
      BY <2>2, ProperFacts
    <3> QED
      BY <3>1, ComponentsTypes, ConcatEmptySeq, EmptySeq DEF Lists
  <2> QED
    BY <1>1, <2>3, <2>4, <2>5
<1> QED
  BY <1>2, <1>3 DEF NamesInv, VisitedNames

(* The crawl goes down by a name.                                          *)
LEMMA DescendNames ==
  ASSUME NamesInv, NEW name \in Names, Descend(name), PathsInv'
  PROVE  NamesInv'
<1>1. /\ phase = "crawling" /\ dir' = Join(dir, name) /\ names' = Append(names, name)
      /\ UNCHANGED <<served, job, phase, cause, visited, sent>>
  BY DEF Descend
<1>2. /\ names \in Lists /\ Proper(dir) /\ Proper(visited)
      /\ Components(visited) = Components(served) \o Components(job)
      /\ Components(dir) = Components(visited) \o names
  BY <1>1 DEF NamesInv, PathsInv, VisitedNames
<1>3. PathIsNames'
  BY <1>1 DEF NamesInv, PathIsNames
<1>4. name \in Strings /\ visited \in Strings
  BY <1>2, ProperName, ProperFacts
<1>5. Append(names, name) \in Lists
  BY <1>2, <1>4, AppendProperties DEF Lists
<1>6. Append(Components(visited) \o names, name) = Components(visited) \o Append(names, name)
  BY <1>2, <1>4, ComponentsTypes, AppendAfter
<1>7. Components(dir') = Components(visited) \o names'
  BY <1>1, <1>2, <1>6, ComponentsOfJoin
<1>8. VisitedNames'
  BY <1>1, <1>2, <1>7 DEF VisitedNames
<1> QED
  BY <1>1, <1>3, <1>5, <1>8 DEF NamesInv

(* The path of what is sent has the names that lead to it.                 *)
LEMMA SendNames ==
  ASSUME NamesInv, NEW name \in Names, phase = "crawling",
         UNCHANGED <<served, job, visited, dir, names>>, PathsInv',
         NEW link, NEW target, NEW adjusted, Send(name, link, target, adjusted)
  PROVE  NamesInv'
<1>1. /\ names \in Lists /\ Proper(dir) /\ Proper(visited) /\ Inside(dir, visited)
      /\ Components(dir) = Components(visited) \o names
  BY DEF NamesInv, PathsInv, VisitedNames
<1> DEFINE path == RelativeTo(Join(dir, name), visited)
           way == <<"/">> \o path
<1>2. /\ sent'.path = path /\ sent'.names = Append(names, name)
      /\ UNCHANGED <<phase, cause>>
  BY DEF Send
<1>3. path \in Strings /\ Proper(way) /\ Join(dir, name) = visited \o way
  BY <1>1, ObjectMeans
<1>4. visited \in Strings /\ way \in Strings /\ StartsWithSlash(way) /\ name \in Strings
  BY <1>1, <1>3, ProperFacts, ProperName
<1>5. ~IsAbsolute(path) /\ IsResolved(path)
  BY <1>3, RelativeFacts
<1>6. Components(way) = Components(path)
  BY <1>3, ComponentsBehindSlash
<1> HIDE DEF way, path
<1>7. Components(visited \o way) = Components(visited) \o Components(way)
  BY <1>4, ComponentsOfConcat
<1>8. Components(Join(dir, name)) = Components(visited) \o Append(names, name)
  <2>1. Components(Join(dir, name)) = Append(Components(dir), name)
    BY <1>1, ComponentsOfJoin
  <2>2. Append(Components(visited) \o names, name) = Components(visited) \o Append(names, name)
    BY <1>1, <1>4, ComponentsTypes, AppendAfter
  <2> QED
    BY <1>1, <2>1, <2>2
<1>9. Components(path) = Append(names, name)
  <2>1. /\ Components(visited) \in Lists /\ Components(path) \in Lists
        /\ Append(names, name) \in Lists
    BY <1>1, <1>3, <1>4, ComponentsTypes, AppendProperties DEF Lists
  <2>2. Components(visited) \o Components(path) = Components(visited) \o Append(names, name)
    BY <1>3, <1>6, <1>7, <1>8
  <2>3. \A s, t, u \in Lists : s \o t = s \o u => t = u
    BY ConcatSimplifications DEF Lists
  <2> QED
    BY <2>1, <2>2, <2>3
<1>10. PathIsNames'
  BY <1>2, <1>5, <1>9 DEF PathIsNames
<1>11. VisitedNames' /\ names' \in Lists
  BY <1>1, <1>2 DEF NamesInv, VisitedNames
<1> QED
  BY <1>10, <1>11 DEF NamesInv

(* An object is handled.                                                   *)
LEMMA HandleObjectNames ==
  ASSUME NamesInv, NEW name \in Names, NEW link, HandleObject(name, link), PathsInv'
  PROVE  NamesInv'
<1>1. phase = "crawling" /\ UNCHANGED <<served, job, visited, dir, names>>
  BY DEF HandleObject
<1>2. ASSUME NEW why, End(why), UNCHANGED sent, why # "crawling" PROVE NamesInv'
  <2>1. phase' = "ended"
    BY <1>2 DEF End
  <2> QED
    BY <1>2, <2>1 DEF NamesInv, VisitedNames, PathIsNames
<1>3. \/ \E target, adjusted : Send(name, link, target, adjusted)
      \/ \E why \in {"target", "substr", "object"} : End(why) /\ UNCHANGED sent
  BY DEF HandleObject, SendLink
<1>4. ASSUME NEW target, NEW adjusted, Send(name, link, target, adjusted) PROVE NamesInv'
  BY <1>1, <1>4, SendNames
<1> QED
  BY <1>2, <1>3, <1>4

(* Every step keeps the names.                                             *)
LEMMA NamesNextInv == NamesInv /\ [PathsNext]_pathVars => NamesInv'
<1> SUFFICES ASSUME NamesInv, [PathsNext]_pathVars PROVE NamesInv'
  OBVIOUS
<1>0. PathsInv'
  BY PathsNextInv DEF NamesInv
<1>1. ASSUME NEW p \in JobPaths, Begin(p) PROVE NamesInv'
  <2>1. phase' # "crawling" /\ sent' = sent
    BY <1>1 DEF Begin
  <2> QED
    BY <1>0, <2>1 DEF NamesInv, VisitedNames, PathIsNames
<1>2. CASE Visit
  BY <1>0, <1>2, VisitNames
<1>3. ASSUME NEW name \in Names, Descend(name) PROVE NamesInv'
  BY <1>0, <1>3, DescendNames
<1>4. ASSUME NEW name \in Names, NEW link, HandleObject(name, link) PROVE NamesInv'
  BY <1>0, <1>4, HandleObjectNames
<1>5. CASE Receive
  BY <1>0, <1>5 DEF Receive, NamesInv, VisitedNames, PathIsNames
<1>6. CASE Finish
  BY <1>0, <1>6 DEF Finish, NamesInv, VisitedNames, PathIsNames
<1>7. CASE UNCHANGED pathVars
  BY <1>0, <1>7 DEF pathVars, NamesInv, VisitedNames, PathIsNames
<1> QED
  BY <1>1, <1>2, <1>3, <1>4, <1>5, <1>6, <1>7 DEF PathsNext

(* It holds at first.                                                      *)
LEMMA NamesInitInv == PathsInit => NamesInv
BY PathsInitInv DEF PathsInit, NamesInv, VisitedNames, PathIsNames

(* The root of the crawl is opened by the names of the served root and of  *)
(* what was asked for, if that has no NUL in it, and every full_path is    *)
(* made of these and the names of the entries the crawl follows.  Where    *)
(* symlinks among these names lead is not claimed.                         *)
THEOREM CrawlOpensNamesAsked == PathsSpec => []OpensNamesAsked
<1>1. ASSUME NamesInv PROVE OpensNamesAsked
  <2> SUFFICES ASSUME phase = "crawling" PROVE OpensNamesAsked
    BY DEF OpensNamesAsked
  <2>1. /\ served \in Strings /\ (served = <<"/">> \/ Proper(served)) /\ NoNul(served)
        /\ job \in Strings /\ (job = <<"/">> \/ Proper(job))
        /\ visited = Join(served, job) /\ Proper(visited)
    BY <1>1 DEF NamesInv, PathsInv
  <2>2. NoNul(job) => Opened = visited
    BY <2>1, JoinedIsOpened DEF Opened
  <2> QED
    BY <1>1, <2>2 DEF NamesInv, VisitedNames, OpensNamesAsked
<1> QED
  BY <1>1, NamesInitInv, NamesNextInv, PTL DEF PathsSpec

(* What HandleObject sends has a relative path without "", "." and "..",   *)
(* and it is the names that lead from the requested directory to it.       *)
THEOREM SentPathIsNames == PathsSpec => []PathIsNames
<1>1. NamesInv => PathIsNames
  BY DEF NamesInv
<1> QED
  BY <1>1, NamesInitInv, NamesNextInv, PTL DEF PathsSpec
===============================================================================
