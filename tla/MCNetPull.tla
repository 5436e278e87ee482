------------------------------ MODULE MCNetPull ------------------------------
(***************************************************************************)
(* One file in the root and one in a subdirectory; for liveness, another   *)
(* one in a subdirectory without write permission and two workers.  Block  *)
(* names are unique to a version and an offset, so that a mixture of two   *)
(* versions is seen.                                                       *)
(***************************************************************************)
EXTENDS NetPull

CONSTANTS f1, f2, f3, d1, d2

MCFiles == {f1, f2}
MCDirs == {d1}
MCLiveFiles == {f1, f2, f3}
MCLiveDirs == {d1, d2}
MCClosed == {d2}
MCNone == {}
MCParent == [e \in Entries |-> IF e = f2 THEN d1 ELSE IF e = f3 THEN d2 ELSE Root]

MCLong == <<"a1", "a2">>
MCShort == <<"b1">>
MCContents == {MCLong, MCShort}
MCSource == [f \in Files |-> IF f = f1 THEN MCLong ELSE MCShort]
==============================================================================
