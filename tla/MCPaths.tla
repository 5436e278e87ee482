-------------------------------- MODULE MCPaths --------------------------------
(***************************************************************************)
(* All job paths of up to four characters, a NUL among them, all absolute  *)
(* targets of up to five: what is visited is "/a", "/aa" or "/a/a" among   *)
(* others, so there are targets equal to it, inside it, beside it and      *)
(* above it.                                                               *)
(***************************************************************************)
EXTENDS Paths

MCCharacters == {"/", ".", "a", "0"}
MCNul == "0"
MCText == MCCharacters \ {MCNul}

MCServedRoots == {<<"/">>, <<"/", "a">>}
MCJobPaths == BoundedSeq(MCCharacters, 4)
MCNames == {<<"a">>, <<"a", "a">>, <<".", "a">>}
MCTargets == BoundedSeq(MCText, 2) \cup {<<"/">> \o rest : rest \in BoundedSeq(MCText, 4)}
MCDest == <<"/", "d">>
================================================================================
