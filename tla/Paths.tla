--------------------------------- MODULE Paths ---------------------------------
(***************************************************************************)
(* What the server does with paths: src/netpull/server/path.h and path.cc  *)
(* as ClientManagerThread, FastCrawler and HandleObject call them, from    *)
(* the path of a job to the paths and link targets of its objects, and     *)
(* what the client makes of a target.                                      *)
(*                                                                         *)
(* An operator whose comment begins with "Faulty" is not part of the       *)
(* model: it is a plausible bug, kept to show that a property notices it.  *)
(*                                                                         *)
(* A path is a sequence of characters, of which "/", "." and the NUL       *)
(* character matter: the server compares and joins all characters, and the *)
(* kernel, given data(), sees those before the first NUL.  Where a name    *)
(* that is opened leads, through symlinks, is up to the file system.       *)
(* The server runs until an assertion or an exception ends it.             *)
(***************************************************************************)
EXTENDS Integers, SequencesExt

CONSTANTS Characters,   (* what paths are written in                       *)
          Nul,          (* the character that ends a C string              *)
          ServedRoots,  (* what realpath may return for -root              *)
          JobPaths,     (* what clients may ask for                        *)
          Names,        (* the names of directory entries but "." and "..",
                           which the crawl leaves out                      *)
          Targets,      (* what a symlink may hold                         *)
          NoLink,       (* an object that is no symlink                    *)
          Nothing,      (* nothing has been sent                           *)
          Dest,         (* the client's destination directory              *)
          MaxDepth      (* bound on directories inside each other          *)

VARIABLES
  served,   (* root in main                                                *)
  job,      (* job.path()                                                  *)
  phase,    (* idle, accepted, crawling, or ended with the process         *)
  cause,    (* what has ended it: root and target are the assertions about
               them, object is one about a found object, substr is
               out_of_range                                                *)
  visited,  (* what Visit was called with                                  *)
  dir,      (* full_path of the directory being read                       *)
  names,    (* the names that lead from what is visited to it              *)
  sent      (* the object that is on its way: its path, the names that lead
               to it, its target, as found and as sent, relative_to_root   *)

pathVars == <<served, job, phase, cause, visited, dir, names, sent>>

-------------------------------------------------------------------------------
(* path_internal                                                           *)

Ends(p) == IsSuffix(<<"/">>, p)

(* Faulty Join: the slash is put between whatever the paths end with.      *)
JoinAlways(self, other) == self \o <<"/">> \o other

(* Faulty Join: no slash is put between.                                   *)
JoinNever(self, other) == self \o other

Join(self, other) ==
  LET rest == IF Ends(self) /\ IsPrefix(<<"/">>, other) THEN Tail(other)
              ELSE IF ~Ends(self) /\ ~IsPrefix(<<"/">>, other) THEN <<"/">> \o other
              ELSE other
      p == self \o rest
  IN IF Ends(p) THEN Front(p) ELSE p

IsAbsolute(p) == IsPrefix(<<"/">>, p)

(* What StrSplit(p, '/') yields, without its order.                        *)
Pieces(p) ==
  {SubSeq(p, ij[1], ij[2]) : ij \in
    {ij \in (1..(Len(p) + 1)) \X (0..Len(p)) :
       /\ ij[1] <= ij[2] + 1
       /\ ij[1] = 1 \/ p[ij[1] - 1] = "/"
       /\ ij[2] = Len(p) \/ p[ij[2] + 1] = "/"
       /\ \A k \in ij[1]..ij[2] : p[k] # "/"}}

IsResolved(p) ==
  \/ p = <<"/">>
  \/ Pieces(IF IsAbsolute(p) THEN Tail(p) ELSE p)
       \cap {<< >>, <<".">>, <<".", ".">>} = {}

(* The assertions in IsChildOf.                                            *)
Comparable(p, other) ==
  IsAbsolute(p) /\ IsResolved(p) /\ IsAbsolute(other) /\ IsResolved(other)

IsChildOf(p, other) == IsPrefix(other, p)

(* s.substr(n) throws if n is beyond the end.                              *)
Substr(s, n) == SubSeq(s, n + 1, Len(s))
InRange(s, n) == n <= Len(s)

(* Faulty RelativeTo: the slash is kept.                                   *)
RelativeToWithSlash(p, other) == Substr(p, Len(other))

RelativeTo(p, other) == Substr(p, Len(other) + 1)

-------------------------------------------------------------------------------
(* What a system call sees of a path it is given as data().                *)
NoNul(p) == \A k \in 1..Len(p) : p[k] # Nul

CString(p) ==
  IF NoNul(p) THEN p ELSE SubSeq(p, 1, Min({k \in 1..Len(p) : p[k] = Nul}) - 1)

(* realpath returns an absolute path without "//", "." and "..", and no    *)
(* slash at its end but in "/"; a name has no slash in it.  What comes from*)
(* the kernel has no NUL in it, other than what comes from a client.       *)
ASSUME PathAssumption ==
  /\ {"/", ".", Nul} \subseteq Characters /\ Nul \notin {"/", "."}
  /\ \A root \in ServedRoots :
       root \in Seq(Characters) /\ IsAbsolute(root) /\ IsResolved(root) /\ NoNul(root)
  /\ JobPaths \subseteq Seq(Characters) /\ Targets \subseteq Seq(Characters)
  /\ \A name \in Names :
       /\ name \in Seq(Characters) \ {<< >>, <<".">>, <<".", ".">>}
       /\ \A k \in 1..Len(name) : name[k] # "/"
       /\ NoNul(name)
  /\ \A target \in Targets : NoNul(target)

PathsInit ==
  /\ served \in ServedRoots
  /\ job = << >> /\ phase = "idle" /\ cause = "none"
  /\ visited = << >> /\ dir = << >> /\ names = << >> /\ sent = Nothing

End(why) == phase' = "ended" /\ cause' = why

(* The beginning of ClientManagerThread; a path that fails the check is    *)
(* answered with an error.                                                 *)
Begin(p) ==
  /\ phase = "idle"
  /\ job' = p
  /\ phase' = IF IsAbsolute(p) /\ IsResolved(p) THEN "accepted" ELSE "idle"
  /\ UNCHANGED <<served, cause, visited, dir, names, sent>>

(* Visit, whose assertion comes first; then the root is read.              *)
Visit ==
  /\ phase = "accepted"
  /\ visited' = Join(served, job)
  /\ IF IsResolved(visited') THEN phase' = "crawling" /\ UNCHANGED cause ELSE End("root")
  /\ dir' = Join(<< >>, visited') /\ names' = << >>
  /\ UNCHANGED <<served, job, sent>>

(* The name the root of the crawl is opened by.                            *)
Opened == CString(visited)

(* The crawl comes to a directory inside the one it has read, which is     *)
(* opened by its name in there.                                            *)
Descend(name) ==
  /\ phase = "crawling" /\ Len(names) < MaxDepth
  /\ dir' = Join(dir, name) /\ names' = Append(names, name)
  /\ UNCHANGED <<served, job, phase, cause, visited, sent>>

Send(name, link, target, adjusted) ==
  /\ sent' = [path |-> RelativeTo(Join(dir, name), visited), names |-> Append(names, name),
              link |-> link, target |-> target, adjusted |-> adjusted]
  /\ UNCHANGED <<phase, cause>>

(* The end of HandleObject for a symlink.  The assertions of IsChildOf are *)
(* about any absolute target; substr(1) is taken of what RelativeTo, with  *)
(* its own substr, returns.                                                *)
SendLink(name, link) ==
  \/ ~IsAbsolute(link) /\ Send(name, link, link, FALSE)
  \/ IsAbsolute(link) /\ ~Comparable(link, visited) /\ End("target") /\ UNCHANGED sent
  \/ /\ IsAbsolute(link) /\ Comparable(link, visited)
     /\ \/ ~IsChildOf(link, visited) /\ Send(name, link, link, FALSE)
        \/ /\ IsChildOf(link, visited) /\ InRange(link, Len(visited) + 2)
           /\ Send(name, link, Substr(RelativeTo(link, visited), 1), TRUE)
        \/ /\ IsChildOf(link, visited) /\ ~InRange(link, Len(visited) + 2)
           /\ End("substr") /\ UNCHANGED sent

(* HandleObject.  Which objects are skipped is the matter of ServerJobs.   *)
HandleObject(name, link) ==
  LET object == Join(dir, name)
  IN /\ phase = "crawling" /\ sent = Nothing
     /\ \/ Comparable(object, visited) /\ IsChildOf(object, visited)
           /\ IF link = NoLink THEN Send(name, NoLink, NoLink, FALSE) ELSE SendLink(name, link)
        \/ ~(Comparable(object, visited) /\ IsChildOf(object, visited))
           /\ End("object") /\ UNCHANGED sent
     /\ UNCHANGED <<served, job, visited, dir, names>>

(* The client has got the object.                                          *)
Receive ==
  /\ sent # Nothing
  /\ sent' = Nothing
  /\ UNCHANGED <<served, job, phase, cause, visited, dir, names>>

(* What HandleTransfer gives to symlinkat.                                 *)
Content(object) ==
  IF object.adjusted THEN Dest \o <<"/">> \o object.target ELSE object.target

(* The crawl is over, or the server is started again.                      *)
Finish ==
  /\ phase \in {"crawling", "ended"} /\ sent = Nothing
  /\ phase' = "idle" /\ cause' = "none"
  /\ job' = << >> /\ visited' = << >> /\ dir' = << >> /\ names' = << >>
  /\ UNCHANGED <<served, sent>>

PathsNext ==
  \/ \E p \in JobPaths : Begin(p)
  \/ Visit
  \/ \E name \in Names : Descend(name) \/ \E link \in Targets \cup {NoLink} : HandleObject(name, link)
  \/ Receive
  \/ Finish

PathsSpec == PathsInit /\ [][PathsNext]_pathVars

-------------------------------------------------------------------------------
(* The last name goes on with a character.                                 *)
GoesOn(parts, c) == [parts EXCEPT ![Len(parts)] = Append(@, c)]

(* The names in the first k characters of a path, the empty ones left out. *)
NamesSoFar(p) ==
  LET parts[k \in 0..Len(p)] ==
        IF k = 0 THEN << >>
        ELSE IF p[k] = "/" THEN parts[k - 1]
        ELSE IF k = 1 \/ p[k - 1] = "/" THEN Append(parts[k - 1], <<p[k]>>)
        ELSE GoesOn(parts[k - 1], p[k])
  IN parts

(* The names a path is made of: what the file system sees in it, if there  *)
(* is no ".", no ".." and no NUL.                                          *)
Components(p) == NamesSoFar(p)[Len(p)]

(* The crawl opens its root by the names of the served root and then those *)
(* of a job's path, if there is no NUL in it, and full_path goes on by the *)
(* names of the entries the crawl follows.  With a NUL, openat gets what is*)
(* before it, of which IsResolved says nothing.                            *)
OpensNamesAsked ==
  phase = "crawling" =>
    /\ NoNul(job) => Components(Opened) = Components(served) \o Components(job)
    /\ Components(dir) = Components(visited) \o names

(* The path of an object is relative and resolved, so that the client can  *)
(* open it below its destination, and it is the object's names, so that    *)
(* the log of the job tells objects apart.                                 *)
PathIsNames ==
  sent # Nothing =>
    /\ ~IsAbsolute(sent.path) /\ IsResolved(sent.path)
    /\ Components(sent.path) = sent.names

(* No job and no name of an object brings the process down, except the     *)
(* root of a file system that is served whole: what HandleObject asserts   *)
(* of found objects holds of them, at any depth.                           *)
EndsForReason ==
  /\ cause = "root" => served = <<"/">> /\ job = <<"/">>
  /\ cause # "object"

(* README.md:97: "The server path (/) is relative to the root directory,   *)
(* so here we're pulling the entire" contents of it.  It does not hold if  *)
(* the served root is "/": the two join to an empty path.                  *)
RootCanBePulled == cause # "root"

(* path.h:78, of IsChildOf: "Both paths MUST be absolute and fully         *)
(* resolved."  The caller sees to it.  It does not hold of an absolute     *)
(* target with ".." in it, or with a slash at its end.                     *)
TargetsAreResolved == cause # "target"

(* path.h:78: "Is this path a child of the other path?"  An adjusted       *)
(* target is below what is visited.  It does not hold of /aab beside /aa.  *)
AdjustedIsBelow ==
  sent # Nothing /\ sent.adjusted =>
    /\ Len(Components(sent.link)) > Len(Components(visited))
    /\ IsPrefix(Components(visited), Components(sent.link))

(* netpull_server.cc:362: "Drop the extra slash since all these paths are  *)
(* absolute."  No more than a slash is dropped of a target that is below   *)
(* what is visited: the client's link points to its copy of the object.    *)
(* It does not hold: RelativeTo has dropped the slash already, and one more*)
(* character goes.                                                         *)
LinkKeepsMeaning ==
  sent # Nothing /\ sent.adjusted /\ IsPrefix(Append(visited, "/"), sent.link) =>
    \E rest \in {SubSeq(Components(sent.link), k, Len(Components(sent.link))) :
                  k \in 1..Len(Components(sent.link))} :
      /\ Components(sent.link) = Components(visited) \o rest
      /\ Components(Content(sent)) = Components(Dest) \o rest
===============================================================================
