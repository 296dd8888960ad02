------------------------------- MODULE Scanner -------------------------------
(***************************************************************************)
(* One scan of the working tree (cs-scanner lib.rs) system call by system  *)
(* call, with the tree moving under it, and what the hash comparison of    *)
(* the next update makes of its result.  The walk opens directories and    *)
(* stats entries in the order the file system gives them; the discovered   *)
(* files are then hashed in the order of their normalized paths.           *)
(*                                                                         *)
(* Whether an ignore file excludes a path is a property of the path, as    *)
(* is being a symlink, a socket or another thing that is not a file.       *)
(***************************************************************************)
EXTENDS Naturals, FiniteSets

CONSTANTS
  None,
  Dir, Root,        \* the directories; Root is the root of the repository
  Path,             \* the entries: [rank, dir, regular, ignored]
  Content,          \* what a file can hold: [text, size]
  Trees,            \* the trees to begin with
  Hidden,           \* .git and .contextslice, or ignored directories
  ParseCap, ReadCap, MaxFiles, MaxBytes,   \* ScanConfig
  MaxEdits, MaxRuns

ASSUME DirShape == Root \in Dir /\ Hidden \subseteq Dir \ {Root}
ASSUME PathShape ==
  /\ Path \subseteq [rank : Nat, dir : Dir, regular : BOOLEAN, ignored : BOOLEAN]
  /\ \A p, q \in Path : p.rank = q.rank => p = q
ASSUME ContentShape ==
  /\ \A c \in Content : DOMAIN c = {"text", "size"} /\ c.size \in Nat
  /\ \A c, d \in Content : c.text = d.text => c = d
ASSUME CapShape == {ParseCap, ReadCap, MaxFiles, MaxBytes, MaxEdits, MaxRuns} \subseteq Nat
ASSUME TreeShape ==
  \A t \in Trees : /\ t \in [Path -> Content \union {None}]
                   /\ IsFiniteSet({p \in Path : t[p] # None})
ASSUME NoneShape ==
  /\ None \notin Content /\ None \notin {c.text : c \in Content} /\ None \notin Nat
  /\ None \notin {"too_large", "unreadable", "parse_skipped", "ok", "cap", "walk"}

VARIABLES
  disk,        \* [Path -> Content or None]
  locked,      \* the files and directories that cannot be opened
  index,       \* [Path -> the hash and the label stored, or None]
  pc,          \* where the scan is
  unopened, listed,   \* directories to open, entries to stat
  discovered,  \* [Path -> the size it was stat'ed with, or None]
  total,       \* the bytes seen
  rootError,   \* the root could not be opened
  result,      \* [Path -> the ScannedFile, or None]
  outcome,     \* of the last scan
  edits, runs,
  touched,     \* history: what was edited since the scan began
  raced        \* history: what was edited during some scan

walkVars == <<unopened, listed, discovered, total, rootError>>
scanVars == <<pc, walkVars, result, outcome, runs>>
vars     == <<disk, locked, index, scanVars, edits, touched, raced>>

Nothing == [p \in Path |-> None]

Init ==
  /\ disk \in Trees
  /\ locked = {} /\ index = Nothing
  /\ pc = "idle" /\ unopened = {} /\ listed = {} /\ discovered = Nothing
  /\ total = 0 /\ rootError = FALSE /\ result = Nothing /\ outcome = None
  /\ edits = 0 /\ runs = 0 /\ touched = {} /\ raced = {}

(* A file is written or removed, or a file or directory made unreadable or *)
(* readable again.                                                         *)
Edit ==
  /\ edits < MaxEdits
  /\ edits' = edits + 1
  /\ \/ \E p \in Path, c \in Content \union {None} :
          /\ c # disk[p]
          /\ disk' = [disk EXCEPT ![p] = c]
          /\ touched' = touched \union {p}
          /\ raced' = IF pc = "idle" THEN raced ELSE raced \union {p}
          /\ UNCHANGED locked
     \/ \E x \in Path \union Dir :
          /\ locked' = IF x \in locked THEN locked \ {x} ELSE locked \union {x}
          /\ touched' = touched \union {x}
          /\ raced' = IF pc = "idle" THEN raced ELSE raced \union {x}
          /\ UNCHANGED disk
  /\ UNCHANGED <<index, scanVars>>
----------------------------------------------------------------------------
(***************************************************************************)
(* discover.                                                               *)
(***************************************************************************)
Start ==
  /\ pc = "idle" /\ runs < MaxRuns
  /\ runs' = runs + 1
  /\ pc' = "walk" /\ unopened' = {Root} /\ listed' = {} /\ discovered' = Nothing
  /\ total' = 0 /\ rootError' = FALSE /\ result' = Nothing /\ outcome' = None
  /\ touched' = {}
  /\ UNCHANGED <<disk, locked, index, edits, raced>>

(* Entries the walk yields from a directory: a directory that cannot be    *)
(* opened yields an error, which is fatal for the root and skipped for any *)
(* other.                                                                  *)
OpenDir ==
  /\ pc = "walk"
  /\ \E d \in unopened :
       /\ rootError' = (rootError \/ (d = Root /\ d \in locked))
       /\ listed' = IF d \in locked THEN listed
                    ELSE listed \union {p \in Path : p.dir = d /\ disk[p] # None /\ ~p.ignored}
       /\ unopened' = (unopened \ {d}) \union
                        (IF d = Root /\ d \notin locked THEN (Dir \ {Root}) \ Hidden ELSE {})
  /\ UNCHANGED <<disk, locked, index, pc, discovered, total, result, outcome, edits, runs,
                 touched, raced>>

Discovered == {p \in Path : discovered[p] # None}

End(what) ==
  /\ outcome' = what
  /\ pc' = "idle"

(* Mutant: the walk stops at the cap with what it has. *)
StopAtCap ==
  /\ pc' = "inspect" /\ listed' = {} /\ unopened' = {}
  /\ UNCHANGED <<discovered, outcome>>

(* A cap is an error, not a truncation. *)
RefuseAtCap ==
  /\ End("cap")
  /\ UNCHANGED <<discovered, listed, unopened>>

(* One stat; an entry that is gone by now, or is no file, is skipped. *)
Stat ==
  /\ pc = "walk"
  /\ \E p \in listed :
       IF ~p.regular \/ disk[p] = None
       THEN /\ listed' = listed \ {p}
            /\ UNCHANGED <<pc, unopened, discovered, total, outcome>>
       ELSE /\ total' = total + disk[p].size
            /\ IF Cardinality(Discovered) + 1 > MaxFiles \/ total' > MaxBytes
               THEN RefuseAtCap
               ELSE /\ discovered' = [discovered EXCEPT ![p] = disk[p].size]
                    /\ listed' = listed \ {p}
                    /\ UNCHANGED <<pc, unopened, outcome>>
  /\ UNCHANGED <<disk, locked, index, rootError, result, edits, runs, touched, raced>>

(* Mutant: an unreadable root is skipped like any other directory. *)
AfterWalkForgiving == pc' = "inspect" /\ UNCHANGED outcome

AfterWalk == IF rootError THEN End("walk") ELSE pc' = "inspect" /\ UNCHANGED outcome

EndWalk ==
  /\ pc = "walk" /\ unopened = {} /\ listed = {}
  /\ AfterWalk
  /\ UNCHANGED <<disk, locked, index, walkVars, result, edits, runs, touched, raced>>
----------------------------------------------------------------------------
(***************************************************************************)
(* inspect: the caps judge the size of the stat, the hash is of what the   *)
(* file holds now.                                                         *)
(***************************************************************************)
Scanned(hash, skip) == [hash |-> hash, skip |-> skip]

(* Mutant: a file past the parse cap is not hashed either. *)
InspectedBelowParseCap(p, size) ==
  IF size > ParseCap THEN Scanned(None, "parse_skipped")
  ELSE IF disk[p] = None \/ p \in locked THEN Scanned(None, "unreadable")
  ELSE Scanned(disk[p].text, None)

Inspected(p, size) ==
  IF size > ReadCap THEN Scanned(None, "too_large")
  ELSE IF disk[p] = None \/ p \in locked THEN Scanned(None, "unreadable")
  ELSE Scanned(disk[p].text, IF size > ParseCap THEN "parse_skipped" ELSE None)

Uninspected == {p \in Discovered : result[p] = None}

Inspect ==
  /\ pc = "inspect"
  /\ \E p \in Uninspected :
       /\ \A q \in Uninspected : p.rank <= q.rank
       /\ result' = [result EXCEPT ![p] = Inspected(p, discovered[p])]
  /\ UNCHANGED <<disk, locked, index, pc, walkVars, outcome, edits, runs, touched, raced>>

(* Mutant: a path the scan does not list keeps its row. *)
ComparedListed ==
  [p \in Path |-> IF result[p] = None \/ (index[p] # None /\ index[p].hash = result[p].hash)
                  THEN index[p] ELSE result[p]]

(* The index learns what changed by comparing hashes: a row whose hash is  *)
(* that of the scan is left as it is.                                      *)
Compared ==
  [p \in Path |-> IF result[p] # None /\ index[p] # None /\ index[p].hash = result[p].hash
                  THEN index[p] ELSE result[p]]

Update ==
  /\ pc = "inspect" /\ Uninspected = {}
  /\ index' = Compared
  /\ End("ok")
  /\ UNCHANGED <<disk, locked, walkVars, result, edits, runs, touched, raced>>

Next == Edit \/ Start \/ OpenDir \/ Stat \/ EndWalk \/ Inspect \/ Update

Spec == Init /\ [][Next]_vars
----------------------------------------------------------------------------
ScannedFile ==
  {s \in [hash : {c.text : c \in Content} \union {None},
          skip : {"too_large", "unreadable", "parse_skipped", None}] :
     s.hash = None <=> s.skip \in {"too_large", "unreadable"}}

ASSUME NoneIsNoScannedFile == None \notin ScannedFile

(* A result and a row carry a hash or the label of why they do not: the    *)
(* CHECK of the files table (schema.rs).                                   *)
TypeOK ==
  /\ disk \in [Path -> Content \union {None}]
  /\ locked \subseteq Path \union Dir
  /\ {index, result} \subseteq [Path -> ScannedFile \union {None}]
  /\ pc \in {"idle", "walk", "inspect"}
  /\ unopened \subseteq Dir /\ listed \subseteq Path
  /\ discovered \in [Path -> {c.size : c \in Content} \union {None}]
  /\ total \in Nat /\ rootError \in BOOLEAN
  /\ outcome \in {None, "ok", "cap", "walk"}

(* What the tree holds, whichever way one walks it. *)
Reachable(p) ==
  /\ p.regular /\ ~p.ignored /\ p.dir \notin Hidden
  /\ {Root, p.dir} \intersect locked = {}

Included == {p \in Path : Reachable(p) /\ disk[p] # None}

Bytes[S \in SUBSET Included] ==
  IF S = {} THEN 0
  ELSE LET p == CHOOSE p \in S : TRUE IN disk[p].size + Bytes[S \ {p}]

Listing == [p \in Path |-> IF p \in Included THEN Inspected(p, disk[p].size) ELSE None]

Ended == pc = "idle" /\ outcome # None

(* Of a tree that keeps still, a scan is a function: it fails exactly when *)
(* the root cannot be opened or a cap is exceeded, and lists exactly the   *)
(* files of the tree otherwise, whatever the order of the walk (scan:      *)
(* "caps are errors, not truncations, because a silently truncated index   *)
(* would produce a silently wrong slice").                                 *)
ScanIsFunction ==
  Ended /\ touched = {} =>
    /\ outcome = (CASE Root \in locked -> "walk"
                    [] Root \notin locked /\ (\/ Cardinality(Included) > MaxFiles
                                              \/ Bytes[Included] > MaxBytes) -> "cap"
                    [] OTHER -> "ok")
    /\ outcome = "ok" => result = Listing

(* However the tree moves, a file that kept still is listed as it is by    *)
(* every scan that does not fail.                                          *)
SteadyFilesAreListed ==
  Ended /\ outcome = "ok" =>
    \A p \in Path : {p, p.dir, Root} \intersect touched = {} => result[p] = Listing[p]

(* A run on a tree that keeps still leaves the index agreeing with it: for *)
(* each file, the hash of the tree and, with a hash, the label.  Not for   *)
(* what was ever edited during a scan: the label judged a size and the     *)
(* hash another content, and as the hash is right no later run looks again.*)
IndexFollowsTree ==
  Ended /\ outcome = "ok" /\ touched = {} =>
    \A p \in Path : {p, p.dir, Root} \intersect raced = {} =>
      \/ index[p] = Listing[p]
      \/ /\ index[p] # None /\ Listing[p] # None
         /\ index[p].hash = None /\ Listing[p].hash = None
=============================================================================
