--------------------------- MODULE Scanner_proofs ---------------------------
(***************************************************************************)
(* What a scan says of files that keep still while the tree moves, and     *)
(* what becomes of it in the index, for every tree.                        *)
(***************************************************************************)
EXTENDS Scanner, FiniteSetTheorems, WellFoundedInduction, TLAPS

(* Nothing that decides about p was edited since the scan began. *)
Steady(p) == {p, p.dir, Root} \intersect touched = {}

(* The walk has still to reach a steady file, or holds it as it is.        *)
WalkInv ==
  pc = "walk" =>
    /\ result = Nothing
    /\ unopened \intersect Hidden = {}
    /\ Root \in unopened => unopened = {Root} /\ listed = {} /\ discovered = Nothing
    /\ unopened # {} /\ Root \notin unopened \union touched => Root \notin locked
    /\ \A p \in Path : Steady(p) =>
         /\ p \in listed \union Discovered =>
              /\ disk[p] # None /\ ~p.ignored /\ p.dir \notin Hidden
              /\ {Root, p.dir} \intersect locked = {}
         /\ p \in Discovered => p.regular /\ discovered[p] = disk[p].size
         /\ p \in Included => Root \in unopened \/ p.dir \in unopened \/ p \in listed \union Discovered

InspectInv ==
  pc = "inspect" =>
    /\ \A p \in Path : result[p] # None => p \in Discovered
    /\ \A p \in Path : Steady(p) =>
         /\ p \in Included <=> p \in Discovered
         /\ p \in Discovered => discovered[p] = disk[p].size
         /\ result[p] # None => result[p] = Inspected(p, disk[p].size)

EndInv == pc = "idle" /\ outcome = "ok" => \A p \in Path : Steady(p) => result[p] = Listing[p]

ScanInv == TypeOK /\ WalkInv /\ InspectInv /\ EndInv

Unraced(p) == {p, p.dir, Root} \intersect raced = {}

(* The label of a row with a hash is that of the content with that hash.   *)
Labelled(row) ==
  row # None /\ row.hash # None =>
    \E c \in Content :
      row = Scanned(c.text, IF c.size > ParseCap THEN "parse_skipped" ELSE None)

IndexInv ==
  /\ pc # "idle" => touched \subseteq raced
  /\ \A p \in Path : Unraced(p) => Labelled(index[p]) /\ Labelled(result[p])
  /\ pc = "idle" /\ outcome = "ok" =>
       \A p \in Path : \/ index[p] = result[p]
                       \/ /\ index[p] # None /\ result[p] # None
                          /\ index[p].hash = result[p].hash
----------------------------------------------------------------------------
(* What a file is inspected as is a row of the files table. *)
LEMMA InspectedType ==
  ASSUME TypeOK, NEW p \in Path, NEW size
  PROVE  Inspected(p, size) \in ScannedFile
<1>1. disk[p] \in Content \union {None}
  BY DEF TypeOK
<1>2. disk[p] # None => disk[p].text \in {c.text : c \in Content} /\ disk[p].text # None
  BY <1>1, NoneShape
<1> QED
  BY <1>1, <1>2, NoneShape DEF Inspected, Scanned, ScannedFile

(* The types are kept. *)
LEMMA TypeStep ==
  ASSUME TypeOK, [Next]_vars
  PROVE  TypeOK'
<1> USE DEF TypeOK
<1>1. CASE Edit
  BY <1>1 DEF Edit, scanVars, walkVars
<1>2. CASE Start
  BY <1>2, DirShape DEF Start, Nothing
<1>3. CASE OpenDir
  BY <1>3 DEF OpenDir
<1>4. CASE Stat
  <2>1. PICK p \in listed :
          IF ~p.regular \/ disk[p] = None
          THEN /\ listed' = listed \ {p}
               /\ UNCHANGED <<pc, unopened, discovered, total, outcome>>
          ELSE /\ total' = total + disk[p].size
               /\ IF Cardinality(Discovered) + 1 > MaxFiles \/ total' > MaxBytes
                  THEN RefuseAtCap
                  ELSE /\ discovered' = [discovered EXCEPT ![p] = disk[p].size]
                       /\ listed' = listed \ {p}
                       /\ UNCHANGED <<pc, unopened, outcome>>
    BY <1>4 DEF Stat
  <2>2. UNCHANGED <<disk, locked, index, rootError, result>>
    BY <1>4 DEF Stat
  <2>3. CASE ~p.regular \/ disk[p] = None
    BY <2>1, <2>2, <2>3
  <2>4. CASE ~(~p.regular \/ disk[p] = None)
    <3>1. disk[p] \in Content
      BY <2>4
    <3>2. disk[p].size \in Nat /\ disk[p].size \in {c.size : c \in Content}
      BY <3>1, ContentShape
    <3>3. total' \in Nat
      BY <2>1, <2>4, <3>2
    <3>4. CASE RefuseAtCap
      BY <3>3, <3>4, <2>2 DEF RefuseAtCap, End
    <3>5. CASE discovered' = [discovered EXCEPT ![p] = disk[p].size] /\ listed' = listed \ {p}
               /\ UNCHANGED <<pc, unopened, outcome>>
      BY <3>2, <3>3, <3>5, <2>2
    <3> QED
      BY <2>1, <2>4, <3>4, <3>5
  <2> QED
    BY <2>3, <2>4
<1>5. CASE EndWalk
  BY <1>5 DEF EndWalk, AfterWalk, End, walkVars
<1>6. CASE Inspect
  <2>1. PICK p \in Uninspected : result' = [result EXCEPT ![p] = Inspected(p, discovered[p])]
    BY <1>6 DEF Inspect
  <2>2. p \in Path
    BY DEF Uninspected, Discovered
  <2>3. Inspected(p, discovered[p]) \in ScannedFile
    BY <2>2, InspectedType
  <2>4. result' \in [Path -> ScannedFile \union {None}]
    BY <2>1, <2>2, <2>3
  <2> QED
    BY <1>6, <2>4 DEF Inspect, walkVars
<1>7. CASE Update
  <2>1. index' \in [Path -> ScannedFile \union {None}]
    BY <1>7 DEF Update, Compared
  <2> QED
    BY <1>7, <2>1 DEF Update, End, walkVars
<1>8. CASE UNCHANGED vars
  BY <1>8 DEF vars, scanVars, walkVars
<1> QED
  BY <1>1, <1>2, <1>3, <1>4, <1>5, <1>6, <1>7, <1>8 DEF Next

(* In the beginning nothing is scanned. *)
LEMMA TypeInit ==
  ASSUME Init
  PROVE  TypeOK
BY TreeShape DEF Init, TypeOK, Nothing

(* A scan never leaves its types: a hash is missing exactly where the      *)
(* label says why (schema.rs, CHECK of the files table).                   *)
THEOREM TypeCorrect == Spec => []TypeOK
<1>1. Init => TypeOK
  BY TypeInit
<1>2. TypeOK /\ [Next]_vars => TypeOK'
  BY TypeStep
<1> QED
  BY <1>1, <1>2, PTL DEF Spec
----------------------------------------------------------------------------
(* While an edit spares a file, its directory and the root, the file is    *)
(* what it was, and was steady before.                                     *)
LEMMA EditSpares ==
  ASSUME TypeOK, Edit, NEW p \in Path
  PROVE  /\ Steady(p)' => Steady(p) /\ disk'[p] = disk[p]
                          /\ \A x \in {p, p.dir, Root} : x \in locked' <=> x \in locked
         /\ Unraced(p)' => Unraced(p)
         /\ touched \subseteq touched'
         /\ Root \notin touched' => (Root \in locked' <=> Root \in locked)
         /\ pc # "idle" /\ touched \subseteq raced => touched' \subseteq raced'
BY DEF TypeOK, Edit, Steady, Unraced

(* What decides about a steady file, before and after a step. *)
LEMMA SteadyListing ==
  ASSUME NEW p \in Path, disk'[p] = disk[p],
         \A x \in {p, p.dir, Root} : x \in locked' <=> x \in locked
  PROVE  /\ (p \in Included)' <=> p \in Included
         /\ \A size : Inspected(p, size)' = Inspected(p, size)
         /\ Listing'[p] = Listing[p]
<1>1. (p \in Included)' <=> p \in Included
  BY DEF Included, Reachable
<1>2. \A size : Inspected(p, size)' = Inspected(p, size)
  BY DEF Inspected, Scanned
<1>3. Listing[p] = IF p \in Included THEN Inspected(p, disk[p].size) ELSE None
  BY DEF Listing
<1>4. Listing'[p] = IF (p \in Included)' THEN Inspected(p, disk[p].size)' ELSE None
  BY DEF Listing
<1>5. Inspected(p, disk[p].size)' = Inspected(p, disk[p].size)
  BY DEF Inspected, Scanned
<1> QED
  BY <1>1, <1>2, <1>3, <1>4, <1>5

(* What the tree leaves alone keeps every file steady or not, as it was. *)
LEMMA StillSteady ==
  ASSUME UNCHANGED <<disk, locked, touched, raced>>, NEW p \in Path
  PROVE  /\ Steady(p)' <=> Steady(p)
         /\ Unraced(p)' <=> Unraced(p)
         /\ (p \in Included)' <=> p \in Included
         /\ Listing'[p] = Listing[p]
<1>1. disk'[p] = disk[p] /\ \A x \in {p, p.dir, Root} : x \in locked' <=> x \in locked
  OBVIOUS
<1> QED
  BY <1>1, SteadyListing DEF Steady, Unraced

LEMMA EditKeeps ==
  ASSUME TypeOK, ScanInv, Edit
  PROVE  WalkInv' /\ InspectInv' /\ EndInv'
<1>1. UNCHANGED <<pc, unopened, listed, discovered, result, outcome>>
  BY DEF Edit, scanVars, walkVars
<1>2. Discovered' = Discovered
  BY <1>1 DEF Discovered
<1>3. ASSUME NEW p \in Path, Steady(p)'
      PROVE  /\ Steady(p) /\ disk'[p] = disk[p]
             /\ \A x \in {p, p.dir, Root} : x \in locked' <=> x \in locked
             /\ (p \in Included)' <=> p \in Included
             /\ \A size : Inspected(p, size)' = Inspected(p, size)
             /\ Listing'[p] = Listing[p]
  <2>1. /\ Steady(p) /\ disk'[p] = disk[p]
        /\ \A x \in {p, p.dir, Root} : x \in locked' <=> x \in locked
    BY <1>3, EditSpares
  <2> QED
    BY <2>1, SteadyListing
<1>4. WalkInv'
  <2> SUFFICES ASSUME pc' = "walk"
               PROVE  WalkInv'
    BY DEF WalkInv
  <2> USE <1>1, <1>2
  <2>1. /\ result' = Nothing
        /\ unopened' \intersect Hidden = {}
        /\ Root \in unopened' => unopened' = {Root} /\ listed' = {} /\ discovered' = Nothing
    BY DEF ScanInv, WalkInv
  <2>2. unopened' # {} /\ Root \notin unopened' \union touched' => Root \notin locked'
    <3>1. touched \subseteq touched' /\ (Root \notin touched' => (Root \in locked' <=> Root \in locked))
      BY DEF Edit
    <3> QED
      BY <3>1 DEF ScanInv, WalkInv
  <2>3. ASSUME NEW p \in Path, Steady(p)'
        PROVE  /\ p \in listed' \union Discovered' =>
                    /\ disk'[p] # None /\ ~p.ignored /\ p.dir \notin Hidden
                    /\ {Root, p.dir} \intersect locked' = {}
               /\ p \in Discovered' => p.regular /\ discovered'[p] = disk'[p].size
               /\ (p \in Included)' =>
                    Root \in unopened' \/ p.dir \in unopened' \/ p \in listed' \union Discovered'
    BY <2>3, <1>3 DEF ScanInv, WalkInv
  <2> QED
    BY <2>1, <2>2, <2>3 DEF WalkInv, Nothing
<1>5. InspectInv'
  <2> SUFFICES ASSUME pc' = "inspect"
               PROVE  InspectInv'
    BY DEF InspectInv
  <2>1. \A p \in Path : result'[p] # None => p \in Discovered'
    BY <1>1, <1>2 DEF ScanInv, InspectInv
  <2>2. ASSUME NEW p \in Path, Steady(p)'
        PROVE  /\ (p \in Included)' <=> p \in Discovered'
               /\ p \in Discovered' => discovered'[p] = disk'[p].size
               /\ result'[p] # None => result'[p] = Inspected(p, disk[p].size)'
    <3>1. Inspected(p, disk[p].size)' = Inspected(p, disk[p].size)
      BY <1>3, <2>2 DEF Inspected, Scanned
    <3> QED
      BY <1>1, <1>2, <1>3, <2>2, <3>1 DEF ScanInv, InspectInv
  <2> QED
    BY <2>1, <2>2 DEF InspectInv
<1>6. EndInv'
  <2>1. ASSUME NEW p \in Path, Steady(p)', pc' = "idle", outcome' = "ok"
        PROVE  result'[p] = Listing'[p]
    BY <1>1, <1>3, <2>1 DEF ScanInv, EndInv
  <2> QED
    BY <2>1 DEF EndInv
<1> QED
  BY <1>4, <1>5, <1>6

LEMMA StartKeeps ==
  ASSUME TypeOK, ScanInv, Start
  PROVE  WalkInv' /\ InspectInv' /\ EndInv'
<1>1. /\ pc' = "walk" /\ unopened' = {Root} /\ listed' = {} /\ discovered' = Nothing
      /\ result' = Nothing
  BY DEF Start
<1>2. Discovered' = {}
  BY <1>1 DEF Discovered, Nothing
<1>3. WalkInv'
  BY <1>1, <1>2, DirShape DEF WalkInv, Nothing
<1> QED
  BY <1>1, <1>3 DEF InspectInv, EndInv

LEMMA OpenDirKeeps ==
  ASSUME TypeOK, ScanInv, OpenDir
  PROVE  WalkInv' /\ InspectInv' /\ EndInv'
<1>1. UNCHANGED <<disk, locked, pc, discovered, result, touched, raced>> /\ pc = "walk"
  BY DEF OpenDir
<1>2. PICK d \in unopened :
        /\ listed' = IF d \in locked THEN listed
                     ELSE listed \union {p \in Path : p.dir = d /\ disk[p] # None /\ ~p.ignored}
        /\ unopened' = (unopened \ {d}) \union
                         (IF d = Root /\ d \notin locked THEN (Dir \ {Root}) \ Hidden ELSE {})
  BY DEF OpenDir
<1>3. Discovered' = Discovered
  BY <1>1 DEF Discovered
<1>4. /\ result = Nothing
      /\ unopened \intersect Hidden = {}
      /\ Root \in unopened => unopened = {Root} /\ listed = {} /\ discovered = Nothing
      /\ unopened # {} /\ Root \notin unopened \union touched => Root \notin locked
  BY <1>1 DEF ScanInv, WalkInv
<1>5. Root \notin unopened'
  BY <1>2, <1>4
<1>6. unopened' \intersect Hidden = {}
  BY <1>2, <1>4
<1>7. unopened' # {} /\ Root \notin touched => Root \notin locked
  BY <1>2, <1>4
<1>8. ASSUME NEW p \in Path, Steady(p)
      PROVE  /\ p \in listed' \union Discovered =>
                  /\ disk[p] # None /\ ~p.ignored /\ p.dir \notin Hidden
                  /\ {Root, p.dir} \intersect locked = {}
             /\ p \in Discovered => p.regular /\ discovered[p] = disk[p].size
             /\ p \in Included => p.dir \in unopened' \/ p \in listed' \union Discovered
  <2>1. /\ p \in listed \union Discovered =>
             /\ disk[p] # None /\ ~p.ignored /\ p.dir \notin Hidden
             /\ {Root, p.dir} \intersect locked = {}
        /\ p \in Discovered => p.regular /\ discovered[p] = disk[p].size
        /\ p \in Included => Root \in unopened \/ p.dir \in unopened \/ p \in listed \union Discovered
    BY <1>1, <1>8 DEF ScanInv, WalkInv
  <2>2. Root \notin touched
    BY <1>8 DEF Steady
  <2>3. p \in listed' \ listed => /\ disk[p] # None /\ ~p.ignored /\ p.dir = d
                                  /\ d \notin locked
    BY <1>2
  <2>4. d \notin locked => Root \notin locked
    BY <1>4, <2>2
  <2>5. p \in Included => /\ Root \notin locked /\ p.dir \notin locked /\ p.dir \notin Hidden
                          /\ disk[p] # None /\ ~p.ignored
    BY DEF Included, Reachable
  <2>6. p.dir \in Dir
    BY PathShape
  <2>7. CASE d = Root
    <3>1. p \in Included => p.dir \in unopened' \/ p \in listed'
      BY <1>2, <2>5, <2>6, <2>7
    <3> QED
      BY <2>1, <2>3, <2>4, <2>7, <3>1, DirShape
  <2>8. CASE d # Root
    <3>1. Root \notin unopened
      BY <1>4, <2>8
    <3>2. p.dir = d /\ p \in Included => p \in listed'
      BY <1>2, <2>5
    <3>3. p.dir # d /\ p.dir \in unopened => p.dir \in unopened'
      BY <1>2
    <3>4. d \notin Hidden
      BY <1>4
    <3>5. listed \subseteq listed'
      BY <1>2
    <3> QED
      BY <2>1, <2>3, <2>4, <3>1, <3>2, <3>3, <3>4, <3>5
  <2> QED
    BY <2>7, <2>8
<1>9. WalkInv'
  <2>1. ASSUME NEW p \in Path, Steady(p)'
        PROVE  Steady(p) /\ ((p \in Included)' <=> p \in Included)
    BY <1>1, <2>1, StillSteady
  <2>2. ASSUME NEW p \in Path, Steady(p)'
        PROVE  /\ p \in listed' \union Discovered' =>
                    /\ disk'[p] # None /\ ~p.ignored /\ p.dir \notin Hidden
                    /\ {Root, p.dir} \intersect locked' = {}
               /\ p \in Discovered' => p.regular /\ discovered'[p] = disk'[p].size
               /\ (p \in Included)' =>
                    Root \in unopened' \/ p.dir \in unopened' \/ p \in listed' \union Discovered'
    BY <1>1, <1>3, <1>8, <2>1, <2>2
  <2>3. /\ result' = Nothing /\ unopened' \intersect Hidden = {}
        /\ Root \in unopened' => unopened' = {Root} /\ listed' = {} /\ discovered' = Nothing
        /\ unopened' # {} /\ Root \notin unopened' \union touched' => Root \notin locked'
    BY <1>1, <1>4, <1>5, <1>6, <1>7
  <2> QED
    BY <2>2, <2>3 DEF WalkInv, Nothing
<1> QED
  BY <1>1, <1>9 DEF InspectInv, EndInv

LEMMA StatKeeps ==
  ASSUME TypeOK, ScanInv, Stat
  PROVE  WalkInv' /\ InspectInv' /\ EndInv'
<1>1. /\ UNCHANGED <<disk, locked, result, touched, raced>> /\ pc = "walk"
  BY DEF Stat
<1>2. PICK p \in listed :
        IF ~p.regular \/ disk[p] = None
        THEN /\ listed' = listed \ {p}
             /\ UNCHANGED <<pc, unopened, discovered, total, outcome>>
        ELSE /\ total' = total + disk[p].size
             /\ IF Cardinality(Discovered) + 1 > MaxFiles \/ total' > MaxBytes
                THEN RefuseAtCap
                ELSE /\ discovered' = [discovered EXCEPT ![p] = disk[p].size]
                     /\ listed' = listed \ {p}
                     /\ UNCHANGED <<pc, unopened, outcome>>
  BY DEF Stat
<1>3. CASE RefuseAtCap
  BY <1>3 DEF RefuseAtCap, End, WalkInv, InspectInv, EndInv
<1>4. CASE ~RefuseAtCap
  <2>1. p \in Path
    BY DEF TypeOK
  <2>2. UNCHANGED <<pc, unopened>> /\ listed' = listed \ {p}
    BY <1>2, <1>4
  <2>3. \/ (~p.regular \/ disk[p] = None) /\ discovered' = discovered
        \/ /\ p.regular /\ disk[p] # None
           /\ discovered' = [discovered EXCEPT ![p] = disk[p].size]
    BY <1>2, <1>4
  <2>4. discovered \in [Path -> {c.size : c \in Content} \union {None}]
    BY DEF TypeOK
  <2>5. disk[p] # None => disk[p].size # None
    BY <2>1, ContentShape, NoneShape DEF TypeOK
  <2>6. \A q \in Path : q # p => discovered'[q] = discovered[q]
    BY <2>1, <2>3, <2>4
  <2>7. \A q \in Path : q # p => (q \in Discovered' <=> q \in Discovered)
    BY <2>6 DEF Discovered
  <2>8. p.regular /\ disk[p] # None => discovered'[p] = disk[p].size /\ p \in Discovered'
    BY <2>1, <2>3, <2>4, <2>5 DEF Discovered
  <2>9. ~p.regular \/ disk[p] = None => discovered' = discovered /\ Discovered' = Discovered
    BY <2>3 DEF Discovered
  <2>10. /\ result = Nothing /\ unopened \intersect Hidden = {} /\ Root \notin unopened
         /\ unopened # {} /\ Root \notin unopened \union touched => Root \notin locked
    BY <1>1 DEF ScanInv, WalkInv
  <2>11. ASSUME NEW q \in Path, Steady(q)'
         PROVE  /\ q \in listed' \union Discovered' =>
                     /\ disk'[q] # None /\ ~q.ignored /\ q.dir \notin Hidden
                     /\ {Root, q.dir} \intersect locked' = {}
                /\ q \in Discovered' => q.regular /\ discovered'[q] = disk'[q].size
                /\ (q \in Included)' =>
                     Root \in unopened' \/ q.dir \in unopened' \/ q \in listed' \union Discovered'
    <3>1. Steady(q) /\ ((q \in Included)' <=> q \in Included)
      BY <1>1, <2>11, StillSteady
    <3>2. /\ q \in listed \union Discovered =>
               /\ disk[q] # None /\ ~q.ignored /\ q.dir \notin Hidden
               /\ {Root, q.dir} \intersect locked = {}
          /\ q \in Discovered => q.regular /\ discovered[q] = disk[q].size
          /\ q \in Included => Root \in unopened \/ q.dir \in unopened \/ q \in listed \union Discovered
      BY <1>1, <3>1 DEF ScanInv, WalkInv
    <3>3. q \in Included => q.regular /\ disk[q] # None
      BY DEF Included, Reachable
    <3>4. CASE q # p
      BY <1>1, <2>2, <2>6, <2>7, <3>1, <3>2, <3>4
    <3>5. CASE q = p
      BY <1>1, <2>2, <2>8, <2>9, <3>1, <3>2, <3>3, <3>5
    <3> QED
      BY <3>4, <3>5
  <2>12. WalkInv'
    BY <1>1, <2>2, <2>10, <2>11 DEF WalkInv, Nothing
  <2> QED
    BY <1>1, <2>2, <2>12 DEF InspectInv, EndInv
<1> QED
  BY <1>3, <1>4

LEMMA EndWalkKeeps ==
  ASSUME TypeOK, ScanInv, EndWalk
  PROVE  WalkInv' /\ InspectInv' /\ EndInv'
<1>1. /\ UNCHANGED <<disk, locked, walkVars, result, touched, raced>> /\ pc = "walk"
      /\ unopened = {} /\ listed = {}
  BY DEF EndWalk
<1>2. CASE rootError
  BY <1>2 DEF EndWalk, AfterWalk, End, WalkInv, InspectInv, EndInv
<1>3. CASE ~rootError
  <2>1. pc' = "inspect"
    BY <1>3 DEF EndWalk, AfterWalk
  <2>2. Discovered' = Discovered /\ discovered' = discovered
    BY <1>1 DEF Discovered, walkVars
  <2>3. \A p \in Path : result'[p] = None
    BY <1>1 DEF ScanInv, WalkInv, Nothing
  <2>4. ASSUME NEW p \in Path, Steady(p)'
        PROVE  /\ (p \in Included)' <=> p \in Discovered'
               /\ p \in Discovered' => discovered'[p] = disk'[p].size
    <3>1. Steady(p) /\ ((p \in Included)' <=> p \in Included)
      BY <1>1, <2>4, StillSteady
    <3>2. /\ p \in Discovered =>
               /\ disk[p] # None /\ ~p.ignored /\ p.dir \notin Hidden
               /\ {Root, p.dir} \intersect locked = {}
               /\ p.regular /\ discovered[p] = disk[p].size
          /\ p \in Included => p \in Discovered
      BY <1>1, <3>1 DEF ScanInv, WalkInv
    <3>3. p \in Discovered => p \in Included
      BY <3>2 DEF Included, Reachable
    <3> QED
      BY <1>1, <2>2, <3>1, <3>2, <3>3
  <2>5. InspectInv'
    BY <2>3, <2>4 DEF InspectInv
  <2> QED
    BY <2>1, <2>5 DEF WalkInv, EndInv
<1> QED
  BY <1>2, <1>3

LEMMA InspectKeeps ==
  ASSUME TypeOK, ScanInv, Inspect
  PROVE  WalkInv' /\ InspectInv' /\ EndInv'
<1>1. /\ UNCHANGED <<disk, locked, pc, walkVars, touched, raced>> /\ pc = "inspect"
  BY DEF Inspect
<1>2. PICK p \in Uninspected : result' = [result EXCEPT ![p] = Inspected(p, discovered[p])]
  BY DEF Inspect
<1>3. p \in Path /\ p \in Discovered
  BY DEF Uninspected, Discovered
<1>4. Discovered' = Discovered /\ discovered' = discovered
  BY <1>1 DEF Discovered, walkVars
<1>5. /\ \A q \in Path : q # p => result'[q] = result[q]
      /\ result'[p] = Inspected(p, discovered[p])
  BY <1>2, <1>3 DEF TypeOK
<1>6. \A q \in Path : result'[q] # None => q \in Discovered'
  BY <1>1, <1>3, <1>4, <1>5 DEF ScanInv, InspectInv
<1>7. ASSUME NEW q \in Path, Steady(q)'
      PROVE  /\ (q \in Included)' <=> q \in Discovered'
             /\ q \in Discovered' => discovered'[q] = disk'[q].size
             /\ result'[q] # None => result'[q] = Inspected(q, disk[q].size)'
  <2>1. Steady(q) /\ ((q \in Included)' <=> q \in Included)
    BY <1>1, <1>7, StillSteady
  <2>2. Inspected(q, disk[q].size)' = Inspected(q, disk[q].size)
    BY <1>1 DEF Inspected, Scanned
  <2>3. /\ q \in Included <=> q \in Discovered
        /\ q \in Discovered => discovered[q] = disk[q].size
        /\ result[q] # None => result[q] = Inspected(q, disk[q].size)
    BY <1>1, <2>1 DEF ScanInv, InspectInv
  <2> QED
    BY <1>1, <1>3, <1>4, <1>5, <2>1, <2>2, <2>3
<1>8. InspectInv'
  BY <1>6, <1>7 DEF InspectInv
<1> QED
  BY <1>1, <1>8 DEF WalkInv, EndInv

LEMMA UpdateKeeps ==
  ASSUME TypeOK, ScanInv, Update
  PROVE  WalkInv' /\ InspectInv' /\ EndInv'
<1>1. /\ UNCHANGED <<disk, locked, walkVars, result, touched, raced>>
      /\ pc = "inspect" /\ pc' = "idle" /\ Uninspected = {}
  BY DEF Update, End
<1>2. ASSUME NEW p \in Path, Steady(p)'
      PROVE  result'[p] = Listing'[p]
  <2>1. Steady(p) /\ Listing'[p] = Listing[p]
    BY <1>1, <1>2, StillSteady
  <2>2. /\ p \in Included <=> p \in Discovered
        /\ result[p] # None => result[p] = Inspected(p, disk[p].size) /\ p \in Discovered
    BY <1>1, <2>1 DEF ScanInv, InspectInv
  <2>3. p \in Discovered => result[p] # None
    BY <1>1 DEF Uninspected
  <2>4. Listing[p] = IF p \in Included THEN Inspected(p, disk[p].size) ELSE None
    BY DEF Listing
  <2> QED
    BY <1>1, <2>1, <2>2, <2>3, <2>4
<1> QED
  BY <1>1, <1>2 DEF WalkInv, InspectInv, EndInv

LEMMA StutterKeeps ==
  ASSUME ScanInv, UNCHANGED vars
  PROVE  WalkInv' /\ InspectInv' /\ EndInv'
<1>1. UNCHANGED <<disk, locked, pc, unopened, listed, discovered, result, outcome, touched, raced>>
  BY DEF vars, scanVars, walkVars
<1>2. Discovered' = Discovered
  BY <1>1 DEF Discovered
<1>3. \A p \in Path : /\ Steady(p)' <=> Steady(p)
                      /\ (p \in Included)' <=> p \in Included
                      /\ Listing'[p] = Listing[p]
  BY <1>1, StillSteady
<1>4. WalkInv'
  BY <1>1, <1>2, <1>3 DEF ScanInv, WalkInv, Nothing
<1>5. \A p \in Path : Inspected(p, disk[p].size)' = Inspected(p, disk[p].size)
  BY <1>1 DEF Inspected, Scanned
<1>6. InspectInv'
  BY <1>1, <1>2, <1>3, <1>5 DEF ScanInv, InspectInv
<1>7. EndInv'
  BY <1>1, <1>3 DEF ScanInv, EndInv
<1> QED
  BY <1>4, <1>6, <1>7

LEMMA ScanStep ==
  ASSUME ScanInv, [Next]_vars
  PROVE  ScanInv'
<1>1. TypeOK /\ TypeOK'
  BY TypeStep DEF ScanInv
<1>2. WalkInv' /\ InspectInv' /\ EndInv'
  BY <1>1, EditKeeps, StartKeeps, OpenDirKeeps, StatKeeps, EndWalkKeeps, InspectKeeps,
     UpdateKeeps, StutterKeeps DEF Next
<1> QED
  BY <1>1, <1>2 DEF ScanInv

LEMMA ScanStart ==
  ASSUME Init
  PROVE  ScanInv
BY TypeInit, NoneShape DEF Init, ScanInv, WalkInv, InspectInv, EndInv

(* However the tree moves under a scan, every file that kept still is in   *)
(* the result as the tree has it, in whatever order the directories were   *)
(* opened and the entries stat'ed (scan, discover and inspect).            *)
THEOREM SteadyCorrect == Spec => []SteadyFilesAreListed
<1>1. Init => ScanInv
  BY ScanStart
<1>2. ScanInv /\ [Next]_vars => ScanInv'
  BY ScanStep
<1>3. ScanInv => SteadyFilesAreListed
  BY DEF ScanInv, EndInv, SteadyFilesAreListed, Ended, Steady
<1> QED
  BY <1>1, <1>2, <1>3, PTL DEF Spec
----------------------------------------------------------------------------
(* A file that kept still is labelled by the size of what it was hashed of. *)
LEMMA InspectedLabelled ==
  ASSUME TypeOK, NEW p \in Path, disk[p] # None
  PROVE  Labelled(Inspected(p, disk[p].size))
<1>1. disk[p] \in Content
  BY DEF TypeOK
<1>2. Inspected(p, disk[p].size).hash # None =>
        Inspected(p, disk[p].size) =
          Scanned(disk[p].text, IF disk[p].size > ParseCap THEN "parse_skipped" ELSE None)
  BY DEF Inspected, Scanned
<1> QED
  BY <1>1, <1>2 DEF Labelled

LEMMA IndexStep ==
  ASSUME ScanInv, IndexInv, [Next]_vars
  PROVE  IndexInv'
<1> USE DEF IndexInv
<1>t. TypeOK
  BY DEF ScanInv
<1>n. Labelled(None)
  BY DEF Labelled
<1>1. CASE Edit
  <2>1. UNCHANGED <<pc, index, result, outcome>>
    BY <1>1 DEF Edit, scanVars
  <2>2. \A p \in Path : Unraced(p)' => Unraced(p)
    BY <1>t, <1>1, EditSpares
  <2>3. pc' # "idle" => touched' \subseteq raced'
    BY <1>1, <2>1 DEF Edit
  <2>4. \A p \in Path : /\ Labelled(index[p])' <=> Labelled(index[p])
                        /\ Labelled(result[p])' <=> Labelled(result[p])
    BY <2>1 DEF Labelled
  <2> QED
    BY <2>1, <2>2, <2>3, <2>4
<1>2. CASE Start
  <2>1. /\ pc' = "walk" /\ touched' = {} /\ result' = Nothing /\ UNCHANGED <<index, raced>>
    BY <1>2 DEF Start
  <2>2. \A p \in Path : result'[p] = None
    BY <2>1 DEF Nothing
  <2>3. \A p \in Path : /\ Labelled(index[p])' <=> Labelled(index[p])
                        /\ Labelled(result[p])'
    BY <2>1, <2>2 DEF Labelled
  <2> QED
    BY <2>1, <2>3 DEF Unraced
<1>3. CASE OpenDir \/ Stat \/ EndWalk
  <2>1. /\ UNCHANGED <<index, result, touched, raced>> /\ pc = "walk"
        /\ pc' = "idle" => outcome' # "ok"
    BY <1>3 DEF OpenDir, Stat, RefuseAtCap, EndWalk, AfterWalk, End
  <2>2. \A p \in Path : /\ Labelled(index[p])' <=> Labelled(index[p])
                        /\ Labelled(result[p])' <=> Labelled(result[p])
    BY <2>1 DEF Labelled
  <2> QED
    BY <2>1, <2>2 DEF Unraced
<1>4. CASE Inspect
  <2>1. /\ UNCHANGED <<disk, locked, index, pc, touched, raced>> /\ pc = "inspect"
    BY <1>4 DEF Inspect
  <2>2. PICK p \in Uninspected : result' = [result EXCEPT ![p] = Inspected(p, discovered[p])]
    BY <1>4 DEF Inspect
  <2>3. p \in Path /\ p \in Discovered
    BY DEF Uninspected, Discovered
  <2>4. /\ \A q \in Path : q # p => result'[q] = result[q]
        /\ result'[p] = Inspected(p, discovered[p])
    BY <1>t, <2>2, <2>3 DEF TypeOK
  <2>5. Unraced(p) => Labelled(result'[p])
    <3>1. Unraced(p) => Steady(p)
      BY <2>1 DEF Unraced, Steady
    <3>2. Steady(p) => p \in Included /\ discovered[p] = disk[p].size
      BY <2>1, <2>3 DEF ScanInv, InspectInv
    <3> QED
      BY <1>t, <2>3, <2>4, <3>1, <3>2, InspectedLabelled DEF Included
  <2>6. \A q \in Path : Unraced(q) => Labelled(result'[q])
    BY <2>4, <2>5
  <2>7. \A q \in Path : /\ Labelled(index[q])' <=> Labelled(index[q])
                        /\ Labelled(result[q])' <=> Labelled(result'[q])
                        /\ Unraced(q)' <=> Unraced(q)
    BY <2>1 DEF Labelled, Unraced
  <2> QED
    BY <2>1, <2>6, <2>7
<1>5. CASE Update
  <2>1. UNCHANGED <<result, touched, raced>> /\ pc' = "idle" /\ index' = Compared
    BY <1>5 DEF Update, End
  <2>2. \A p \in Path :
          index'[p] = IF result[p] # None /\ index[p] # None /\ index[p].hash = result[p].hash
                      THEN index[p] ELSE result[p]
    BY <2>1 DEF Compared
  <2>3. \A p \in Path : index'[p] = index[p] \/ index'[p] = result[p]
    BY <2>2
  <2>4. \A p \in Path : Unraced(p) => Labelled(index'[p]) /\ Labelled(result[p])
    BY <2>3
  <2>5. \A p \in Path : /\ Labelled(index[p])' <=> Labelled(index'[p])
                        /\ Labelled(result[p])' <=> Labelled(result[p])
                        /\ Unraced(p)' <=> Unraced(p)
    BY <2>1 DEF Labelled, Unraced
  <2> QED
    BY <2>1, <2>2, <2>4, <2>5
<1>6. CASE UNCHANGED vars
  <2>1. UNCHANGED <<pc, index, result, outcome, touched, raced>>
    BY <1>6 DEF vars, scanVars
  <2>2. \A p \in Path : /\ Labelled(index[p])' <=> Labelled(index[p])
                        /\ Labelled(result[p])' <=> Labelled(result[p])
                        /\ Unraced(p)' <=> Unraced(p)
    BY <2>1 DEF Labelled, Unraced
  <2> QED
    BY <2>1, <2>2
<1> QED
  BY <1>1, <1>2, <1>3, <1>4, <1>5, <1>6 DEF Next

LEMMA IndexStart ==
  ASSUME Init
  PROVE  IndexInv
BY NoneShape DEF Init, Nothing, IndexInv, Labelled

(* Two rows with the hash of one content carry the same label. *)
LEMMA SameHashSameRow ==
  ASSUME NEW r, NEW s, r # None, s # None, Labelled(r), Labelled(s), r.hash = s.hash,
         r.hash # None
  PROVE  r = s
<1>1. PICK c \in Content :
        r = Scanned(c.text, IF c.size > ParseCap THEN "parse_skipped" ELSE None)
  BY DEF Labelled
<1>2. PICK d \in Content :
        s = Scanned(d.text, IF d.size > ParseCap THEN "parse_skipped" ELSE None)
  BY DEF Labelled
<1>3. c.text = d.text
  BY <1>1, <1>2 DEF Scanned
<1>4. c = d
  BY <1>3, ContentShape
<1> QED
  BY <1>1, <1>2, <1>4

(* A run over a tree that kept still leaves in the index, of every file    *)
(* that no scan ever raced with an edit, the hash the tree has and the     *)
(* label that goes with it, although a row with the scan's hash is never   *)
(* written again (diff of the scan against the files table).               *)
THEOREM IndexCorrect == Spec => []IndexFollowsTree
<1>1. Init => ScanInv /\ IndexInv
  BY ScanStart, IndexStart
<1>2. ScanInv /\ IndexInv /\ [Next]_vars => ScanInv' /\ IndexInv'
  BY ScanStep, IndexStep
<1>3. ScanInv /\ IndexInv => IndexFollowsTree
  <2> SUFFICES ASSUME ScanInv, IndexInv, Ended, outcome = "ok", touched = {},
                      NEW p \in Path, Unraced(p)
               PROVE  \/ index[p] = Listing[p]
                      \/ /\ index[p] # None /\ Listing[p] # None
                         /\ index[p].hash = None /\ Listing[p].hash = None
    BY DEF IndexFollowsTree, Unraced
  <2>1. result[p] = Listing[p]
    BY DEF ScanInv, EndInv, Ended, Steady
  <2>2. Labelled(index[p]) /\ Labelled(result[p])
    BY DEF IndexInv
  <2>3. \/ index[p] = result[p]
        \/ index[p] # None /\ result[p] # None /\ index[p].hash = result[p].hash
    BY DEF IndexInv, Ended
  <2> QED
    BY <2>1, <2>2, <2>3, SameHashSameRow
<1> QED
  BY <1>1, <1>2, <1>3, PTL DEF Spec
----------------------------------------------------------------------------
(***************************************************************************)
(* Sums over finite sets.  What a recursive function sums is proved from a *)
(* least counterexample: the induction theorems of the library take an     *)
(* operator, which no prover here can instantiate.                         *)
(***************************************************************************)
Pick(S) == CHOOSE p \in S : TRUE

SumEquation(g, size, S) ==
  g[S] = IF S = {} THEN 0 ELSE size[Pick(S)] + g[S \ {Pick(S)}]

Summed(g, size, D) == \A S \in SUBSET D : SumEquation(g, size, S)

SumAdds(g, size, D) ==
  \A S \in SUBSET D : \A q \in D \ S : g[S \union {q}] = g[S] + size[q]

LEMMA LeastNat ==
  ASSUME NEW B \in SUBSET Nat, B # {}
  PROVE  \E n \in B : \A m \in Nat : m < n => m \notin B
<1>1. PICK n \in B : \A m \in B : ~(<<m, n>> \in OpToRel(<, Nat))
  BY WFMin, NatLessThanWellFounded, Zenon
<1>2. \A m \in B : ~(m < n)
  BY <1>1 DEF OpToRel
<1> QED
  BY <1>2

(* A set of a finite one, and what is left of it without one element. *)
LEMMA Smaller ==
  ASSUME NEW D, IsFiniteSet(D), NEW S \in SUBSET D
  PROVE  /\ IsFiniteSet(S) /\ Cardinality(S) \in Nat /\ Cardinality(S) <= Cardinality(D)
         /\ Cardinality(S) = 0 <=> S = {}
         /\ \A p \in S : Cardinality(S \ {p}) = Cardinality(S) - 1 /\ S \ {p} \in SUBSET D
         /\ S # {} => Pick(S) \in S
<1>1. IsFiniteSet(S) /\ Cardinality(S) <= Cardinality(D)
  BY FS_Subset
<1>2. Cardinality(S) \in Nat /\ (Cardinality(S) = 0 <=> S = {})
  BY <1>1, FS_CardinalityType, FS_EmptySet
<1>3. \A p \in S : Cardinality(S \ {p}) = Cardinality(S) - 1
  BY <1>1, FS_RemoveElement
<1> QED
  BY <1>1, <1>2, <1>3 DEF Pick

LEMMA SumsExist ==
  ASSUME NEW D, IsFiniteSet(D), NEW size \in [D -> Nat]
  PROVE  \E g \in [SUBSET D -> Nat] : Summed(g, size, D)
<1> DEFINE Upto(g, n) == \A S \in SUBSET D : Cardinality(S) <= n => SumEquation(g, size, S)
           B == {n \in Nat : ~ \E g \in [SUBSET D -> Nat] : Upto(g, n)}
<1>1. \A S \in SUBSET D : /\ Cardinality(S) \in Nat /\ Cardinality(S) <= Cardinality(D)
                          /\ Cardinality(S) = 0 <=> S = {}
                          /\ \A p \in S : /\ Cardinality(S \ {p}) = Cardinality(S) - 1
                                          /\ S \ {p} \in SUBSET D
                          /\ S # {} => Pick(S) \in S
  BY Smaller
<1>2. B = {}
  <2> SUFFICES ASSUME B # {} PROVE FALSE
    OBVIOUS
  <2>1. PICK n \in B : \A m \in Nat : m < n => m \notin B
    <3> HIDE DEF B
    <3>1. B \in SUBSET Nat
      BY DEF B
    <3> QED
      BY <3>1, LeastNat
  <2>2. n # 0
    <3> DEFINE zero == [S \in SUBSET D |-> 0]
    <3>1. zero \in [SUBSET D -> Nat]
      OBVIOUS
    <3>2. Upto(zero, 0)
      BY <1>1 DEF SumEquation
    <3> QED
      BY <3>1, <3>2
  <2>3. n - 1 \in Nat /\ n - 1 \notin B
    <3>1. n \in Nat
      OBVIOUS
    <3>2. n - 1 \in Nat /\ n - 1 < n
      BY <2>2, <3>1
    <3> HIDE DEF B
    <3> QED
      BY <2>1, <3>2
  <2>4. PICK g \in [SUBSET D -> Nat] : Upto(g, n - 1)
    BY <2>3
  <2> DEFINE More(S) == IF S = {} THEN 0 ELSE size[Pick(S)] + g[S \ {Pick(S)}]
             h == [S \in SUBSET D |-> More(S)]
  <2>5. \A S \in SUBSET D : More(S) \in Nat
    BY <1>1
  <2>6. h \in [SUBSET D -> Nat]
    BY <2>5
  <2>7. \A S \in SUBSET D : Cardinality(S) <= n - 1 => h[S] = g[S]
    BY <2>4 DEF SumEquation
  <2>8. Upto(h, n)
    <3> SUFFICES ASSUME NEW S \in SUBSET D, Cardinality(S) <= n
                 PROVE  SumEquation(h, size, S)
      OBVIOUS
    <3>1. CASE S = {}
      BY <3>1 DEF SumEquation
    <3>2. CASE S # {}
      <4>1. /\ S \ {Pick(S)} \in SUBSET D
            /\ Cardinality(S \ {Pick(S)}) <= n - 1
        BY <1>1, <3>2
      <4>2. h[S \ {Pick(S)}] = g[S \ {Pick(S)}]
        BY <2>7, <4>1
      <4>3. h[S] = size[Pick(S)] + g[S \ {Pick(S)}]
        BY <3>2
      <4> QED
        BY <3>2, <4>2, <4>3 DEF SumEquation
    <3> QED
      BY <3>1, <3>2
  <2> QED
    BY <2>6, <2>8
<1>3. Cardinality(D) \in Nat
  BY FS_CardinalityType
<1>4. PICK g \in [SUBSET D -> Nat] : Upto(g, Cardinality(D))
  BY <1>2, <1>3
<1> QED
  BY <1>1, <1>4 DEF Summed

LEMMA SumsAreNat ==
  ASSUME NEW D, IsFiniteSet(D), NEW size \in [D -> Nat], NEW g, Summed(g, size, D)
  PROVE  \A S \in SUBSET D : g[S] \in Nat
<1> DEFINE B == {n \in Nat : \E S \in SUBSET D : Cardinality(S) = n /\ g[S] \notin Nat}
<1>1. B = {}
  <2> SUFFICES ASSUME B # {} PROVE FALSE
    OBVIOUS
  <2>1. PICK n \in B : \A m \in Nat : m < n => m \notin B
    <3>1. B \in SUBSET Nat
      OBVIOUS
    <3> HIDE DEF B
    <3> QED
      BY <3>1, LeastNat
  <2>2. PICK S \in SUBSET D : Cardinality(S) = n /\ g[S] \notin Nat
    BY <2>1
  <2>3. g[S] = IF S = {} THEN 0 ELSE size[Pick(S)] + g[S \ {Pick(S)}]
    BY DEF Summed, SumEquation
  <2>4. S # {}
    BY <2>2, <2>3
  <2>5. PICK p \in S : p = Pick(S)
    BY <2>4 DEF Pick
  <2>6. PICK R \in SUBSET D : R = S \ {p}
    OBVIOUS
  <2>7. Cardinality(S) \in Nat /\ Cardinality(R) \in Nat /\ Cardinality(R) = Cardinality(S) - 1
    BY <2>6, Smaller
  <2>8. g[R] \in Nat /\ size[p] \in Nat
    BY <2>1, <2>2, <2>7
  <2>9. g[S] = size[p] + g[R]
    BY <2>3, <2>4, <2>5, <2>6
  <2> QED
    BY <2>2, <2>8, <2>9
<1> QED
  BY <1>1, Smaller

(* The order in which the elements are taken does not matter. *)
LEMMA SumOfMore ==
  ASSUME NEW D, IsFiniteSet(D), NEW size \in [D -> Nat],
         NEW g \in [SUBSET D -> Nat], Summed(g, size, D)
  PROVE  SumAdds(g, size, D)
<1> DEFINE Adds(S) == \A x \in D \ S : g[S \union {x}] = g[S] + size[x]
           B == {n \in Nat : \E S \in SUBSET D : Cardinality(S) = n /\ ~Adds(S)}
<1>1. \A S \in SUBSET D : /\ Cardinality(S) \in Nat
                          /\ \A p \in S : /\ Cardinality(S \ {p}) = Cardinality(S) - 1
                                          /\ S \ {p} \in SUBSET D
                          /\ S # {} => Pick(S) \in S
  BY Smaller
<1>2. B = {}
  <2> SUFFICES ASSUME B # {} PROVE FALSE
    OBVIOUS
  <2>1. PICK n \in B : \A m \in Nat : m < n => m \notin B
    <3>1. B \in SUBSET Nat
      OBVIOUS
    <3> HIDE DEF B
    <3> QED
      BY <3>1, LeastNat
  <2>2. PICK S \in SUBSET D : Cardinality(S) = n /\ ~Adds(S)
    BY <2>1
  <2>3. PICK x \in D \ S : g[S \union {x}] # g[S] + size[x]
    BY <2>2
  <2>4. PICK p : p = Pick(S \union {x})
    OBVIOUS
  <2>5. S \union {x} \in SUBSET D /\ p \in S \union {x}
    BY <1>1, <2>3, <2>4
  <2>6. g[S \union {x}] = size[p] + g[(S \union {x}) \ {p}]
    BY <2>4, <2>5 DEF Summed, SumEquation
  <2>7. CASE p = x
    <3>1. (S \union {x}) \ {p} = S
      BY <2>3, <2>7
    <3>2. g[S] \in Nat /\ size[x] \in Nat
      BY <2>3
    <3>3. g[S \union {x}] = size[x] + g[S]
      BY <2>6, <2>7, <3>1
    <3> QED
      BY <2>3, <3>2, <3>3
  <2>8. CASE p # x
    <3>1. p \in S /\ p \in D /\ x \in D
      BY <2>5, <2>8, <2>3
    <3>2. PICK R \in SUBSET D : R = S \ {p}
      BY <1>1, <3>1
    <3>3. Cardinality(R) \in Nat /\ Cardinality(R) < n
      BY <1>1, <2>2, <3>1, <3>2
    <3>4. Adds(R)
      BY <2>1, <3>3
    <3>5. /\ g[R \union {x}] = g[R] + size[x]
          /\ g[R \union {p}] = g[R] + size[p]
      BY <2>3, <3>1, <3>2, <3>4
    <3>6. R \union {p} = S /\ R \union {x} = (S \union {x}) \ {p}
      BY <2>8, <3>1, <3>2
    <3>7. g[R] \in Nat /\ size[p] \in Nat /\ size[x] \in Nat
      BY <3>1, <3>2
    <3>8. g[S] = g[R] + size[p] /\ g[S \union {x}] = size[p] + (g[R] + size[x])
      BY <2>6, <3>5, <3>6
    <3> QED
      BY <2>3, <3>7, <3>8
  <2> QED
    BY <2>7, <2>8
<1> QED
  BY <1>1, <1>2 DEF SumAdds

(* A part sums to no more than the whole. *)
LEMMA SumGrows ==
  ASSUME NEW D, IsFiniteSet(D), NEW size \in [D -> Nat],
         NEW g \in [SUBSET D -> Nat], Summed(g, size, D), NEW T \in SUBSET D
  PROVE  g[T] <= g[D]
<1>0. SumAdds(g, size, D)
  BY SumOfMore
<1> DEFINE B == {n \in Nat : \E S \in SUBSET D : Cardinality(D \ S) = n /\ ~(g[S] <= g[D])}
<1>1. \A S \in SUBSET D : Cardinality(S) \in Nat
  BY Smaller
<1>2. B = {}
  <2> SUFFICES ASSUME B # {} PROVE FALSE
    OBVIOUS
  <2>1. PICK n \in B : \A m \in Nat : m < n => m \notin B
    <3>1. B \in SUBSET Nat
      OBVIOUS
    <3> HIDE DEF B
    <3> QED
      BY <3>1, LeastNat
  <2>2. PICK S \in SUBSET D : Cardinality(D \ S) = n /\ ~(g[S] <= g[D])
    BY <2>1
  <2>3. D \in SUBSET D /\ g[D] \in Nat /\ g[S] \in Nat
    OBVIOUS
  <2>4. PICK x \in D : x \notin S
    <3>1. S # D
      BY <2>2, <2>3
    <3> QED
      BY <3>1
  <2>5. g[S \union {x}] = g[S] + size[x] /\ size[x] \in Nat
    <3>1. x \in D \ S
      BY <2>4
    <3>2. g[S \union {x}] = g[S] + size[x]
      BY <1>0, <3>1 DEF SumAdds
    <3> QED
      BY <3>2
  <2>6. PICK R \in SUBSET D : R = D \ S
    OBVIOUS
  <2>7. Cardinality(R \ {x}) = Cardinality(R) - 1 /\ R \ {x} \in SUBSET D
    BY <2>4, <2>6, Smaller
  <2>8. R \ {x} = D \ (S \union {x}) /\ S \union {x} \in SUBSET D
    BY <2>4, <2>6
  <2>9. Cardinality(D \ (S \union {x})) \in Nat /\ Cardinality(D \ (S \union {x})) < n
    <3>1. Cardinality(R) = n /\ Cardinality(R) \in Nat
      BY <1>1, <2>2, <2>6
    <3>2. Cardinality(R \ {x}) \in Nat /\ Cardinality(R \ {x}) < n
      BY <1>1, <2>7, <3>1
    <3> QED
      BY <2>8, <3>2
  <2>10. g[S \union {x}] <= g[D]
    BY <2>1, <2>8, <2>9
  <2> QED
    BY <2>2, <2>3, <2>5, <2>10
<1> QED
  BY <1>1, <1>2
----------------------------------------------------------------------------
(***************************************************************************)
(* The bytes of a tree.                                                    *)
(***************************************************************************)
SizeOf == [p \in Included |-> disk[p].size]

FiniteInv == IsFiniteSet({p \in Path : disk[p] # None})

LEMMA BytesSum ==
  ASSUME TypeOK, FiniteInv
  PROVE  /\ IsFiniteSet(Included)
         /\ SizeOf \in [Included -> Nat] /\ Bytes \in [SUBSET Included -> Nat]
         /\ Summed(Bytes, SizeOf, Included)
<1>1. IsFiniteSet(Included)
  <2>1. Included \in SUBSET {p \in Path : disk[p] # None}
    BY DEF Included
  <2> QED
    BY <2>1, FS_Subset DEF FiniteInv
<1>2. \A p \in Included : disk[p].size \in Nat
  BY ContentShape DEF TypeOK, Included
<1>3. SizeOf \in [Included -> Nat]
  BY <1>2 DEF SizeOf
<1>4. PICK g \in [SUBSET Included -> Nat] : Summed(g, SizeOf, Included)
  BY <1>1, <1>3, SumsExist
<1> DEFINE Summing(h) == [S \in SUBSET Included |->
                          IF S = {} THEN 0
                          ELSE LET p == CHOOSE p \in S : TRUE IN disk[p].size + h[S \ {p}]]
<1>5. \A S \in SUBSET Included : S # {} => Pick(S) \in Included /\ SizeOf[Pick(S)] = disk[Pick(S)].size
  BY DEF SizeOf, Pick
<1>6. g = Summing(g)
  <2>1. \A S \in SUBSET Included : g[S] = Summing(g)[S]
    BY <1>4, <1>5 DEF Summed, SumEquation, Pick
  <2> QED
    BY <2>1
<1>7. Bytes = Summing(Bytes)
  BY <1>6 DEF Bytes
<1>8. Summed(Bytes, SizeOf, Included)
  <2>1. \A S \in SUBSET Included : Bytes[S] = Summing(Bytes)[S]
    BY <1>7, Zenon
  <2> QED
    BY <1>5, <2>1 DEF Summed, SumEquation, Pick
<1>9. Bytes \in [SUBSET Included -> Nat]
  <2>1. \A S \in SUBSET Included : Bytes[S] \in Nat
    BY <1>1, <1>3, <1>8, SumsAreNat
  <2> HIDE DEF Summing
  <2>2. \A S \in SUBSET Included : Summing(Bytes)[S] \in Nat
    BY <1>7, <2>1
  <2>3. Summing(Bytes) = [S \in SUBSET Included |-> Summing(Bytes)[S]]
    BY DEF Summing
  <2> QED
    BY <1>7, <2>2, <2>3
<1> QED
  BY <1>1, <1>3, <1>8, <1>9

LEMMA BytesSame ==
  ASSUME UNCHANGED <<disk, locked>>
  PROVE  Included' = Included /\ Bytes' = Bytes
<1>1. Included' = Included
  BY DEF Included, Reachable
<1> QED
  BY <1>1 DEF Bytes
----------------------------------------------------------------------------
(***************************************************************************)
(* What fails a scan.                                                      *)
(***************************************************************************)
RootInv ==
  /\ pc = "walk" /\ rootError => unopened = {} /\ listed = {}
  /\ Root \notin touched =>
       /\ pc = "walk" => (rootError <=> Root \in locked /\ Root \notin unopened)
       /\ pc = "inspect" => Root \notin locked
       /\ pc = "idle" => /\ outcome = "walk" => Root \in locked
                         /\ outcome \in {"cap", "ok"} => Root \notin locked

CountInv ==
  /\ IsFiniteSet(Discovered) /\ Cardinality(Discovered) <= MaxFiles
  /\ pc = "idle" /\ outcome = "ok" /\ touched = {} => Included = Discovered

LEMMA RootStep ==
  ASSUME ScanInv, RootInv, [Next]_vars
  PROVE  RootInv'
<1> USE DEF RootInv
<1>t. TypeOK
  BY DEF ScanInv
<1>1. CASE Edit
  <2>1. UNCHANGED <<pc, rootError, unopened, listed, outcome>>
    BY <1>1 DEF Edit, scanVars, walkVars
  <2>2. /\ touched \subseteq touched'
        /\ Root \notin touched' => (Root \in locked' <=> Root \in locked)
    BY <1>1 DEF Edit
  <2> QED
    BY <2>1, <2>2
<1>2. CASE Start
  BY <1>2 DEF Start
<1>3. CASE OpenDir
  <2>1. UNCHANGED <<locked, pc, outcome, touched>> /\ pc = "walk"
    BY <1>3 DEF OpenDir
  <2>2. PICK d \in unopened :
          /\ rootError' = (rootError \/ (d = Root /\ d \in locked))
          /\ listed' = IF d \in locked THEN listed
                       ELSE listed \union {p \in Path : p.dir = d /\ disk[p] # None /\ ~p.ignored}
          /\ unopened' = (unopened \ {d}) \union
                           (IF d = Root /\ d \notin locked THEN (Dir \ {Root}) \ Hidden ELSE {})
    BY <1>3 DEF OpenDir
  <2>3. Root \in unopened => unopened = {Root} /\ listed = {}
    BY <2>1 DEF ScanInv, WalkInv
  <2>4. ~rootError
    BY <2>1, <2>2
  <2>5. Root \notin unopened'
    BY <2>2, <2>3
  <2>6. CASE d = Root
    BY <2>1, <2>2, <2>3, <2>4, <2>5, <2>6
  <2>7. CASE d # Root
    <3>1. Root \notin unopened
      BY <2>2, <2>3, <2>7
    <3>2. ~rootError'
      BY <2>2, <2>4, <2>7
    <3> QED
      BY <2>1, <2>4, <3>1, <3>2
  <2> QED
    BY <2>6, <2>7
<1>4. CASE Stat
  <2>1. /\ UNCHANGED <<locked, rootError, touched>> /\ pc = "walk" /\ listed # {}
        /\ \/ UNCHANGED <<pc, unopened, outcome>>
           \/ pc' = "idle" /\ outcome' = "cap"
    BY <1>4 DEF Stat, RefuseAtCap, End
  <2>2. ~rootError /\ Root \notin unopened
    BY <2>1 DEF ScanInv, WalkInv
  <2> QED
    BY <2>1, <2>2
<1>5. CASE EndWalk
  <2>1. /\ UNCHANGED <<locked, rootError, touched>> /\ pc = "walk" /\ unopened = {}
        /\ IF rootError THEN pc' = "idle" /\ outcome' = "walk" ELSE pc' = "inspect"
    BY <1>5 DEF EndWalk, AfterWalk, End, walkVars
  <2> QED
    BY <2>1
<1>6. CASE Inspect
  BY <1>6 DEF Inspect, walkVars
<1>7. CASE Update
  BY <1>7 DEF Update, End, walkVars
<1>8. CASE UNCHANGED vars
  BY <1>8 DEF vars, scanVars, walkVars
<1> QED
  BY <1>1, <1>2, <1>3, <1>4, <1>5, <1>6, <1>7, <1>8 DEF Next

LEMMA CountStep ==
  ASSUME ScanInv, CountInv, [Next]_vars
  PROVE  CountInv'
<1>t. TypeOK
  BY DEF ScanInv
<1>1. CASE UNCHANGED <<discovered, pc, outcome>>
  <2>1. Discovered' = Discovered
    BY <1>1 DEF Discovered
  <2>2. ASSUME pc' = "idle", outcome' = "ok", touched' = {}
        PROVE  Included' = Included /\ touched = {}
    <3>1. CASE Edit
      BY <3>1, <2>2 DEF Edit
    <3>2. CASE UNCHANGED <<disk, locked, touched>>
      BY <2>2, <3>2 DEF Included, Reachable
    <3>3. CASE Start
      BY <1>1, <2>2, <3>3, NoneShape DEF Start
    <3> QED
      BY <3>1, <3>2, <3>3 DEF Next, OpenDir, Stat, EndWalk, Inspect, Update, vars
  <2> QED
    BY <1>1, <2>1, <2>2 DEF CountInv
<1>2. CASE Start
  <2>1. Discovered' = {} /\ pc' = "walk"
    BY <1>2 DEF Start, Discovered, Nothing
  <2> QED
    BY <2>1, FS_EmptySet, CapShape DEF CountInv
<1>3. CASE Stat
  <2>1. PICK p \in listed :
          IF ~p.regular \/ disk[p] = None
          THEN /\ listed' = listed \ {p}
               /\ UNCHANGED <<pc, unopened, discovered, total, outcome>>
          ELSE /\ total' = total + disk[p].size
               /\ IF Cardinality(Discovered) + 1 > MaxFiles \/ total' > MaxBytes
                  THEN RefuseAtCap
                  ELSE /\ discovered' = [discovered EXCEPT ![p] = disk[p].size]
                       /\ listed' = listed \ {p}
                       /\ UNCHANGED <<pc, unopened, outcome>>
    BY <1>3 DEF Stat
  <2>2. CASE UNCHANGED discovered /\ (UNCHANGED <<pc, outcome>> \/ outcome' = "cap")
    <3>1. Discovered' = Discovered
      BY <2>2 DEF Discovered
    <3> QED
      BY <1>1, <2>2, <3>1 DEF CountInv
  <2>3. CASE /\ discovered' = [discovered EXCEPT ![p] = disk[p].size]
             /\ UNCHANGED <<pc, outcome>>
             /\ ~(Cardinality(Discovered) + 1 > MaxFiles)
    <3>1. Discovered' \subseteq Discovered \union {p}
      BY <2>3, <1>t DEF Discovered, TypeOK
    <3>2. IsFiniteSet(Discovered) /\ Cardinality(Discovered) \in Nat
      BY FS_CardinalityType DEF CountInv
    <3>3. /\ IsFiniteSet(Discovered \union {p})
          /\ Cardinality(Discovered \union {p}) <= Cardinality(Discovered) + 1
      <4>1. /\ IsFiniteSet(Discovered \union {p})
            /\ Cardinality(Discovered \union {p}) =
                 IF p \in Discovered THEN Cardinality(Discovered) ELSE Cardinality(Discovered) + 1
        BY <3>2, FS_AddElement, Zenon
      <4> QED
        BY <3>2, <4>1
    <3>4. /\ IsFiniteSet(Discovered')
          /\ Cardinality(Discovered') <= Cardinality(Discovered \union {p})
      BY <3>1, <3>3, FS_Subset
    <3>5. /\ Cardinality(Discovered') \in Nat /\ Cardinality(Discovered \union {p}) \in Nat
          /\ MaxFiles \in Nat
      BY <3>3, <3>4, FS_CardinalityType, CapShape
    <3>6. Cardinality(Discovered') <= MaxFiles
      BY <2>3, <3>2, <3>3, <3>4, <3>5
    <3>7. pc' # "idle"
      BY <1>3, <2>3 DEF Stat
    <3> QED
      BY <3>4, <3>6, <3>7 DEF CountInv
  <2> QED
    BY <2>1, <2>2, <2>3 DEF RefuseAtCap, End
<1>4. CASE EndWalk \/ Update
  <2>1. Discovered' = Discovered
    BY <1>4 DEF EndWalk, Update, walkVars, Discovered
  <2>2. CASE EndWalk
    BY <2>1, <2>2 DEF EndWalk, AfterWalk, End, CountInv
  <2>3. CASE Update
    <3>1. pc = "inspect" /\ UNCHANGED <<disk, locked, touched>>
      BY <2>3 DEF Update
    <3>2. touched = {} => Included = Discovered
      BY <3>1 DEF ScanInv, InspectInv, Steady, Included, Discovered
    <3>3. Included' = Included
      BY <3>1 DEF Included, Reachable
    <3> QED
      BY <2>1, <3>1, <3>2, <3>3 DEF CountInv
  <2> QED
    BY <1>4, <2>2, <2>3
<1> QED
  BY <1>1, <1>2, <1>3, <1>4 DEF Next, Edit, OpenDir, Inspect, vars, scanVars, walkVars

(* A directory is opened once, and an entry counted once. *)
OnceInv ==
  pc = "walk" =>
    /\ listed \intersect Discovered = {}
    /\ \A p \in listed \union Discovered : p.dir \notin unopened

ByteInv ==
  touched = {} =>
    /\ pc \in {"walk", "inspect"} => total = Bytes[Discovered] /\ total <= MaxBytes
    /\ pc = "idle" /\ outcome = "ok" => Bytes[Included] <= MaxBytes
    /\ pc = "idle" /\ outcome = "cap" =>
         Cardinality(Included) > MaxFiles \/ Bytes[Included] > MaxBytes

LEMMA FiniteStep ==
  ASSUME TypeOK, FiniteInv, [Next]_vars
  PROVE  FiniteInv'
<1> DEFINE Files == {p \in Path : disk[p] # None}
<1>1. CASE UNCHANGED disk
  BY <1>1 DEF FiniteInv
<1>2. ASSUME NEW q \in Path, NEW c, disk' = [disk EXCEPT ![q] = c]
      PROVE  FiniteInv'
  <2>1. Files' \in SUBSET (Files \union {q})
    BY <1>2 DEF TypeOK
  <2>2. IsFiniteSet(Files \union {q})
    BY FS_AddElement DEF FiniteInv
  <2> HIDE DEF Files
  <2>3. IsFiniteSet(Files')
    BY <2>1, <2>2, FS_Subset
  <2> QED
    BY <2>3 DEF FiniteInv, Files
<1> QED
  BY <1>1, <1>2 DEF Next, Edit, Start, OpenDir, Stat, EndWalk, Inspect, Update, vars

LEMMA OnceStep ==
  ASSUME ScanInv, OnceInv, [Next]_vars
  PROVE  OnceInv'
<1>t. TypeOK
  BY DEF ScanInv
<1>1. CASE UNCHANGED <<unopened, listed, discovered>> /\ (pc' = "walk" => pc = "walk")
  BY <1>1 DEF OnceInv, Discovered
<1>2. CASE Start
  BY <1>2 DEF Start, OnceInv, Discovered, Nothing
<1>3. CASE OpenDir
  <2>1. UNCHANGED <<pc, discovered>> /\ pc = "walk"
    BY <1>3 DEF OpenDir
  <2>2. PICK d \in unopened :
          /\ listed' = IF d \in locked THEN listed
                       ELSE listed \union {p \in Path : p.dir = d /\ disk[p] # None /\ ~p.ignored}
          /\ unopened' = (unopened \ {d}) \union
                           (IF d = Root /\ d \notin locked THEN (Dir \ {Root}) \ Hidden ELSE {})
    BY <1>3 DEF OpenDir
  <2>3. Discovered' = Discovered
    BY <2>1 DEF Discovered
  <2>4. \A p \in listed' : p \in listed \/ p.dir = d
    BY <2>2
  <2>5. CASE d = Root
    <3>1. listed = {} /\ Discovered = {}
      BY <2>1, <2>2, <2>5 DEF ScanInv, WalkInv, Discovered, Nothing
    <3>2. Root \notin unopened'
      BY <2>2, <2>5
    <3> QED
      BY <2>3, <2>4, <2>5, <3>1, <3>2 DEF OnceInv
  <2>6. CASE d # Root
    <3>1. unopened' = unopened \ {d}
      BY <2>2, <2>6
    <3>2. \A p \in Discovered : p.dir # d
      BY <2>1, <2>2 DEF OnceInv
    <3> QED
      BY <2>1, <2>3, <2>4, <3>1, <3>2 DEF OnceInv
  <2> QED
    BY <2>5, <2>6
<1>4. CASE Stat
  <2>1. PICK p \in listed :
          \/ listed' = listed \ {p} /\ UNCHANGED <<pc, unopened, discovered>>
          \/ pc' = "idle"
          \/ /\ discovered' = [discovered EXCEPT ![p] = disk[p].size]
             /\ listed' = listed \ {p} /\ UNCHANGED <<pc, unopened>>
    BY <1>4 DEF Stat, RefuseAtCap, End
  <2>2. Discovered' \subseteq Discovered \union {p} \/ pc' = "idle"
    BY <2>1, <1>t DEF Discovered, TypeOK
  <2>3. pc = "walk"
    BY <1>4 DEF Stat
  <2>4. CASE UNCHANGED unopened /\ listed' = listed \ {p}
    BY <2>1, <2>2, <2>3, <2>4 DEF OnceInv
  <2> QED
    BY <2>1, <2>4 DEF OnceInv
<1> QED
  BY <1>1, <1>2, <1>3, <1>4, <1>t
     DEF Next, Edit, EndWalk, AfterWalk, End, Inspect, Update, vars, scanVars, walkVars

LEMMA ByteStep ==
  ASSUME ScanInv, FiniteInv, OnceInv, ByteInv, [Next]_vars
  PROVE  ByteInv'
<1> SUFFICES ASSUME touched' = {}
             PROVE  ByteInv'
  BY DEF ByteInv
<1>t. TypeOK
  BY DEF ScanInv
<1>b. /\ IsFiniteSet(Included)
      /\ SizeOf \in [Included -> Nat] /\ Bytes \in [SUBSET Included -> Nat]
      /\ Summed(Bytes, SizeOf, Included)
  BY <1>t, BytesSum
<1>e. ~Edit
  BY DEF Edit
<1>s. Included' = Included /\ Bytes' = Bytes
  <2>1. UNCHANGED <<disk, locked>>
    BY <1>e DEF Next, Start, OpenDir, Stat, EndWalk, Inspect, Update, vars
  <2> QED
    BY <2>1, BytesSame
<1>1. CASE Start
  <2>1. Discovered' = {} /\ pc' = "walk" /\ total' = 0
    BY <1>1 DEF Start, Discovered, Nothing
  <2>2. Bytes[{}] = 0
    BY <1>b DEF Summed, SumEquation
  <2>3. 0 <= MaxBytes
    BY CapShape
  <2> QED
    BY <1>s, <2>1, <2>2, <2>3 DEF ByteInv
<1>k. ASSUME ~Start
      PROVE  touched = {}
  BY <1>e, <1>k DEF Next, OpenDir, Stat, EndWalk, Inspect, Update, vars
<1>2. CASE ~Start /\ UNCHANGED <<discovered, total>>
              /\ (UNCHANGED <<pc, outcome>> \/ (pc = "walk" /\ pc' = "inspect")
                   \/ (pc' = "idle" /\ outcome' = "walk"))
  <2>1. Discovered' = Discovered
    BY <1>2 DEF Discovered
  <2> QED
    BY <1>2, <1>k, <1>s, <2>1 DEF ByteInv
<1>3. CASE Stat
  <2>0. ~Start /\ pc = "walk"
    BY <1>3 DEF Start, Stat
  <2>1. PICK p \in listed :
          IF ~p.regular \/ disk[p] = None
          THEN UNCHANGED <<pc, discovered, total, outcome>>
          ELSE /\ total' = total + disk[p].size
               /\ IF Cardinality(Discovered) + 1 > MaxFiles \/ total' > MaxBytes
                  THEN RefuseAtCap
                  ELSE /\ discovered' = [discovered EXCEPT ![p] = disk[p].size]
                       /\ UNCHANGED <<pc, outcome>>
    BY <1>3 DEF Stat
  <2>2. p \in Path /\ p \notin Discovered
    BY <1>t, <2>0 DEF TypeOK, OnceInv
  <2>3. Discovered \subseteq Included
    BY <1>k, <2>0 DEF ScanInv, WalkInv, Steady, Included, Reachable, Discovered
  <2>4. ASSUME p.regular, disk[p] # None
        PROVE  /\ p \in Included /\ disk[p].size \in Nat
               /\ Bytes[Discovered \union {p}] = total' /\ total' \in Nat
    <3>1. p \in Included
      BY <1>k, <2>0, <2>2, <2>4 DEF ScanInv, WalkInv, Steady, Included, Reachable
    <3>2. SizeOf[p] = disk[p].size /\ disk[p].size \in Nat
      BY <1>b, <3>1 DEF SizeOf
    <3>3. SumAdds(Bytes, SizeOf, Included)
      BY <1>b, SumOfMore
    <3>4. Bytes[Discovered \union {p}] = Bytes[Discovered] + disk[p].size
      BY <2>2, <2>3, <3>1, <3>2, <3>3 DEF SumAdds
    <3>5. total' = total + disk[p].size /\ total = Bytes[Discovered]
      BY <1>k, <2>0, <2>1, <2>4 DEF ByteInv
    <3> QED
      BY <1>t, <3>1, <3>2, <3>4, <3>5 DEF TypeOK
  <2>5. CASE RefuseAtCap /\ p.regular /\ disk[p] # None
    <3>1. pc' = "idle" /\ outcome' = "cap"
      BY <2>5 DEF RefuseAtCap, End
    <3>2. PICK S \in SUBSET Included : S = Discovered \union {p}
      BY <2>3, <2>4, <2>5
    <3>3. Bytes[S] = total' /\ total' \in Nat
      BY <2>4, <2>5, <3>2
    <3>4. Bytes[S] <= Bytes[Included]
      BY <1>b, SumGrows
    <3>5. Cardinality(S) <= Cardinality(Included) /\ Cardinality(S) = Cardinality(Discovered) + 1
      <4>1. IsFiniteSet(Discovered)
        BY <1>b, <2>3, FS_Subset
      <4>2. Cardinality(S) = Cardinality(Discovered) + 1
        BY <2>2, <3>2, <4>1, FS_AddElement
      <4> QED
        BY <1>b, <4>2, FS_Subset
    <3>6. /\ Cardinality(S) \in Nat /\ Cardinality(Included) \in Nat /\ Bytes[Included] \in Nat
          /\ MaxFiles \in Nat /\ MaxBytes \in Nat
      BY <1>b, FS_CardinalityType, FS_Subset, CapShape
    <3>7. Cardinality(Discovered) + 1 > MaxFiles \/ total' > MaxBytes
      <4>1. ~(UNCHANGED pc)
        BY <2>0, <3>1
      <4> QED
        BY <2>1, <2>5, <4>1
    <3>8. Cardinality(Included) > MaxFiles \/ Bytes[Included] > MaxBytes
      BY <3>3, <3>4, <3>5, <3>6, <3>7
    <3> QED
      BY <1>s, <3>1, <3>8 DEF ByteInv
  <2>6. CASE /\ discovered' = [discovered EXCEPT ![p] = disk[p].size]
             /\ UNCHANGED <<pc, outcome>> /\ p.regular /\ disk[p] # None
             /\ ~(total' > MaxBytes)
    <3>1. Discovered' = Discovered \union {p}
      <4>1. disk[p].size # None
        BY <2>4, <2>6, NoneShape
      <4> QED
        BY <1>t, <2>2, <2>6, <4>1 DEF Discovered, TypeOK
    <3>2. total' <= MaxBytes
      BY <2>4, <2>6, CapShape
    <3> QED
      BY <1>s, <2>0, <2>4, <2>6, <3>1, <3>2 DEF ByteInv
  <2> QED
    BY <1>2, <2>0, <2>1, <2>5, <2>6
<1>4. CASE Update
  <2>1. /\ ~Start /\ pc = "inspect" /\ pc' = "idle" /\ outcome' = "ok"
    BY <1>4 DEF Start, Update, End
  <2>2. Included = Discovered
    BY <1>k, <2>1 DEF ScanInv, InspectInv, Steady, Included, Discovered
  <2> QED
    BY <1>k, <1>s, <2>1, <2>2 DEF ByteInv
<1>5. CASE EndWalk
  BY <1>2, <1>5 DEF Start, EndWalk, AfterWalk, End, walkVars
<1>6. CASE OpenDir \/ Inspect \/ UNCHANGED vars
  <2>1. CASE Start
    BY <1>1, <2>1
  <2>2. UNCHANGED <<discovered, total, pc, outcome>>
    BY <1>6 DEF OpenDir, Inspect, vars, scanVars, walkVars
  <2> QED
    BY <1>2, <2>1, <2>2
<1> QED
  BY <1>1, <1>3, <1>4, <1>5, <1>6, <1>e DEF Next

(* Of a tree that keeps still, a scan is a function: it fails exactly when *)
(* the root cannot be opened or a cap is exceeded, on the files or on the  *)
(* bytes, and lists the whole tree otherwise, in whatever order the walk   *)
(* came by (cs-scanner, scan and discover).                                *)
THEOREM ScanCorrect == Spec => []ScanIsFunction
<1> DEFINE Inv == ScanInv /\ RootInv /\ CountInv /\ FiniteInv /\ OnceInv /\ ByteInv
<1>1. Init => Inv
  <2> SUFFICES ASSUME Init
               PROVE  Inv
    OBVIOUS
  <2>1. RootInv /\ OnceInv /\ ByteInv
    BY NoneShape DEF Init, RootInv, OnceInv, ByteInv
  <2>2. Discovered = {}
    BY DEF Init, Discovered, Nothing
  <2>3. outcome # "ok"
    BY NoneShape DEF Init
  <2>4. CountInv
    BY <2>2, <2>3, FS_EmptySet, CapShape DEF CountInv
  <2>5. FiniteInv
    BY TreeShape DEF Init, FiniteInv
  <2> QED
    BY <2>1, <2>4, <2>5, ScanStart
<1>2. Inv /\ [Next]_vars => Inv'
  <2> SUFFICES ASSUME Inv, [Next]_vars
               PROVE  Inv'
    OBVIOUS
  <2>1. TypeOK
    BY DEF ScanInv
  <2> QED
    BY <2>1, ScanStep, RootStep, CountStep, FiniteStep, OnceStep, ByteStep
<1>3. Inv => ScanIsFunction
  <2> SUFFICES ASSUME Inv, Ended, touched = {}
               PROVE  /\ outcome = (CASE Root \in locked -> "walk"
                                      [] Root \notin locked /\
                                         (\/ Cardinality(Included) > MaxFiles
                                          \/ Bytes[Included] > MaxBytes) -> "cap"
                                      [] OTHER -> "ok")
                      /\ outcome = "ok" => result = Listing
    BY DEF ScanIsFunction
  <2>1. pc = "idle" /\ outcome \in {"ok", "cap", "walk"}
    BY DEF ScanInv, TypeOK, Ended
  <2>2. outcome = "walk" <=> Root \in locked
    BY <2>1 DEF RootInv
  <2>3. outcome = "ok" => Cardinality(Included) <= MaxFiles /\ Bytes[Included] <= MaxBytes
    BY <2>1 DEF CountInv, ByteInv
  <2>4. outcome = "cap" => Cardinality(Included) > MaxFiles \/ Bytes[Included] > MaxBytes
    BY <2>1 DEF ByteInv
  <2>5. /\ Cardinality(Included) \in Nat /\ Bytes[Included] \in Nat
        /\ MaxFiles \in Nat /\ MaxBytes \in Nat
    <3>1. TypeOK
      BY DEF ScanInv
    <3>2. IsFiniteSet(Included) /\ Bytes \in [SUBSET Included -> Nat]
      BY <3>1, BytesSum
    <3> QED
      BY <3>2, FS_CardinalityType, CapShape
  <2>6. ASSUME outcome = "ok"
        PROVE  result = Listing
    <3>1. \A p \in Path : result[p] = Listing[p]
      BY <2>1, <2>6 DEF ScanInv, EndInv, Steady
    <3>2. result \in [Path -> ScannedFile \union {None}]
      BY DEF ScanInv, TypeOK
    <3>3. Listing = [p \in Path |-> Listing[p]]
      BY DEF Listing
    <3>4. result = [p \in Path |-> result[p]]
      BY <3>2
    <3> QED
      BY <3>1, <3>3, <3>4
  <2>7. CASE outcome = "walk"
    BY <2>2, <2>7
  <2>8. CASE outcome = "cap"
    BY <2>2, <2>4, <2>8
  <2>9. CASE outcome = "ok"
    <3>1. ~(Cardinality(Included) > MaxFiles \/ Bytes[Included] > MaxBytes)
      BY <2>3, <2>5, <2>9
    <3> QED
      BY <2>2, <2>6, <2>9, <3>1
  <2> QED
    BY <2>1, <2>7, <2>8, <2>9
<1> QED
  BY <1>1, <1>2, <1>3, PTL DEF Spec
=============================================================================
