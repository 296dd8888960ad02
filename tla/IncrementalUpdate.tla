-------------------------- MODULE IncrementalUpdate --------------------------
(***************************************************************************)
(* `contextslice index` on a ready index (cs-index/incremental.rs): scan   *)
(* the tree, classify it against the files table, apply the fact changes   *)
(* in one transaction that also plants the torn-update marker, re-resolve  *)
(* the affected packages one transaction each, and finalize.               *)
(*                                                                         *)
(* The tree may change between any two steps of a run and a run may die    *)
(* between any two of its transactions, losing `run` and nothing else.     *)
(***************************************************************************)
EXTENDS IndexStore, FiniteSets

CONSTANTS
  Starts,       \* what the first run may find: a tree, and what a build left
  Versions,     \* [Path -> what the path may hold]
  MaxEdits,     \* bound on the edits of a behaviour
  MaxPending,   \* bound on the paths a scan can find changed
  MaxCrashes    \* bound on the runs that die

ASSUME BoundsShape == {MaxEdits, MaxPending, MaxCrashes} \subseteq Nat
ASSUME StartsShape ==
  Starts \subseteq [tree : [Path -> Text \union {Unreadable, None}], build : BuildFacts]
ASSUME VersionsShape == Versions \in [Path -> SUBSET (Text \union {Unreadable, None})]

VARIABLES
  run,          \* the in-memory state of the indexing process
  edits,        \* edits made so far
  crashes       \* runs that died so far

vars == <<disk, files, packages, manifest, derived, edges, indexState, snapshot,
          marker, run, edits, crashes>>

Idle ==
  [pc |-> "idle", scan |-> None, torn |-> FALSE, added |-> {}, modified |-> {},
   deleted |-> {}, manifestChanged |-> FALSE, preKeys |-> {}, todo |-> {},
   packageSetChanged |-> FALSE]

----------------------------------------------------------------------------
(***************************************************************************)
(* The initial states: an index some cold build has finished, and a tree   *)
(* that need not be the one it was built from.                             *)
(***************************************************************************)
Init ==
  /\ \E start \in Starts :
       /\ disk = start.tree
       /\ files = start.build.files
       /\ packages = start.build.packages
       /\ manifest = start.build.manifest
  /\ Finished
  /\ run = Idle
  /\ edits = 0
  /\ crashes = 0
----------------------------------------------------------------------------
(***************************************************************************)
(* The working tree.                                                       *)
(***************************************************************************)
(* What a scan of the tree would find changed. *)
Differs(entry, row) ==
  \/ (entry = None) # (row = None)
  \/ entry # None /\ row # None /\ entry.hash # row.hash

Pending(tree) == {p \in Path : Differs(Inspect(tree[p]), files[p])}

Edit(p) ==
  /\ edits < MaxEdits
  /\ \E content \in Versions[p] \ {disk[p]} : disk' = [disk EXCEPT ![p] = content]
  /\ Cardinality(Pending(disk')) <= MaxPending
  /\ edits' = edits + 1
  /\ UNCHANGED <<storeVars, run, crashes>>
----------------------------------------------------------------------------
(***************************************************************************)
(* Planning: read-only.                                                    *)
(***************************************************************************)
Scan ==
  /\ run.pc = "idle"
  /\ run' = [run EXCEPT !.pc = "scanned", !.scan = ScanOf(disk)]
  /\ UNCHANGED <<disk, storeVars, edits, crashes>>

(* Packages of files whose imports resolved into a directory. *)
ImporterPackages(dirs) ==
  {KeyOf(DB, q) : q \in {f \in Path :
     /\ HasPackage(DB, f) /\ derived[f] # None
     /\ \E i \in DOMAIN derived[f].resolved : derived[f].resolved[i].dir \in dirs}}

(* Packages of files holding a binding into some file of one of the keys.  *)
BinderPackages(keys) ==
  {KeyOf(DB, q) : q \in {f \in Path :
     /\ HasPackage(DB, f) /\ derived[f] # None
     /\ \E t \in derived[f].targets : HasPackage(DB, t.file) /\ KeyOf(DB, t.file) \in keys}}

(* Mutant: a missing hash on either side counts as a match. *)
ModifiedHashed == {p \in Path : /\ run.scan[p] # None /\ files[p] # None
                                /\ None \notin {run.scan[p].hash, files[p].hash}
                                /\ run.scan[p].hash # files[p].hash}

Added    == {p \in Path : run.scan[p] # None /\ files[p] = None}
Deleted  == {p \in Path : run.scan[p] = None /\ files[p] # None}
Modified == {p \in Path : /\ run.scan[p] # None /\ files[p] # None
                          /\ run.scan[p].hash # files[p].hash}

(* Mutant: importers that bind nothing are forgotten. *)
InvalidatedBinders ==
  LET affected == {KeyOf(DB, p) : p \in {q \in Modified \union Deleted : HasPackage(DB, q)}}
  IN  affected \union BinderPackages(affected)

(* Package-scoped invalidation: the packages of the modified and deleted   *)
(* files, the packages binding into them and the importers of their dirs.  *)
Invalidated ==
  LET affected == {KeyOf(DB, p) : p \in {q \in Modified \union Deleted : HasPackage(DB, q)}}
  IN  affected \union BinderPackages(affected)
               \union ImporterPackages({k.dir : k \in affected})

(* Mutant: the fast path does not look at the marker. *)
NothingChanged == Added \union Modified \union Deleted = {}

(* The fast path: nothing changed and no torn run awaits repair. *)
NothingToDo == Added \union Modified \union Deleted = {} /\ ~marker

PlanNoop ==
  /\ run.pc = "scanned"
  /\ NothingToDo
  /\ run' = Idle
  /\ UNCHANGED <<disk, storeVars, edits, crashes>>

Plan ==
  /\ run.pc = "scanned"
  /\ indexState = "ready"
  /\ ~NothingToDo
  /\ run' = [run EXCEPT
       !.pc = "planned", !.torn = marker,
       !.added = Added, !.modified = Modified, !.deleted = Deleted,
       !.manifestChanged = (Modified \union Deleted) \intersect Manifests # {},
       !.preKeys = Invalidated, !.todo = Invalidated]
  /\ UNCHANGED <<disk, storeVars, edits, crashes>>
----------------------------------------------------------------------------
(***************************************************************************)
(* The fact transaction.                                                   *)
(***************************************************************************)
(* A manifest is stored AND handed to the Go extractor, which finds no     *)
(* package clause in it.                                                   *)
IncrementalRow(p, late) ==
  LET entry == run.scan[p]
  IN  IF entry.skip # None THEN SkipRow(entry)
      ELSE IF ~IsReadable(disk[p]) THEN UnreadableRow
      ELSE IF p.kind = "manifest" THEN Row(entry.hash, None, "partial", None, None)
      ELSE ParsedRow(p, entry, disk[p], p \in late)

FilesAfter(late) ==
  [p \in Path |-> IF p \in run.deleted THEN None
                  ELSE IF p \in run.added \union run.modified THEN IncrementalRow(p, late)
                  ELSE files[p]]

(* The manifest row: dropped with its file or with a skip label, rewritten *)
(* when the file was read, kept when the read failed.                      *)
ManifestAfter ==
  IF \E p \in Manifests : p \in run.deleted \/ (p \in run.modified /\ run.scan[p].skip # None)
  THEN None
  ELSE IF \E p \in Manifests : /\ p \in run.added \union run.modified
                               /\ run.scan[p].skip = None /\ IsReadable(disk[p])
       THEN disk[CHOOSE p \in Manifests : TRUE]
       ELSE manifest

(* A manifest that is added and read moves the module configuration too.   *)
ManifestAdded ==
  \E p \in Manifests : p \in run.added /\ run.scan[p].skip = None /\ IsReadable(disk[p])

(* The packages of the rows this transaction wrote. *)
DiscoveredKeys(rows) ==
  {[dir |-> p.dir, name |-> rows[p].pkg] :
     p \in {q \in run.added \union run.modified : rows[q].pkg # None}}

(* Mutant: empty packages are kept. *)
PackagesKept(rows) == packages \union DiscoveredKeys(rows)

(* Packages are created for the rows written and collected with their last *)
(* file.                                                                   *)
PackagesAfter(rows) == (packages \union DiscoveredKeys(rows)) \intersect KeysInUse(rows)

(* Mutant: bindings into a deleted file stay. *)
DerivedCascaded ==
  [p \in Path |-> IF p \in run.modified \union run.deleted THEN None ELSE derived[p]]

(* Derived rows cascade with the refs and imports they hang from, edges go *)
(* with either end, and bindings into a deleted file go with it.           *)
DerivedAfter ==
  [p \in Path |->
     IF p \in run.modified \union run.deleted \/ derived[p] = None THEN None
     ELSE [derived[p] EXCEPT !.targets = {t \in @ : t.file \notin run.deleted}]]

(* Mutant: edges into a rewritten file stay. *)
EdgesOutCleared == {e \in edges : e.src \notin run.modified \union run.deleted}

EdgesAfter ==
  {e \in edges : {e.src, e.dst} \intersect (run.modified \union run.deleted) = {}}

(* Mutant: the marker is left for later. *)
PlantNothing == marker' = marker

PlantMarker == marker' = TRUE

ApplyFacts ==
  /\ run.pc = "planned"
  /\ \E late \in SUBSET (MayBeLate \intersect (run.added \union run.modified)) :
       LET rows == FilesAfter(late)
       IN  /\ files' = rows
           /\ packages' = PackagesAfter(rows)
           /\ run' = [run EXCEPT
                !.pc = "applied", !.scan = None,
                !.added = {}, !.modified = {}, !.deleted = {},
                !.manifestChanged = @ \/ ManifestAdded,
                !.todo = @ \union DiscoveredKeys(rows),
                !.packageSetChanged = packages' # packages]
  /\ manifest' = ManifestAfter
  /\ derived' = DerivedAfter
  /\ edges' = EdgesAfter
  /\ PlantMarker
  /\ UNCHANGED <<disk, indexState, snapshot, edits, crashes>>
----------------------------------------------------------------------------
(***************************************************************************)
(* The derived phase and the finalize transaction.                         *)
(***************************************************************************)
RebuildAll == run.torn \/ run.packageSetChanged

(* Packages discovered during extraction invalidate their importers. *)
WithFanOut ==
  run.todo \union ImporterPackages({k.dir : k \in run.todo \ run.preKeys})

(* Mutant: a rebuild is scoped like any update. *)
KeysScoped == IF run.manifestChanged THEN packages ELSE WithFanOut

(* A rebuild or a moved module configuration takes every package. *)
KeysToResolve == IF RebuildAll \/ run.manifestChanged THEN packages ELSE WithFanOut

SelectPackages ==
  /\ run.pc = "applied"
  /\ run' = [run EXCEPT !.pc = "deriving", !.preKeys = {},
                        !.todo = KeysToResolve \intersect packages]
  /\ UNCHANGED <<disk, storeVars, edits, crashes>>

ResolveNext ==
  /\ run.pc = "deriving"
  /\ \E k \in run.todo :
       /\ IsFirst(k, run.todo)
       /\ ResolvePackage(k)
       /\ run' = [run EXCEPT !.todo = @ \ {k}]
  /\ UNCHANGED <<disk, files, packages, manifest, indexState, snapshot, marker,
                 edits, crashes>>

(* Mutant: the old snapshot id stays. *)
PublishNothing == snapshot' = snapshot

PublishSnapshot == snapshot' = SnapshotOf(files)

Finalize ==
  /\ run.pc = "deriving"
  /\ run.todo = {}
  /\ PublishSnapshot
  /\ marker' = FALSE
  /\ run' = Idle
  /\ UNCHANGED <<disk, files, packages, manifest, derived, edges, indexState, edits,
                 crashes>>

(* The process dies between two transactions. *)
Crash ==
  /\ run.pc # "idle"
  /\ crashes < MaxCrashes
  /\ run' = Idle
  /\ crashes' = crashes + 1
  /\ UNCHANGED <<disk, storeVars, edits>>
----------------------------------------------------------------------------
RunStep == PlanNoop \/ Plan \/ ApplyFacts \/ SelectPackages \/ ResolveNext \/ Finalize

Next ==
  \/ \E p \in Path : Edit(p)
  \/ Scan
  \/ PlanNoop \/ Plan
  \/ ApplyFacts
  \/ SelectPackages \/ ResolveNext \/ Finalize
  \/ Crash

Spec == Init /\ [][Next]_vars

(***************************************************************************)
(* A started run goes on (the code never blocks: busy_timeout is 0), and   *)
(* `contextslice index` is run again and again.                            *)
(***************************************************************************)
FairSpec == Spec /\ WF_vars(RunStep) /\ WF_vars(Scan)
----------------------------------------------------------------------------
RunState ==
  [pc : {"idle", "scanned", "planned", "applied", "deriving"},
   scan : [Path -> ScanEntry \union {None}] \union {None},
   torn : BOOLEAN, manifestChanged : BOOLEAN, packageSetChanged : BOOLEAN,
   added : SUBSET Path, modified : SUBSET Path, deleted : SUBSET Path,
   preKeys : SUBSET Key, todo : SUBSET Key]

(* The tables hold what the schema admits, its CHECK on files included,    *)
(* and a run what the code lets it hold.                                   *)
TypeOK ==
  /\ StoreTypeOK
  /\ run \in RunState
  /\ edits \in 0..MaxEdits
  /\ crashes \in 0..MaxCrashes
(***************************************************************************)
(* Safety.                                                                 *)
(***************************************************************************)
(* An unmarked index carries the snapshot id of its own facts, whatever    *)
(* runs died on the way: cs-select trusts the id once the marker is gone.  *)
SnapshotNamesFacts == ~marker => snapshot = SnapshotOf(files)

(* The `Ready` promise of ADR-022: an unmarked index carries exactly the   *)
(* imports, bindings, import_out and ref_def rows of a cold build over the *)
(* same facts, although only the invalidated packages were re-resolved.    *)
Coherent == ~marker => ProjectionCurrent

(* A run that takes every package (a torn run before it, a package born or *)
(* collected, a moved module configuration) leaves every derived table as  *)
(* a cold build over the same facts would, test_affinity included, however *)
(* much changed at once and however far the dead run had come.             *)
RebuildIsFresh ==
  [][marker /\ ~marker' /\ (RebuildAll \/ run.manifestChanged)
       => (ProjectionCurrent /\ AffinityCurrent)']_vars

(* Whenever rows or packages move, no package is left without a file: an   *)
(* empty one would win the directory in every import resolution.  One that *)
(* a resumed build has left is collected by the first update.              *)
NoGhostPackages == [][packages' = KeysInUse(files')]_<<files, packages>>

----------------------------------------------------------------------------
(***************************************************************************)
(* Liveness, once edits and crashes have stopped (both are bounded).       *)
(***************************************************************************)
(* A torn index is repaired by a later run. *)
TornIsRepaired == marker ~> ~marker

(* Repeated runs bring the index to the hashes of the tree. *)
IndexConverges == <>[](Pending(disk) = {} /\ ~marker)
----------------------------------------------------------------------------
(***************************************************************************)
(* The lifecycle it implements: a marked ready index is torn.              *)
(***************************************************************************)
Lifecycle == INSTANCE IndexLifecycle WITH
  phase      <- IF indexState = "ready" /\ marker THEN "torn" ELSE indexState,
  rows       <- <<files, packages, manifest, derived, edges>>,
  identity   <- SnapshotOf(files),
  published  <- snapshot,
  NoIdentity <- None

(* Readers see the rows of a published snapshot or a marked index: no row  *)
(* moves in an unmarked ready index, in any step of any run, live or dead, *)
(* and the marker goes only together with the id of the rows then there.   *)
ImplementsLifecycle == Lifecycle!Spec
=============================================================================
