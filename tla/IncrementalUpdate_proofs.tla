----------------------- MODULE IncrementalUpdate_proofs -----------------------
(***************************************************************************)
(* Theorems about IncrementalUpdate, for every tree, every edit history    *)
(* and every crash.                                                        *)
(***************************************************************************)
EXTENDS IncrementalUpdate, IndexStore_proofs

(* A run that has scanned holds the scan until its facts are written, and  *)
(* the files it takes for added or modified are in it, the deleted not.    *)
ScanHeld ==
  run.pc \in {"scanned", "planned"} =>
    /\ run.scan \in [Path -> ScanEntry \union {None}]
    /\ run.pc = "planned" =>
         /\ \A p \in run.added \union run.modified : run.scan[p] # None
         /\ \A p \in run.deleted : run.scan[p] = None

TypeInv == TypeOK /\ ScanHeld

----------------------------------------------------------------------------
(***************************************************************************)
(* Types.                                                                  *)
(***************************************************************************)
LEMMA InitBuilt == Init => disk \in [Path -> Content] /\ DB \in BuildFacts
<1> SUFFICES ASSUME Init PROVE disk \in [Path -> Content] /\ DB \in BuildFacts
  OBVIOUS
<1>1. PICK start \in Starts : /\ disk = start.tree
                             /\ files = start.build.files
                             /\ packages = start.build.packages
                             /\ manifest = start.build.manifest
  BY DEF Init
<1>2. start.tree \in [Path -> Content] /\ start.build \in BuildFacts
  BY StartsShape DEF Content
<1>3. DB = start.build
  BY <1>1, <1>2 DEF BuildFacts, DB
<1> QED
  BY <1>1, <1>2, <1>3

LEMMA InitType == Init => TypeInv
<1> SUFFICES ASSUME Init PROVE TypeInv
  OBVIOUS
<1>1. /\ disk \in [Path -> Content] /\ files \in [Path -> FileRow \union {None}]
      /\ packages \in SUBSET Key /\ manifest \in Text \union {None}
  BY InitBuilt DEF BuildFacts, DB
<1>2. edges \in SUBSET [src : Path, dst : Path, kind : EdgeKind]
  BY FreshEdgesType DEF Init, Finished, EdgeRow
<1>3. run \in RunState /\ run.pc = "idle"
  BY DEF Init, Idle, RunState
<1>4. edits \in 0..MaxEdits /\ crashes \in 0..MaxCrashes
  BY BoundsShape DEF Init
<1> QED
  BY <1>1, <1>2, <1>3, <1>4 DEF Init, Finished, TypeInv, TypeOK, StoreTypeOK, ScanHeld, Content

(* The key of a packaged row is a possible key. *)
LEMMA KeyOfType ==
  ASSUME TypeOK, NEW p \in Path, HasPackage(DB, p)
  PROVE  KeyOf(DB, p) \in Key
  BY DEF TypeOK, StoreTypeOK, HasPackage, KeyOf, DB, FileRow, Key

LEMMA ImportersType ==
  ASSUME TypeOK, NEW dirs
  PROVE  ImporterPackages(dirs) \in SUBSET Key
  BY KeyOfType DEF ImporterPackages

LEMMA InvalidatedType ==
  ASSUME TypeOK
  PROVE  Invalidated \in SUBSET Key
<1> DEFINE affected == {KeyOf(DB, p) : p \in {q \in Modified \union Deleted : HasPackage(DB, q)}}
<1>1. affected \in SUBSET Key
  BY KeyOfType DEF Modified, Deleted
<1>2. BinderPackages(affected) \in SUBSET Key
  BY KeyOfType DEF BinderPackages
<1>3. Invalidated = affected \union BinderPackages(affected)
                      \union ImporterPackages({k.dir : k \in affected})
  BY DEF Invalidated
<1> HIDE DEF affected
<1> QED
  BY <1>1, <1>2, <1>3, ImportersType

(* What the fact transaction writes. *)
LEMMA WrittenRowType ==
  ASSUME TypeInv, run.pc = "planned", NEW late \in SUBSET Path,
         NEW p \in run.added \union run.modified
  PROVE  /\ p \in Path
         /\ FilesAfter(late)[p] = IncrementalRow(p, late)
         /\ IncrementalRow(p, late) \in FileRow
<1>1. p \in Path /\ p \notin run.deleted /\ run.scan[p] \in ScanEntry
  BY DEF TypeInv, TypeOK, ScanHeld, RunState
<1>2. disk[p] \in Content
  BY <1>1 DEF TypeInv, TypeOK, StoreTypeOK, Content
<1>3. FilesAfter(late)[p] = IncrementalRow(p, late)
  BY <1>1 DEF FilesAfter
<1>4. CASE run.scan[p].skip # None
  BY <1>1, <1>3, <1>4, SkipRowType DEF IncrementalRow
<1>5. CASE run.scan[p].skip = None /\ ~IsReadable(disk[p])
  BY <1>1, <1>3, <1>5, UnreadableRowType DEF IncrementalRow
<1>6. CASE run.scan[p].skip = None /\ IsReadable(disk[p]) /\ p.kind = "manifest"
  <2>1. IncrementalRow(p, late) = Row(run.scan[p].hash, None, "partial", None, None)
    BY <1>6 DEF IncrementalRow
  <2>2. "partial" \in ParseStatus
    BY DEF ParseStatus
  <2> QED
    BY <1>1, <1>3, <1>6, <2>1, <2>2, HashedRowType
<1>7. CASE run.scan[p].skip = None /\ IsReadable(disk[p]) /\ p.kind # "manifest"
  <2>1. IncrementalRow(p, late) = ParsedRow(p, run.scan[p], disk[p], p \in late)
    BY <1>7 DEF IncrementalRow
  <2> QED
    BY <1>1, <1>2, <1>3, <1>7, <2>1, ParsedRowType
<1> QED
  BY <1>1, <1>3, <1>4, <1>5, <1>6, <1>7

LEMMA FilesAfterType ==
  ASSUME TypeInv, run.pc = "planned", NEW late \in SUBSET Path
  PROVE  FilesAfter(late) \in [Path -> FileRow \union {None}]
  BY WrittenRowType DEF FilesAfter, TypeInv, TypeOK, StoreTypeOK

LEMMA PackagesAfterType ==
  ASSUME TypeInv, run.pc = "planned", NEW late \in SUBSET Path
  PROVE  /\ DiscoveredKeys(FilesAfter(late)) \in SUBSET Key
         /\ PackagesAfter(FilesAfter(late)) \in SUBSET Key
<1>1. DiscoveredKeys(FilesAfter(late)) \in SUBSET Key
  BY WrittenRowType DEF DiscoveredKeys, FileRow, Key
<1> QED
  BY <1>1, FilesAfterType, KeysInUseType DEF PackagesAfter

LEMMA ManifestAfterType ==
  ASSUME TypeInv
  PROVE  ManifestAfter \in Text \union {None}
<1>1. ASSUME NEW p \in Manifests, IsReadable(disk[p])
      PROVE  disk[CHOOSE q \in Manifests : TRUE] \in Text
  BY <1>1, OneRootManifest DEF TypeInv, TypeOK, StoreTypeOK, IsReadable, Manifests
<1> QED
  BY <1>1 DEF ManifestAfter, TypeInv, TypeOK, StoreTypeOK

(* Every action keeps the types: one case per action. *)
LEMMA StepType == TypeInv /\ [Next]_vars => TypeInv'
<1> SUFFICES ASSUME TypeInv, [Next]_vars PROVE TypeInv'
  OBVIOUS
<1>a. TypeOK /\ ScanHeld
  BY DEF TypeInv
<1>1. ASSUME NEW p \in Path, Edit(p) PROVE TypeInv'
  <2>1. disk' \in [Path -> Text \union {Unreadable, None}]
    BY <1>1, <1>a, VersionsShape DEF Edit, TypeOK, StoreTypeOK
  <2>2. edits' \in 0..MaxEdits
    BY <1>1, <1>a, BoundsShape DEF Edit, TypeOK
  <2> QED
    BY <1>1, <1>a, <2>1, <2>2 DEF Edit, storeVars, TypeInv, TypeOK, StoreTypeOK, ScanHeld
<1>2. CASE Scan
  <2>1. ScanOf(disk) \in [Path -> ScanEntry \union {None}]
    BY <1>a, ScanOfType DEF TypeOK, StoreTypeOK, Content
  <2>2. run' \in RunState /\ run'.pc = "scanned" /\ run'.scan = ScanOf(disk)
    BY <1>2, <1>a, <2>1 DEF Scan, TypeOK, RunState
  <2> QED
    BY <1>2, <1>a, <2>1, <2>2 DEF Scan, storeVars, TypeInv, TypeOK, StoreTypeOK, ScanHeld
<1>3. CASE PlanNoop
  BY <1>3, <1>a DEF PlanNoop, storeVars, Idle, RunState, TypeInv, TypeOK, StoreTypeOK, ScanHeld
<1>4. CASE Plan
  <2>1. /\ {Added, Modified, Deleted} \subseteq SUBSET Path
        /\ \A p \in Added \union Modified : run.scan[p] # None
        /\ \A p \in Deleted : run.scan[p] = None
    BY DEF Added, Modified, Deleted
  <2>2. run' \in RunState
    BY <1>4, <1>a, <2>1, InvalidatedType DEF Plan, TypeOK, StoreTypeOK, RunState
  <2>3. /\ run'.pc = "planned" /\ run'.scan = run.scan
        /\ run'.added = Added /\ run'.modified = Modified /\ run'.deleted = Deleted
    BY <1>4, <1>a DEF Plan, TypeOK, RunState
  <2> QED
    BY <1>4, <1>a, <2>1, <2>2, <2>3 DEF Plan, storeVars, TypeInv, TypeOK, StoreTypeOK, ScanHeld
<1>5. CASE ApplyFacts
  <2>1. PICK late \in SUBSET (MayBeLate \intersect (run.added \union run.modified)) :
          /\ files' = FilesAfter(late)
          /\ packages' = PackagesAfter(FilesAfter(late))
          /\ run' = [run EXCEPT
                !.pc = "applied", !.scan = None,
                !.added = {}, !.modified = {}, !.deleted = {},
                !.manifestChanged = @ \/ ManifestAdded,
                !.todo = @ \union DiscoveredKeys(FilesAfter(late)),
                !.packageSetChanged = packages' # packages]
    BY <1>5 DEF ApplyFacts
  <2>2. late \in SUBSET Path /\ run.pc = "planned"
    BY <1>5 DEF ApplyFacts, MayBeLate
  <2>3. files' \in [Path -> FileRow \union {None}] /\ packages' \in SUBSET Key
    BY <2>1, <2>2, FilesAfterType, PackagesAfterType
  <2>4. run' \in RunState /\ run'.pc = "applied"
    BY <2>1, <2>2, <1>a, PackagesAfterType DEF TypeOK, RunState
  <2>5. manifest' \in Text \union {None}
    BY <1>5, ManifestAfterType DEF ApplyFacts
  <2>6. edges' \in SUBSET [src : Path, dst : Path, kind : EdgeKind]
    BY <1>5, <1>a DEF ApplyFacts, EdgesAfter, TypeOK, StoreTypeOK
  <2> QED
    BY <1>5, <1>a, <2>3, <2>4, <2>5, <2>6
       DEF ApplyFacts, PlantMarker, TypeInv, TypeOK, StoreTypeOK, ScanHeld
<1>6. CASE SelectPackages
  <2>1. KeysToResolve \intersect packages \in SUBSET Key
    BY <1>a DEF TypeOK, StoreTypeOK
  <2>2. run' \in RunState /\ run'.pc = "deriving"
    BY <1>6, <1>a, <2>1 DEF SelectPackages, TypeOK, RunState
  <2> QED
    BY <1>6, <1>a, <2>2 DEF SelectPackages, storeVars, TypeInv, TypeOK, StoreTypeOK, ScanHeld
<1>7. CASE ResolveNext
  <2>1. PICK k \in run.todo : ResolvePackage(k) /\ run' = [run EXCEPT !.todo = @ \ {k}]
    BY <1>7 DEF ResolveNext
  <2>2. edges' \in SUBSET [src : Path, dst : Path, kind : EdgeKind]
    BY <2>1, <1>a, ResolvePackageType DEF TypeOK, StoreTypeOK, EdgeRow
  <2>3. run' \in RunState /\ run'.pc = "deriving"
    BY <1>7, <1>a, <2>1 DEF ResolveNext, TypeOK, RunState
  <2> QED
    BY <1>7, <1>a, <2>2, <2>3 DEF ResolveNext, TypeInv, TypeOK, StoreTypeOK, ScanHeld
<1>8. CASE Finalize
  BY <1>8, <1>a DEF Finalize, Idle, RunState, TypeInv, TypeOK, StoreTypeOK, ScanHeld
<1>9. CASE Crash
  <2>1. run' \in RunState /\ run'.pc = "idle"
    BY <1>9 DEF Crash, Idle, RunState
  <2>2. crashes' \in 0..MaxCrashes
    BY <1>9, <1>a, BoundsShape DEF Crash, TypeOK
  <2> QED
    BY <1>9, <1>a, <2>1, <2>2 DEF Crash, storeVars, TypeInv, TypeOK, StoreTypeOK, ScanHeld
<1>10. CASE UNCHANGED vars
  BY <1>10, <1>a DEF vars, TypeInv, TypeOK, StoreTypeOK, ScanHeld
<1> QED
  BY <1>1, <1>2, <1>3, <1>4, <1>5, <1>6, <1>7, <1>8, <1>9, <1>10 DEF Next

(* The tables hold only what the schema admits, its CHECK on files         *)
(* included, and a run only what the code lets it hold.                    *)
THEOREM TypeCorrect == Spec => []TypeOK
<1>1. TypeInv => TypeOK
  BY DEF TypeInv
<1> QED
  BY InitType, StepType, <1>1, PTL DEF Spec

----------------------------------------------------------------------------
(***************************************************************************)
(* The marker and the snapshot id.                                         *)
(***************************************************************************)
(* The marker covers the run from its first write to its last: no process  *)
(* stands between the fact transaction and the finalize transaction over   *)
(* an unmarked index.                                                      *)
MarkedWhileWriting == run.pc \in {"applied", "deriving"} => marker

StaysReady == indexState = "ready"

LifecycleInv ==
  /\ TypeInv
  /\ StaysReady
  /\ MarkedWhileWriting
  /\ SnapshotNamesFacts

LEMMA InitLifecycle == Init => LifecycleInv
  BY InitType DEF Init, Finished, LifecycleInv, StaysReady, MarkedWhileWriting, SnapshotNamesFacts, Idle

(* Every action keeps the invariant: only ApplyFacts writes facts, and it  *)
(* plants the marker; only Finalize takes it away, with the new id.        *)
LEMMA StepLifecycle == LifecycleInv /\ [Next]_vars => LifecycleInv'
<1> SUFFICES ASSUME LifecycleInv, [Next]_vars PROVE LifecycleInv'
  OBVIOUS
<1>a. run \in RunState
  BY DEF LifecycleInv, TypeInv, TypeOK
<1>b. TypeInv'
  BY StepType DEF LifecycleInv
<1> USE DEF StaysReady, MarkedWhileWriting, SnapshotNamesFacts, SnapshotOf
<1>c. SUFFICES (StaysReady /\ MarkedWhileWriting /\ SnapshotNamesFacts)'
  BY <1>b DEF LifecycleInv
<1> USE DEF LifecycleInv
<1>1. ASSUME NEW p \in Path, Edit(p)
      PROVE  (StaysReady /\ MarkedWhileWriting /\ SnapshotNamesFacts)'
  BY <1>1 DEF Edit, storeVars
<1>2. CASE Scan
  BY <1>2, <1>a DEF Scan, storeVars, RunState
<1>3. CASE PlanNoop
  BY <1>3 DEF PlanNoop, storeVars, Idle
<1>4. CASE Plan
  BY <1>4, <1>a DEF Plan, storeVars, RunState
<1>5. CASE ApplyFacts
  BY <1>5 DEF ApplyFacts, PlantMarker
<1>6. CASE SelectPackages
  BY <1>6 DEF SelectPackages, storeVars
<1>7. CASE ResolveNext
  BY <1>7, <1>a DEF ResolveNext
<1>8. CASE Finalize
  BY <1>8 DEF Finalize, PublishSnapshot, Idle
<1>9. CASE Crash
  BY <1>9 DEF Crash, storeVars, Idle
<1>10. CASE UNCHANGED vars
  BY <1>10 DEF vars
<1> QED
  BY <1>1, <1>2, <1>3, <1>4, <1>5, <1>6, <1>7, <1>8, <1>9, <1>10 DEF Next

(* An unmarked index carries the snapshot id of its own facts, whatever    *)
(* runs died on the way (incremental.rs, finalize_incremental).            *)
THEOREM SnapshotCorrect == Spec => []SnapshotNamesFacts
<1>1. LifecycleInv => SnapshotNamesFacts
  BY DEF LifecycleInv
<1> QED
  BY InitLifecycle, StepLifecycle, <1>1, PTL DEF Spec
----------------------------------------------------------------------------
(***************************************************************************)
(* Refinement of the lifecycle.                                            *)
(***************************************************************************)
LEMMA InitRefines == Init => Lifecycle!Init
  BY DEF Init, Finished, Lifecycle!Init

(* The fact transaction tears the index or goes on in a torn one, the      *)
(* derive transactions go on in a torn one, finalize publishes, and        *)
(* everything else leaves the abstract state alone.                        *)
LEMMA StepRefines ==
  LifecycleInv /\ LifecycleInv' /\ [Next]_vars => [Lifecycle!Next]_(Lifecycle!lifecycle)
<1> SUFFICES ASSUME LifecycleInv, LifecycleInv', [Next]_vars
             PROVE  [Lifecycle!Next]_(Lifecycle!lifecycle)
  OBVIOUS
<1>a. indexState = "ready" /\ marker \in BOOLEAN
  BY DEF LifecycleInv, StaysReady, TypeInv, TypeOK, StoreTypeOK
<1> USE DEF Lifecycle!lifecycle
<1>1. ASSUME UNCHANGED <<files, packages, manifest, derived, edges, indexState, snapshot, marker>>
      PROVE  UNCHANGED Lifecycle!lifecycle
  BY <1>1 DEF SnapshotOf
<1>2. CASE ApplyFacts
  <2>1. marker' /\ indexState' = "ready" /\ snapshot' = snapshot
    BY <1>2, <1>a DEF ApplyFacts, PlantMarker
  <2>2. CASE marker
    BY <1>a, <2>1, <2>2 DEF Lifecycle!Next, Lifecycle!Update
  <2>3. CASE ~marker
    BY <1>a, <2>1, <2>3 DEF Lifecycle!Next, Lifecycle!Tear
  <2> QED
    BY <2>2, <2>3
<1>3. CASE ResolveNext
  <2>1. marker /\ marker' = marker /\ indexState' = indexState /\ snapshot' = snapshot
    BY <1>3 DEF ResolveNext, LifecycleInv, MarkedWhileWriting
  <2> QED
    BY <1>a, <2>1 DEF Lifecycle!Next, Lifecycle!Update
<1>4. CASE Finalize
  <2>1. /\ marker /\ marker' = FALSE /\ indexState' = indexState
        /\ snapshot' = SnapshotOf(files)
        /\ UNCHANGED <<files, packages, manifest, derived, edges>>
    BY <1>4 DEF Finalize, PublishSnapshot, LifecycleInv, MarkedWhileWriting
  <2>2. SnapshotOf(files)' = SnapshotOf(files)
    BY <2>1 DEF SnapshotOf
  <2> QED
    BY <1>a, <2>1, <2>2 DEF Lifecycle!Next, Lifecycle!Publish
<1>5. ASSUME NEW p \in Path, Edit(p) PROVE UNCHANGED Lifecycle!lifecycle
  BY <1>1, <1>5 DEF Edit, storeVars
<1>6. CASE Scan \/ PlanNoop \/ Plan \/ SelectPackages \/ Crash
  BY <1>1, <1>6 DEF Scan, PlanNoop, Plan, SelectPackages, Crash, storeVars
<1>7. CASE UNCHANGED vars
  BY <1>1, <1>7 DEF vars
<1> QED
  BY <1>2, <1>3, <1>4, <1>5, <1>6, <1>7 DEF Next

(* Readers see the rows of a published snapshot or a marked index: no row  *)
(* moves in an unmarked ready index and the marker goes only together with *)
(* the id of the rows then there.                                          *)
THEOREM UpdateRefinesLifecycle == Spec => ImplementsLifecycle
<1>1. Spec => []LifecycleInv
  BY InitLifecycle, StepLifecycle, PTL DEF Spec
<1>2. Init /\ [][Next]_vars /\ []LifecycleInv
        => Lifecycle!Init /\ [][Lifecycle!Next]_(Lifecycle!lifecycle)
  BY InitRefines, StepRefines, PTL
<1> QED
  BY <1>1, <1>2, PTL DEF Spec, ImplementsLifecycle, Lifecycle!Spec

----------------------------------------------------------------------------
(***************************************************************************)
(* Packages.                                                               *)
(***************************************************************************)
(* Every package in use after the transaction is known: a row it wrote has *)
(* its package among the discovered, any other row kept the one it had.    *)
LEMMA KnownPackages ==
  ASSUME KeysInUse(files) \subseteq packages, run.pc = "planned", NEW late \in SUBSET Path
  PROVE  PackagesAfter(FilesAfter(late)) = KeysInUse(FilesAfter(late))
<1> DEFINE rows == FilesAfter(late)
<1>1. ASSUME NEW q \in Path, rows[q] # None, rows[q].pkg # None
      PROVE  [dir |-> q.dir, name |-> rows[q].pkg] \in packages \union DiscoveredKeys(rows)
  <2>1. CASE q \in run.added \union run.modified
    BY <1>1, <2>1 DEF DiscoveredKeys
  <2>2. CASE q \notin run.added \union run.modified
    <3>1. q \notin run.deleted /\ rows[q] = files[q]
      BY <1>1, <2>2 DEF FilesAfter
    <3> QED
      BY <1>1, <3>1 DEF KeysInUse
  <2> QED
    BY <2>1, <2>2
<1>2. KeysInUse(rows) \subseteq packages \union DiscoveredKeys(rows)
  BY <1>1 DEF KeysInUse
<1> HIDE DEF rows
<1>3. PackagesAfter(rows) = KeysInUse(rows)
  BY <1>2 DEF PackagesAfter
<1> QED
  BY <1>3 DEF rows

(* The package of every row is known. *)
KnownKeys == KeysInUse(files) \subseteq packages

LEMMA InitPackages == Init => KnownKeys
  BY InitBuilt DEF KnownKeys, BuildFacts, DB

(* Only the fact transaction moves rows and packages. *)
LEMMA StepPackages ==
  KnownKeys /\ [Next]_vars =>
    \/ ApplyFacts /\ packages' = KeysInUse(files')
    \/ UNCHANGED <<files, packages>>
<1> SUFFICES ASSUME KnownKeys, [Next]_vars
             PROVE  \/ ApplyFacts /\ packages' = KeysInUse(files')
                    \/ UNCHANGED <<files, packages>>
  OBVIOUS
<1>1. CASE ApplyFacts
  <2>1. PICK late \in SUBSET (MayBeLate \intersect (run.added \union run.modified)) :
          files' = FilesAfter(late) /\ packages' = PackagesAfter(FilesAfter(late))
    BY <1>1 DEF ApplyFacts
  <2>2. late \in SUBSET Path /\ run.pc = "planned"
    BY <1>1 DEF ApplyFacts, MayBeLate
  <2> QED
    BY <1>1, <2>1, <2>2, KnownPackages DEF KnownKeys
<1>2. ASSUME NEW p \in Path, Edit(p) PROVE UNCHANGED <<files, packages>>
  BY <1>2 DEF Edit, storeVars
<1>3. CASE Scan \/ PlanNoop \/ Plan \/ SelectPackages \/ Crash
  BY <1>3 DEF Scan, PlanNoop, Plan, SelectPackages, Crash, storeVars
<1>4. CASE ResolveNext \/ Finalize \/ UNCHANGED vars
  BY <1>4 DEF ResolveNext, Finalize, vars
<1> QED
  BY <1>1, <1>2, <1>3, <1>4 DEF Next

LEMMA StepKnown == KnownKeys /\ [Next]_vars => KnownKeys'
  BY StepPackages DEF KnownKeys, KeysInUse

(* Whenever rows or packages move, no package is left without a file, nor  *)
(* a file without its package's row (incremental.rs, the garbage           *)
(* collection that ends the fact transaction): also those go that a        *)
(* resumed build has left behind.                                          *)
THEOREM PackagesCorrect == Spec => NoGhostPackages
<1>1. KnownKeys /\ [Next]_vars => [packages' = KeysInUse(files')]_<<files, packages>>
  BY StepPackages
<1> QED
  BY <1>1, InitPackages, StepKnown, PTL DEF Spec, NoGhostPackages

----------------------------------------------------------------------------
(***************************************************************************)
(* Rows of the derived tables.  The invariant needs that a planned run     *)
(* only adds files that have no row: the rows of the others move only with *)
(* their derived rows.                                                     *)
(***************************************************************************)
AddedAreNew == run.pc = "planned" => \A p \in run.added : files[p] = None

RowsInv == TypeInv /\ AddedAreNew /\ DerivedNamesRows /\ EdgesNameRows

LEMMA InitRows == Init => RowsInv
<1> SUFFICES ASSUME Init PROVE RowsInv
  OBVIOUS
<1>1. DerivedNamesRows /\ EdgesNameRows
  BY FreshNamesRows DEF Init, Finished
<1>2. AddedAreNew
  BY DEF AddedAreNew, Init, Idle
<1> QED
  BY <1>1, <1>2, InitType DEF RowsInv

(* The fact transaction keeps the row of a file it neither deletes nor     *)
(* rewrites, and leaves a rewritten file a row.                            *)
LEMMA RowsKept ==
  ASSUME RowsInv, run.pc = "planned", NEW late \in SUBSET Path, NEW p \in Present,
         p \notin run.deleted
  PROVE  /\ FilesAfter(late)[p] # None
         /\ p \notin run.modified => FilesAfter(late)[p] = files[p]
<1>1. p \in Path /\ files[p] # None /\ p \notin run.added
  BY DEF Present, RowsInv, AddedAreNew
<1>2. CASE p \in run.modified
  <2>1. FilesAfter(late)[p] \in FileRow
    BY <1>2, WrittenRowType DEF RowsInv
  <2> QED
    BY <1>2, <2>1, NoneIsNoRow
<1>3. CASE p \notin run.modified
  BY <1>1, <1>3 DEF FilesAfter
<1> QED
  BY <1>2, <1>3

LEMMA ApplyFactsNamesRows ==
  ASSUME RowsInv, ApplyFacts
  PROVE  DerivedNamesRows' /\ EdgesNameRows'
<1>1. PICK late \in SUBSET (MayBeLate \intersect (run.added \union run.modified)) :
        files' = FilesAfter(late)
  BY DEF ApplyFacts
<1>2. late \in SUBSET Path /\ run.pc = "planned"
  BY DEF ApplyFacts, MayBeLate
<1>3. derived' = DerivedAfter /\ edges' = EdgesAfter
  BY DEF ApplyFacts
<1>4. \A p \in Present : p \notin run.deleted => p \in Present'
  BY <1>1, <1>2, RowsKept DEF Present
<1>5. DerivedNamesRows'
  <2> SUFFICES ASSUME NEW p \in Path, derived'[p] # None
               PROVE  /\ p \in Present'
                      /\ DOMAIN derived'[p] = {"resolved", "targets"}
                      /\ \A t \in derived'[p].targets : t.file \in Present'
    BY DEF DerivedNamesRows
  <2>1. p \notin run.modified \union run.deleted /\ derived[p] # None
    BY <1>3 DEF DerivedAfter
  <2>2. /\ p \in Present /\ DOMAIN derived[p] = {"resolved", "targets"}
        /\ \A t \in derived[p].targets : t.file \in Present
    BY <2>1 DEF RowsInv, DerivedNamesRows
  <2>3. derived'[p] = [derived[p] EXCEPT !.targets = {t \in @ : t.file \notin run.deleted}]
    BY <1>3, <2>1 DEF DerivedAfter
  <2>4. /\ DOMAIN derived'[p] = DOMAIN derived[p]
        /\ derived'[p].targets = {t \in derived[p].targets : t.file \notin run.deleted}
    BY <2>2, <2>3
  <2> QED
    BY <1>4, <2>1, <2>2, <2>4
<1>6. EdgesNameRows'
  <2> SUFFICES ASSUME NEW e \in edges'
               PROVE  /\ {e.src, e.dst} \subseteq Present' /\ e.src # e.dst
                      /\ e.kind = "test_affinity" => Paired(e)'
    BY DEF EdgesNameRows
  <2>1. /\ e \in edges /\ e.src \notin run.modified \union run.deleted
        /\ e.dst \notin run.modified \union run.deleted
    BY <1>3 DEF EdgesAfter
  <2>2. /\ {e.src, e.dst} \subseteq Present /\ e.src # e.dst
        /\ e.kind = "test_affinity" => Paired(e)
    BY <2>1 DEF RowsInv, EdgesNameRows
  <2>3. files'[e.src] = files[e.src] /\ files'[e.dst] = files[e.dst]
    BY <1>1, <1>2, <2>1, <2>2, RowsKept
  <2>4. Paired(e) => Paired(e)'
    BY <2>3 DEF Paired, AffinityTargets, HasPackage, DB
  <2> QED
    BY <1>4, <2>1, <2>2, <2>4
<1> QED
  BY <1>5, <1>6

LEMMA StepRows == RowsInv /\ [Next]_vars => RowsInv'
<1> SUFFICES ASSUME RowsInv, [Next]_vars PROVE RowsInv'
  OBVIOUS
<1>1. TypeInv'
  BY StepType DEF RowsInv
<1>2. AddedAreNew'
  <2>1. CASE Plan
    BY <2>1 DEF Plan, AddedAreNew, Added, storeVars, RowsInv, TypeInv, TypeOK, RunState
  <2>2. CASE \/ Scan \/ PlanNoop \/ ApplyFacts \/ SelectPackages \/ Finalize \/ Crash
    <3>1. run \in RunState
      BY DEF RowsInv, TypeInv, TypeOK
    <3>2. CASE Scan
      BY <3>1, <3>2 DEF Scan, AddedAreNew, RunState
    <3>3. CASE PlanNoop \/ Finalize \/ Crash
      BY <3>3 DEF PlanNoop, Finalize, Crash, AddedAreNew, Idle
    <3>4. CASE ApplyFacts
      <4>1. run'.pc = "applied"
        BY <3>1, <3>4 DEF ApplyFacts, RunState
      <4> QED
        BY <4>1 DEF AddedAreNew
    <3>5. CASE SelectPackages
      BY <3>1, <3>5 DEF SelectPackages, AddedAreNew, RunState
    <3> QED
      BY <2>2, <3>2, <3>3, <3>4, <3>5
  <2>3. CASE ResolveNext
    BY <2>3 DEF ResolveNext, AddedAreNew, RowsInv, TypeInv, TypeOK, RunState
  <2>4. CASE UNCHANGED <<files, run>>
    BY <2>4 DEF AddedAreNew, RowsInv
  <2>5. ASSUME NEW p \in Path, Edit(p) PROVE UNCHANGED <<files, run>>
    BY <2>5 DEF Edit, storeVars
  <2> QED
    BY <2>1, <2>2, <2>3, <2>4, <2>5 DEF Next, vars
<1>3. DerivedNamesRows' /\ EdgesNameRows'
  <2>1. CASE ApplyFacts
    BY <2>1, ApplyFactsNamesRows
  <2>2. CASE ResolveNext
    BY <2>2, ResolvePackageNamesRows DEF ResolveNext, RowsInv
  <2>3. CASE UNCHANGED <<files, packages, manifest, derived, edges>>
    <3>1. Present' = Present /\ DB' = DB
      BY <2>3 DEF Present, DB
    <3> QED
      BY <2>3, <3>1 DEF RowsInv, DerivedNamesRows, EdgesNameRows, Paired
  <2>4. ASSUME NEW p \in Path, Edit(p)
        PROVE  UNCHANGED <<files, packages, manifest, derived, edges>>
    BY <2>4 DEF Edit, storeVars
  <2>5. CASE Scan \/ PlanNoop \/ Plan \/ SelectPackages \/ Finalize \/ Crash
    BY <2>3, <2>5 DEF Scan, PlanNoop, Plan, SelectPackages, Finalize, Crash, storeVars
  <2> QED
    BY <2>1, <2>2, <2>3, <2>4, <2>5 DEF Next, vars
<1> QED
  BY <1>1, <1>2, <1>3 DEF RowsInv

(* No derived row outlives the row of a file it names, although the code   *)
(* deletes rows of files and leaves theirs to the foreign keys.            *)
THEOREM RowsCorrect == Spec => []NoDanglingRows
<1>1. RowsInv => NoDanglingRows
  BY DEF RowsInv, NoDanglingRows, DerivedNamesRows, EdgesNameRows
<1> QED
  BY InitRows, StepRows, <1>1, PTL DEF Spec

(* A stored test pair is one the pairing rule makes of today's files       *)
(* (go.rs, the test_affinity block of resolve_file).                       *)
THEOREM AffinityCorrect == Spec => []AffinityNeverStale
<1>1. RowsInv => AffinityNeverStale
  BY DEF RowsInv, AffinityNeverStale, EdgesNameRows, Paired
<1> QED
  BY InitRows, StepRows, <1>1, PTL DEF Spec

----------------------------------------------------------------------------
(***************************************************************************)
(* A run that takes every package.  Its pass starts over from every        *)
(* package, so it does not matter what the derived tables held; it has to  *)
(* matter to nobody that is not packaged, and the packages have to be      *)
(* those in use.                                                           *)
(***************************************************************************)
WholePass == run.pc = "deriving" /\ (RebuildAll \/ run.manifestChanged) => PassInv(run.todo)

RebuildInv == RowsInv /\ DerivedIsPackaged /\ WholePass

(* A cold build leaves derived rows to packaged files only. *)
LEMMA FreshIsPackaged ==
  ASSUME derived = FreshDerived(DB), edges = FreshEdges(DB), KnownKeys
  PROVE  DerivedIsPackaged
<1>1. \A e \in FreshOwnEdges(DB) : HasPackage(DB, e.src)
  BY OwnEdgesKind DEF FreshOwnEdges, Packaged
<1>2. \A e \in FreshAffinity(DB) : HasPackage(DB, e.src)
  BY DEF FreshAffinity, Edge, Packaged
<1> QED
  BY <1>1, <1>2 DEF KnownKeys, DerivedIsPackaged, FreshDerived, FreshEdges

LEMMA InitRebuild == Init => RebuildInv
<1> SUFFICES ASSUME Init PROVE RebuildInv
  OBVIOUS
<1>1. DerivedIsPackaged
  BY FreshIsPackaged, InitPackages DEF Init, Finished
<1>2. WholePass
  BY DEF WholePass, Init, Idle
<1> QED
  BY <1>1, <1>2, InitRows DEF RebuildInv

(* A row the fact transaction deletes or rewrites takes its derived rows   *)
(* with it; the others keep their package.                                 *)
LEMMA ApplyFactsKeepsPackaged ==
  ASSUME RowsInv, DerivedIsPackaged, ApplyFacts, KnownKeys'
  PROVE  DerivedIsPackaged'
<1>1. PICK late \in SUBSET (MayBeLate \intersect (run.added \union run.modified)) :
        files' = FilesAfter(late)
  BY DEF ApplyFacts
<1>2. late \in SUBSET Path /\ run.pc = "planned"
  BY DEF ApplyFacts, MayBeLate
<1>3. derived' = DerivedAfter /\ edges' = EdgesAfter
  BY DEF ApplyFacts
<1>4. ASSUME NEW p \in Path, HasPackage(DB, p), p \notin run.modified \union run.deleted
      PROVE  HasPackage(DB, p)'
  <2>1. p \in Present
    BY <1>4 DEF HasPackage, DB, Present
  <2>2. files'[p] = files[p]
    BY <1>1, <1>2, <1>4, <2>1, RowsKept
  <2> QED
    BY <1>4, <2>2 DEF HasPackage, DB
<1>5. \A p \in Path : derived'[p] # None => HasPackage(DB, p)'
  BY <1>3, <1>4 DEF DerivedAfter, DerivedIsPackaged
<1>6. \A e \in edges' : HasPackage(DB, e.src)'
  BY <1>3, <1>4 DEF EdgesAfter, DerivedIsPackaged, RowsInv, TypeInv, TypeOK, StoreTypeOK
<1>7. derived' = [p \in Path |-> derived'[p]]
  BY <1>3 DEF DerivedAfter
<1> QED
  BY <1>5, <1>6, <1>7 DEF DerivedIsPackaged, KnownKeys

LEMMA StepRebuild == RebuildInv /\ [Next]_vars => RebuildInv'
<1> SUFFICES ASSUME RebuildInv, [Next]_vars PROVE RebuildInv'
  OBVIOUS
<1>a. RowsInv' /\ KnownKeys'
  BY StepRows, StepKnown DEF RebuildInv, DerivedIsPackaged, KnownKeys
<1>b. run \in RunState /\ StoreTypeOK
  BY DEF RebuildInv, RowsInv, TypeInv, TypeOK
<1> SUFFICES DerivedIsPackaged' /\ WholePass'
  BY <1>a DEF RebuildInv
<1>1. CASE ApplyFacts
  <2>1. run'.pc = "applied"
    BY <1>1, <1>b DEF ApplyFacts, RunState
  <2> QED
    BY <1>1, <1>a, <2>1, ApplyFactsKeepsPackaged DEF RebuildInv, WholePass
<1>2. CASE SelectPackages
  <2>1. DerivedIsPackaged' /\ PassInv(packages)'
    BY <1>2, PassStart DEF RebuildInv, SelectPackages, storeVars
  <2>2. (RebuildAll \/ run.manifestChanged)' => run'.todo = packages'
    BY <1>2, <1>b DEF SelectPackages, KeysToResolve, RebuildAll, RunState, storeVars
  <2> QED
    BY <2>1, <2>2 DEF WholePass
<1>3. CASE ResolveNext
  <2>1. PICK k \in run.todo : /\ IsFirst(k, run.todo) /\ ResolvePackage(k)
                              /\ run' = [run EXCEPT !.todo = @ \ {k}]
    BY <1>3 DEF ResolveNext
  <2>2. run'.todo = run.todo \ {k} /\ run.pc = "deriving" /\ UNCHANGED <<files, packages, manifest>>
    BY <1>3, <1>b, <2>1 DEF ResolveNext, RunState
  <2>3. (RebuildAll \/ run.manifestChanged)' => RebuildAll \/ run.manifestChanged
    BY <1>b, <2>1 DEF RebuildAll, RunState
  <2>4. DerivedIsPackaged'
    BY <2>1, <2>2, ResolveKeepsPackaged DEF RebuildInv
  <2>5. PassInv(run.todo) => PassInv(run.todo)'
    BY <1>b, <2>1, <2>2, PassStep DEF RebuildInv
  <2> QED
    BY <2>2, <2>3, <2>4, <2>5 DEF RebuildInv, WholePass
<1>4. CASE UNCHANGED <<files, packages, manifest, derived, edges>> /\ run'.pc # "deriving"
  BY <1>4, PassKept DEF RebuildInv, WholePass
<1>5. CASE Scan \/ PlanNoop \/ Plan \/ Finalize \/ Crash
  <2>1. UNCHANGED <<files, packages, manifest, derived, edges>>
    BY <1>5 DEF Scan, PlanNoop, Plan, Finalize, Crash, storeVars
  <2>2. CASE PlanNoop \/ Finalize \/ Crash
    BY <1>4, <2>1, <2>2 DEF PlanNoop, Finalize, Crash, Idle
  <2>3. CASE Scan \/ Plan
    <3>1. run'.pc \in {"scanned", "planned"}
      BY <1>b, <2>3 DEF Scan, Plan, RunState
    <3> QED
      BY <1>4, <2>1, <3>1
  <2> QED
    BY <1>5, <2>2, <2>3
<1>6. CASE UNCHANGED <<files, packages, manifest, derived, edges, run>>
  BY <1>6, PassKept DEF RebuildInv, WholePass, RebuildAll
<1>7. ASSUME NEW p \in Path, Edit(p)
      PROVE  UNCHANGED <<files, packages, manifest, derived, edges, run>>
  BY <1>7 DEF Edit, storeVars
<1> QED
  BY <1>1, <1>2, <1>3, <1>5, <1>6, <1>7 DEF Next, vars

(* A run that takes every package leaves every derived table as a cold     *)
(* build over the same facts would, however much changed at once and       *)
(* however far the run that died before it had come.                       *)
THEOREM RebuildCorrect == Spec => RebuildIsFresh
<1> DEFINE Fresh == marker /\ ~marker' /\ (RebuildAll \/ run.manifestChanged)
                      => (ProjectionCurrent /\ AffinityCurrent)'
<1>1. RebuildInv /\ [Next]_vars => [Fresh]_vars
  <2> SUFFICES ASSUME RebuildInv, [Next]_vars, marker, ~marker',
                      RebuildAll \/ run.manifestChanged
               PROVE  (ProjectionCurrent /\ AffinityCurrent)'
    OBVIOUS
  <2>1. Finalize
    <3>1. ASSUME NEW p \in Path, Edit(p) PROVE FALSE
      BY <3>1 DEF Edit, storeVars
    <3>2. ~(Scan \/ PlanNoop \/ Plan \/ ApplyFacts \/ SelectPackages \/ ResolveNext \/ Crash)
      BY DEF Scan, PlanNoop, Plan, ApplyFacts, PlantMarker, SelectPackages, ResolveNext, Crash,
             storeVars
    <3> QED
      BY <3>1, <3>2 DEF Next, vars
  <2>2. ProjectionCurrent /\ AffinityCurrent
    BY <2>1, PassDone DEF Finalize, RebuildInv, WholePass, RowsInv, TypeInv, TypeOK
  <2>3. UNCHANGED <<derived, edges>> /\ DB' = DB
    BY <2>1 DEF Finalize, DB
  <2> QED
    BY <2>2, <2>3 DEF ProjectionCurrent, AffinityCurrent
<1> QED
  BY <1>1, InitRebuild, StepRebuild, PTL DEF Spec, RebuildIsFresh

----------------------------------------------------------------------------
(***************************************************************************)
(* What was read stands in the row of every packaged file.                 *)
(***************************************************************************)
(* A row with a package is the row of a file that was read. *)
LEMMA WrittenRowFacts ==
  ASSUME TypeInv, run.pc = "planned", NEW late \in SUBSET Path,
         NEW p \in run.added \union run.modified, IncrementalRow(p, late).pkg # None
  PROVE  IncrementalRow(p, late).facts \in Text
<1>1. p \in Path
  BY DEF TypeInv, TypeOK, RunState
<1>2. disk[p] \in Content
  BY <1>1 DEF TypeInv, TypeOK, StoreTypeOK, Content
<1> QED
  BY <1>2 DEF IncrementalRow, SkipRow, UnreadableRow, ParsedRow, Row, IsReadable, Content

LEMMA InitFacts == Init => PackagedHaveFacts
  BY InitBuilt DEF BuildFacts, PackagedHaveFacts, DB

LEMMA StepFacts ==
  ASSUME TypeInv, PackagedHaveFacts, [Next]_vars
  PROVE  PackagedHaveFacts'
<1>1. CASE ApplyFacts
  <2>1. PICK late \in SUBSET (MayBeLate \intersect (run.added \union run.modified)) :
          files' = FilesAfter(late)
    BY <1>1 DEF ApplyFacts
  <2>2. late \in SUBSET Path /\ run.pc = "planned"
    BY <1>1 DEF ApplyFacts, MayBeLate
  <2> SUFFICES ASSUME NEW p \in Path, HasPackage(DB, p)'
               PROVE  files'[p].facts \in Text
    BY DEF PackagedHaveFacts
  <2>3. CASE p \in run.added \union run.modified
    BY <2>1, <2>2, <2>3, WrittenRowType, WrittenRowFacts DEF HasPackage, DB
  <2>4. CASE p \notin run.added \union run.modified
    <3>1. files'[p] = files[p]
      BY <2>1, <2>4 DEF FilesAfter, HasPackage, DB
    <3> QED
      BY <3>1 DEF PackagedHaveFacts, HasPackage, DB
  <2> QED
    BY <2>3, <2>4
<1>2. CASE UNCHANGED files
  BY <1>2 DEF PackagedHaveFacts, HasPackage, DB
<1>3. ASSUME NEW p \in Path, Edit(p) PROVE UNCHANGED files
  BY <1>3 DEF Edit, storeVars
<1>4. CASE \/ Scan \/ PlanNoop \/ Plan \/ SelectPackages \/ ResolveNext \/ Finalize
           \/ Crash \/ UNCHANGED vars
  BY <1>2, <1>4 DEF Scan, PlanNoop, Plan, SelectPackages, ResolveNext, Finalize, Crash,
                    storeVars, vars
<1> QED
  BY <1>1, <1>2, <1>3, <1>4 DEF Next

----------------------------------------------------------------------------
(***************************************************************************)
(* The doctor.  A file of an unmarked index has derived rows, if perhaps   *)
(* not today's: the fact transaction marks the packages of every row it    *)
(* writes, and a run over a marked index marks them all.                   *)
(***************************************************************************)
TornSeen == run.pc = "planned" => run.torn = marker

NothingLacksRows ==
  /\ ~marker => RowsDerived({})
  /\ run.pc = "applied" /\ ~run.torn => RowsDerived(run.todo)
  /\ run.pc = "deriving" => RowsDerived(run.todo)

DerivedType == \A p \in Path : derived[p] # None => derived[p] \in Projection

HealthInv ==
  /\ RebuildInv /\ LifecycleInv /\ PackagedHaveFacts /\ DerivedType
  /\ TornSeen /\ NothingLacksRows

LEMMA InitHealth == Init => HealthInv
<1> SUFFICES ASSUME Init PROVE HealthInv
  OBVIOUS
<1>1. RowsDerived({}) /\ DerivedType
  <2>1. ASSUME NEW p \in Path, HasPackage(DB, p)
        PROVE  derived[p] # None /\ derived[p] \in Projection
    <3>1. DB.files[p].facts \in Text
      BY <2>1, InitFacts DEF PackagedHaveFacts, DB
    <3>2. derived[p] = ProjectFile(DB, p)
      BY <2>1 DEF Init, Finished, FreshDerived
    <3> QED
      BY <3>1, <3>2, ProjectFileType
  <2>2. \A p \in Path : derived[p] # None => HasPackage(DB, p)
    BY DEF Init, Finished, FreshDerived
  <2> QED
    BY <2>1, <2>2 DEF RowsDerived, ResolvedFiles, Resolved, DerivedType
<1>2. TornSeen /\ NothingLacksRows
  BY <1>1 DEF TornSeen, NothingLacksRows, Init, Finished, Idle
<1> QED
  BY <1>1, <1>2, InitRebuild, InitLifecycle, InitFacts DEF HealthInv

(* Cutting bindings from derived rows leaves derived rows. *)
LEMMA CascadeKeepsType ==
  ASSUME DerivedType, NEW p \in Path
  PROVE  /\ DerivedAfter[p] # None
              <=> derived[p] # None /\ p \notin run.modified \union run.deleted
         /\ DerivedAfter[p] # None => DerivedAfter[p] \in Projection
<1>1. ASSUME derived[p] # None, p \notin run.modified \union run.deleted
      PROVE  DerivedAfter[p] \in Projection
  <2>1. derived[p] \in Projection
    BY <1>1 DEF DerivedType
  <2>2. DerivedAfter[p] = [derived[p] EXCEPT !.targets = {t \in @ : t.file \notin run.deleted}]
    BY <1>1 DEF DerivedAfter
  <2>3. {t \in derived[p].targets : t.file \notin run.deleted} \in SUBSET [ref : Refs, file : Path]
    BY <2>1 DEF Projection
  <2> QED
    BY <2>1, <2>2, <2>3 DEF Projection
<1> QED
  BY <1>1, NoneIsNoProjection DEF DerivedAfter

(* The fact transaction takes the derived rows only of rows it writes or   *)
(* deletes, and selects the packages of those it writes.                   *)
LEMMA ApplyFactsSelects ==
  ASSUME HealthInv, ApplyFacts, ~run.torn
  PROVE  RowsDerived(run.todo)'
<1>1. PICK late \in SUBSET (MayBeLate \intersect (run.added \union run.modified)) :
        /\ files' = FilesAfter(late)
        /\ run' = [run EXCEPT
              !.pc = "applied", !.scan = None,
              !.added = {}, !.modified = {}, !.deleted = {},
              !.manifestChanged = @ \/ ManifestAdded,
              !.todo = @ \union DiscoveredKeys(FilesAfter(late)),
              !.packageSetChanged = packages' # packages]
  BY DEF ApplyFacts
<1>2. late \in SUBSET Path /\ run.pc = "planned" /\ run \in RunState /\ RowsInv
  BY DEF ApplyFacts, MayBeLate, HealthInv, RebuildInv, LifecycleInv, TypeInv, TypeOK
<1>3. run'.todo = run.todo \union DiscoveredKeys(files')
  BY <1>1, <1>2 DEF RunState
<1> SUFFICES ASSUME NEW p \in Path, HasPackage(DB, p)', KeyOf(DB, p)' \notin run'.todo
             PROVE  derived'[p] # None
  BY DEF RowsDerived, ResolvedFiles, Resolved
<1>4. p \notin run.added \union run.modified
  BY <1>3 DEF DiscoveredKeys, HasPackage, KeyOf, DB
<1>5. p \notin run.deleted /\ files'[p] = files[p]
  BY <1>1, <1>4 DEF FilesAfter, HasPackage, DB
<1>6. derived[p] # None
  <2>1. ~marker /\ HasPackage(DB, p)
    BY <1>2, <1>5 DEF HealthInv, TornSeen, HasPackage, DB
  <2> QED
    BY <2>1 DEF HealthInv, NothingLacksRows, RowsDerived, ResolvedFiles, Resolved
<1> QED
  BY <1>4, <1>5, <1>6, CascadeKeepsType DEF ApplyFacts, HealthInv

LEMMA StepHealth == HealthInv /\ [Next]_vars => HealthInv'
<1> SUFFICES ASSUME HealthInv, [Next]_vars PROVE HealthInv'
  OBVIOUS
<1>a. RebuildInv' /\ LifecycleInv' /\ PackagedHaveFacts'
  BY StepRebuild, StepLifecycle, StepFacts DEF HealthInv, LifecycleInv
<1>b. run \in RunState /\ StoreTypeOK
  BY DEF HealthInv, LifecycleInv, TypeInv, TypeOK
<1>c. ASSUME UNCHANGED <<files, packages, manifest, derived>>
      PROVE  /\ DerivedType'
             /\ \A todo : RowsDerived(todo) => RowsDerived(todo)'
  <2>1. DB' = DB
    BY <1>c DEF DB
  <2> QED
    BY <1>c, <2>1 DEF HealthInv, DerivedType, RowsDerived, ResolvedFiles, Resolved
<1> SUFFICES DerivedType' /\ TornSeen' /\ NothingLacksRows'
  BY <1>a DEF HealthInv
<1>1. CASE ApplyFacts
  <2>1. run'.pc = "applied" /\ run'.torn = run.torn /\ marker' /\ derived' = DerivedAfter
    BY <1>1, <1>b DEF ApplyFacts, PlantMarker, RunState
  <2>2. DerivedType'
    BY <2>1, CascadeKeepsType DEF DerivedType, HealthInv
  <2> QED
    BY <1>1, <2>1, <2>2, ApplyFactsSelects DEF TornSeen, NothingLacksRows
<1>2. CASE SelectPackages
  <2>1. /\ run'.pc = "deriving" /\ run.pc = "applied"
        /\ run'.todo = KeysToResolve \intersect packages
    BY <1>2, <1>b DEF SelectPackages, RunState
  <2>2. UNCHANGED <<files, packages, manifest, derived, marker>> /\ marker
    BY <1>2 DEF SelectPackages, storeVars, HealthInv, LifecycleInv, MarkedWhileWriting
  <2>3. RowsDerived(KeysToResolve \intersect packages)
    <3>1. \A p \in Path : HasPackage(DB, p) => KeyOf(DB, p) \in packages
      BY <1>b, KeyOfKnown DEF HealthInv, RebuildInv
    <3>2. CASE KeysToResolve = packages
      BY <3>1, <3>2 DEF RowsDerived, ResolvedFiles, Resolved
    <3>3. CASE ~RebuildAll /\ KeysToResolve = WithFanOut
      <4>1. RowsDerived(run.todo)
        BY <2>1, <3>3 DEF HealthInv, NothingLacksRows, RebuildAll
      <4>2. run.todo \subseteq KeysToResolve
        BY <3>3 DEF WithFanOut
      <4> QED
        BY <3>1, <4>1, <4>2 DEF RowsDerived, ResolvedFiles, Resolved
    <3> QED
      BY <3>2, <3>3 DEF KeysToResolve
  <2>4. RowsDerived(run.todo)'
    BY <1>c, <2>1, <2>2, <2>3
  <2> QED
    BY <1>c, <2>1, <2>2, <2>4 DEF TornSeen, NothingLacksRows
<1>3. CASE ResolveNext
  <2>1. PICK k \in run.todo : ResolvePackage(k) /\ run' = [run EXCEPT !.todo = @ \ {k}]
    BY <1>3 DEF ResolveNext
  <2>2. /\ run'.todo = run.todo \ {k} /\ run'.pc = "deriving" /\ run.pc = "deriving"
        /\ UNCHANGED <<files, packages, manifest, marker>> /\ DB' = DB
    BY <1>3, <1>b, <2>1 DEF ResolveNext, RunState, DB
  <2>3. \A p \in FilesOf(DB, k) : /\ derived'[p] \in Projection /\ derived'[p] # None
                                  /\ KeyOf(DB, p) = k
    <3>1. ASSUME NEW p \in FilesOf(DB, k)
          PROVE  /\ derived'[p] = ProjectFile(DB, p) /\ KeyOf(DB, p) = k
                 /\ DB.files[p].facts \in Text
      BY <2>1 DEF ResolvePackage, FilesOf, HealthInv, PackagedHaveFacts, DB
    <3> QED
      BY <3>1, ProjectFileType
  <2>4. \A p \in Path \ FilesOf(DB, k) : derived'[p] = derived[p]
    BY <2>1 DEF ResolvePackage
  <2>5. DerivedType'
    BY <2>3, <2>4 DEF DerivedType, HealthInv
  <2>6. RowsDerived(run.todo)'
    <3> SUFFICES ASSUME NEW p \in Path, HasPackage(DB, p), KeyOf(DB, p) \notin run'.todo
                 PROVE  derived'[p] # None
      BY <2>2 DEF RowsDerived, ResolvedFiles, Resolved
    <3>1. CASE KeyOf(DB, p) = k
      BY <2>3, <3>1 DEF FilesOf
    <3>2. CASE KeyOf(DB, p) # k
      <4>1. RowsDerived(run.todo)
        BY <2>2 DEF HealthInv, NothingLacksRows
      <4>2. derived[p] # None /\ p \notin FilesOf(DB, k)
        BY <2>2, <3>2, <4>1 DEF RowsDerived, ResolvedFiles, Resolved, FilesOf
      <4> QED
        BY <2>4, <4>2
    <3> QED
      BY <3>1, <3>2
  <2>7. marker'
    BY <2>2 DEF HealthInv, LifecycleInv, MarkedWhileWriting
  <2> QED
    BY <2>2, <2>5, <2>6, <2>7 DEF TornSeen, NothingLacksRows
<1>4. CASE Finalize
  <2>1. RowsDerived({})
    BY <1>4 DEF Finalize, HealthInv, NothingLacksRows
  <2>2. run'.pc = "idle" /\ UNCHANGED <<files, packages, manifest, derived>>
    BY <1>4 DEF Finalize, Idle
  <2> QED
    BY <1>c, <2>1, <2>2 DEF TornSeen, NothingLacksRows
<1>5. CASE Plan
  <2>1. /\ run'.pc = "planned" /\ run'.torn = marker
        /\ UNCHANGED <<files, packages, manifest, derived, marker>>
    BY <1>5, <1>b DEF Plan, storeVars, RunState
  <2> QED
    BY <1>c, <2>1 DEF HealthInv, TornSeen, NothingLacksRows
<1>6. CASE UNCHANGED <<files, packages, manifest, derived, marker>> /\ run'.pc \in {"idle", "scanned"}
  BY <1>6, <1>c DEF HealthInv, TornSeen, NothingLacksRows
<1>7. CASE Scan \/ PlanNoop \/ Crash
  <2>1. UNCHANGED <<files, packages, manifest, derived, marker>>
    BY <1>7 DEF Scan, PlanNoop, Crash, storeVars
  <2>2. CASE Scan
    BY <1>b, <1>6, <2>1, <2>2 DEF Scan, RunState
  <2>3. CASE PlanNoop \/ Crash
    BY <1>6, <2>1, <2>3 DEF PlanNoop, Crash, Idle
  <2> QED
    BY <1>7, <2>2, <2>3
<1>8. CASE UNCHANGED <<files, packages, manifest, derived, marker, run>>
  BY <1>8, <1>c DEF HealthInv, TornSeen, NothingLacksRows
<1>9. ASSUME NEW p \in Path, Edit(p)
      PROVE  UNCHANGED <<files, packages, manifest, derived, marker, run>>
  BY <1>9 DEF Edit, storeVars
<1> QED
  BY <1>1, <1>2, <1>3, <1>4, <1>5, <1>7, <1>8, <1>9 DEF Next, vars

(* Whatever died and was repaired before, the doctor has nothing to say of *)
(* an unmarked ready index but that extractions timed out (doctor.rs).     *)
THEOREM UpdateHealthy == Spec => []HealthyWhenReady
<1>1. HealthInv => HealthyWhenReady
  <2> SUFFICES ASSUME HealthInv, indexState = "ready", ~marker
               PROVE  Check \subseteq {Warning("PARSE_ANOMALIES")}
    BY DEF HealthyWhenReady
  <2>1. /\ StoreTypeOK /\ DerivedNamesRows /\ EdgesNameRows /\ KeysInUse(files) \subseteq packages
        /\ snapshot = SnapshotOf(files) /\ RowsDerived({})
    BY DEF HealthInv, RebuildInv, RowsInv, TypeInv, TypeOK, DerivedIsPackaged, LifecycleInv,
           SnapshotNamesFacts, NothingLacksRows
  <2> QED
    BY <2>1, Healthy
<1> QED
  BY <1>1, InitHealth, StepHealth, PTL DEF Spec
----------------------------------------------------------------------------
(***************************************************************************)
(* Coherence after a scoped update.                                        *)
(***************************************************************************)
(* The packages of the files a run rewrites or deletes, in the old facts.  *)
AffectedKeys ==
  {KeyOf(DB, p) : p \in {q \in run.modified \union run.deleted : HasPackage(DB, q)}}
AffectedDirs == {k.dir : k \in AffectedKeys}

(* What the fan-out does not see: a file that enters a package of a        *)
(* directory already selected, where no packaged file is rewritten or      *)
(* deleted, so that the importers of the directory are not selected.  The  *)
(* two_changes run shows what such an update leaves.                       *)
NoHiddenGain ==
  run.pc = "planned" =>
    \A p \in run.added \union run.modified :
      (\E k \in run.preKeys : k.dir = p.dir) => p.dir \in AffectedDirs

(* A plan is about the tables it was made from: nothing has moved since.   *)
PlanHeld ==
  run.pc = "planned" =>
    /\ run.torn = marker
    /\ run.manifestChanged <=> (run.modified \union run.deleted) \intersect Manifests # {}
    /\ run.todo = run.preKeys
    /\ run.preKeys = AffectedKeys \union BinderPackages(AffectedKeys)
                                  \union ImporterPackages(AffectedDirs)

Scoped == ~(RebuildAll \/ run.manifestChanged)

(* Files of packages that are not going to be resolved are as resolving    *)
(* would leave them.                                                       *)
ScopeCovers == run.pc = "applied" /\ Scoped => PassRows(WithFanOut) /\ PassEdges(WithFanOut)
PassCovers  == run.pc = "deriving" => PassRows(run.todo) /\ PassEdges(run.todo)

CoherentInv ==
  /\ RebuildInv /\ LifecycleInv /\ PackagedHaveFacts /\ PlanHeld
  /\ ScopeCovers /\ PassCovers /\ Coherent

LEMMA InitCoherent == Init => CoherentInv
<1> SUFFICES ASSUME Init PROVE CoherentInv
  OBVIOUS
<1>1. PackagedHaveFacts
  BY InitFacts
<1>2. PlanHeld /\ ScopeCovers /\ PassCovers
  BY DEF PlanHeld, ScopeCovers, PassCovers, Init, Idle
<1>3. Coherent
  BY FinishedIsCurrent DEF Coherent, Init
<1> QED
  BY <1>1, <1>2, <1>3, InitRebuild, InitLifecycle DEF CoherentInv

(***************************************************************************)
(* The fact transaction of a scoped update.                                *)
(***************************************************************************)
(* Neither the packages nor the manifest move, and every package outside   *)
(* the affected and the discovered keeps its files and their rows.         *)
LEMMA ScopedFacts ==
  ASSUME CoherentInv, ApplyFacts, Scoped'
  PROVE  /\ ProjectionCurrent
         /\ packages' = packages /\ manifest' = manifest
         /\ run'.preKeys = run.preKeys
         /\ \E discovered \in SUBSET Key :
              /\ run'.todo = run.preKeys \union discovered
              /\ \A p \in run.added \union run.modified :
                   HasPackage(DB, p)' => KeyOf(DB, p)' \in discovered
              /\ \A k \in discovered :
                   \E p \in run.added \union run.modified : k.dir = p.dir
              /\ \A k : k \notin AffectedKeys \union discovered => SameFiles(DB, DB', k)
         /\ \A p \in Path : p \notin run.added \union run.modified =>
              /\ HasPackage(DB, p)' => p \notin run.deleted
              /\ p \notin run.deleted => files'[p] = files[p]
<1>1. PICK late \in SUBSET (MayBeLate \intersect (run.added \union run.modified)) :
        /\ files' = FilesAfter(late)
        /\ packages' = PackagesAfter(FilesAfter(late))
        /\ run' = [run EXCEPT
              !.pc = "applied", !.scan = None,
              !.added = {}, !.modified = {}, !.deleted = {},
              !.manifestChanged = @ \/ ManifestAdded,
              !.todo = @ \union DiscoveredKeys(FilesAfter(late)),
              !.packageSetChanged = packages' # packages]
  BY DEF ApplyFacts
<1>2. late \in SUBSET Path /\ run.pc = "planned" /\ run \in RunState /\ TypeInv
  BY DEF ApplyFacts, MayBeLate, CoherentInv, LifecycleInv, TypeInv, TypeOK
<1> DEFINE rows == FilesAfter(late)
           discovered == DiscoveredKeys(rows)
<1>3. /\ run'.torn = run.torn /\ run'.preKeys = run.preKeys
      /\ run'.manifestChanged = (run.manifestChanged \/ ManifestAdded)
      /\ run'.todo = run.todo \union discovered
      /\ run'.packageSetChanged = (packages' # packages)
  BY <1>1, <1>2 DEF RunState
<1>4. ~run.torn /\ packages' = packages /\ ~run.manifestChanged /\ ~ManifestAdded
  BY <1>3 DEF Scoped, RebuildAll
<1>5. ProjectionCurrent
  BY <1>2, <1>4 DEF CoherentInv, PlanHeld, Coherent
<1>6. manifest' = manifest
  <2>1. manifest' = ManifestAfter
    BY DEF ApplyFacts
  <2>2. (run.modified \union run.deleted) \intersect Manifests = {}
    BY <1>2, <1>4 DEF CoherentInv, PlanHeld
  <2> QED
    BY <1>4, <2>1, <2>2 DEF ManifestAfter, ManifestAdded
<1>7. \A p \in Path : /\ p \in run.deleted => rows[p] = None
                      /\ p \notin run.added \union run.modified \union run.deleted => rows[p] = files[p]
  BY DEF FilesAfter
<1>8. run'.todo = run.preKeys \union discovered /\ discovered \in SUBSET Key
  BY <1>2, <1>3, PackagesAfterType DEF CoherentInv, PlanHeld
<1>9. ASSUME NEW p \in run.added \union run.modified, HasPackage(DB, p)'
      PROVE  KeyOf(DB, p)' \in discovered
  BY <1>1, <1>9 DEF DiscoveredKeys, HasPackage, KeyOf, DB
<1>10. \A k \in discovered : \E p \in run.added \union run.modified : k.dir = p.dir
  BY DEF DiscoveredKeys
<1> HIDE DEF rows, discovered
<1>11. ASSUME NEW k, k \notin AffectedKeys \union discovered
       PROVE  SameFiles(DB, DB', k)
  <2>1. ASSUME NEW q \in FilesOf(DB, k)
        PROVE  q \in FilesOf(DB, k)' /\ files'[q] = files[q]
    <3>1. q \in Path /\ HasPackage(DB, q) /\ KeyOf(DB, q) = k
      BY DEF FilesOf
    <3>2. q \notin run.modified \union run.deleted
      BY <1>11, <3>1 DEF AffectedKeys
    <3>3. q \notin run.added
      BY <1>2, <3>1 DEF CoherentInv, RebuildInv, RowsInv, AddedAreNew, HasPackage, DB
    <3>4. files'[q] = files[q]
      BY <1>1, <1>7, <3>1, <3>2, <3>3 DEF rows
    <3> QED
      BY <3>1, <3>4 DEF FilesOf, HasPackage, KeyOf, DB
  <2>2. ASSUME NEW q \in FilesOf(DB, k)'
        PROVE  q \in FilesOf(DB, k)
    <3>1. q \in Path /\ HasPackage(DB, q)' /\ KeyOf(DB, q)' = k
      BY DEF FilesOf
    <3>2. q \notin run.added \union run.modified
      BY <1>9, <1>11, <3>1
    <3>3. files'[q] = files[q]
      BY <1>1, <1>7, <3>1, <3>2 DEF rows, HasPackage, DB
    <3> QED
      BY <3>1, <3>3 DEF FilesOf, HasPackage, KeyOf, DB
  <2>3. FilesOf(DB, k)' = FilesOf(DB, k)
    BY <2>1, <2>2
  <2>4. FilesOf(DB', k) = FilesOf(DB, k)
    BY <2>3 DEF FilesOf, HasPackage, KeyOf, DB
  <2>5. \A q \in FilesOf(DB, k) : DB'.files[q] = DB.files[q]
    BY <2>1 DEF DB
  <2> QED
    BY <2>4, <2>5 DEF SameFiles
<1>12. \A p \in Path : p \notin run.added \union run.modified =>
          /\ HasPackage(DB, p)' => p \notin run.deleted
          /\ p \notin run.deleted => files'[p] = files[p]
  BY <1>1, <1>7 DEF rows, HasPackage, DB
<1> QED
  BY <1>3, <1>4, <1>5, <1>6, <1>8, <1>9, <1>10, <1>11, <1>12

(* A file with derived rows that imports a directory, or binds into a      *)
(* package, has its package selected with it.                              *)
LEMMA ImporterSelected ==
  ASSUME NEW p \in Path, HasPackage(DB, p), derived[p] # None, NEW dirs,
         NEW i \in DOMAIN derived[p].resolved, derived[p].resolved[i].dir \in dirs
  PROVE  KeyOf(DB, p) \in ImporterPackages(dirs)
  BY DEF ImporterPackages

LEMMA BinderSelected ==
  ASSUME NEW p \in Path, HasPackage(DB, p), derived[p] # None, NEW keys,
         NEW t \in derived[p].targets, HasPackage(DB, t.file), KeyOf(DB, t.file) \in keys
  PROVE  KeyOf(DB, p) \in BinderPackages(keys)
  BY DEF BinderPackages

(* A file the scope leaves out neither belongs to a package whose files    *)
(* moved nor imports one.                                                  *)
LEMMA OutOfScope ==
  ASSUME CoherentInv, NoHiddenGain, ApplyFacts, Scoped',
         NEW p \in Path, HasPackage(DB, p)', KeyOf(DB, p)' \notin WithFanOut'
  PROVE  /\ HasPackage(DB, p) /\ KeyOf(DB, p)' = KeyOf(DB, p) /\ files'[p] = files[p]
         /\ files[p].facts \in Text
         /\ p \notin run.modified \union run.deleted
         /\ derived[p] = ProjectFile(DB, p) /\ derived'[p] = derived[p]
         /\ KeyOf(DB, p) \notin AffectedKeys
         /\ SameFiles(DB, DB', KeyOf(DB, p))
         /\ \A i \in files[p].facts.imports : Binds(DB, i) =>
              ImportedKey(DB, i) \notin AffectedKeys /\ SameFiles(DB, DB', ImportedKey(DB, i))
<1>1. PICK discovered \in SUBSET Key :
         /\ run'.todo = run.preKeys \union discovered
         /\ \A q \in run.added \union run.modified :
              HasPackage(DB, q)' => KeyOf(DB, q)' \in discovered
         /\ \A k \in discovered :
              \E q \in run.added \union run.modified : k.dir = q.dir
         /\ \A k : k \notin AffectedKeys \union discovered => SameFiles(DB, DB', k)
  BY ScopedFacts
<1>2. /\ ProjectionCurrent /\ run'.preKeys = run.preKeys
      /\ packages' = packages /\ manifest' = manifest
      /\ \A q \in Path : q \notin run.added \union run.modified =>
           /\ HasPackage(DB, q)' => q \notin run.deleted
           /\ q \notin run.deleted => files'[q] = files[q]
  BY ScopedFacts
<1>3. run.pc = "planned" /\ run.preKeys = AffectedKeys \union BinderPackages(AffectedKeys)
                                            \union ImporterPackages(AffectedDirs)
  BY DEF ApplyFacts, CoherentInv, PlanHeld
<1>4. /\ KeyOf(DB, p)' \notin run.preKeys \union discovered
      /\ KeyOf(DB, p)' \notin ImporterPackages({k.dir : k \in run.todo \ run.preKeys})'
  <2>1. WithFanOut' = run'.todo \union ImporterPackages({k.dir : k \in run.todo \ run.preKeys})'
    BY DEF WithFanOut
  <2> QED
    BY <1>1, <2>1
<1>5. /\ HasPackage(DB, p) /\ KeyOf(DB, p)' = KeyOf(DB, p) /\ files'[p] = files[p]
      /\ p \notin run.modified \union run.deleted
  <2>1. p \notin run.added \union run.modified
    BY <1>1, <1>4
  <2> QED
    BY <1>2, <2>1 DEF HasPackage, KeyOf, DB
<1>6. files[p].facts \in Text
  BY <1>5 DEF CoherentInv, PackagedHaveFacts
<1>7. derived[p] = ProjectFile(DB, p) /\ derived[p] # None
  BY <1>2, <1>5, <1>6, ProjectFileType DEF ProjectionCurrent, FreshDerived, DB
<1>8. KeyOf(DB, p) \notin AffectedKeys \union discovered
  BY <1>3, <1>4, <1>5
<1>9. ASSUME NEW t \in derived[p].targets
      PROVE  t.file \notin run.deleted
  <2>1. PICK r \in files[p].facts.refs : t.file \in BindTargets(DB, p, r)
    BY <1>7, ProjectFileTargets DEF DB
  <2>2. t.file \in Path /\ HasPackage(DB, t.file)
    BY <1>6, <2>1, ReachedFiles DEF FilesOf, DB
  <2>3. KeyOf(DB, t.file) \notin AffectedKeys
    BY <1>3, <1>4, <1>5, <1>7, <2>2, BinderSelected
  <2> QED
    BY <2>2, <2>3 DEF AffectedKeys
<1>10. derived'[p] = derived[p]
  <2>1. derived' = DerivedAfter
    BY DEF ApplyFacts
  <2>2. derived'[p] = [derived[p] EXCEPT !.targets = {t \in @ : t.file \notin run.deleted}]
    BY <1>5, <1>7, <2>1 DEF DerivedAfter
  <2>3. {t \in derived[p].targets : t.file \notin run.deleted} = derived[p].targets
    BY <1>9
  <2>4. derived[p] = [resolved |-> derived[p].resolved, targets |-> derived[p].targets]
    BY <1>7, ProjectFileTargets
  <2> QED
    BY <2>2, <2>3, <2>4
<1>11. ASSUME NEW i \in files[p].facts.imports, Binds(DB, i)
       PROVE  ImportedKey(DB, i) \notin AffectedKeys \union discovered
  <2>1. i \in DOMAIN derived[p].resolved /\ derived[p].resolved[i] = ResolveImport(DB, i)
    BY <1>7, <1>11, ProjectFileTargets DEF DB
  <2>2. derived[p].resolved[i].dir = i.dir
    BY <1>11, <2>1 DEF Binds, ResolveImport
  <2>3. ImportedKey(DB, i).dir = i.dir
    BY DEF ImportedKey
  <2>4. i.dir \notin AffectedDirs
    BY <1>3, <1>4, <1>5, <1>7, <2>1, <2>2, ImporterSelected
  <2>5. ImportedKey(DB, i) \notin AffectedKeys
    BY <2>3, <2>4 DEF AffectedDirs
  <2>6. ASSUME ImportedKey(DB, i) \in discovered
        PROVE  FALSE
    <3>1. CASE ImportedKey(DB, i) \in run.preKeys
      <4>1. PICK q \in run.added \union run.modified : q.dir = i.dir
        BY <1>1, <2>3, <2>6
      <4> QED
        BY <1>3, <2>3, <2>4, <3>1, <4>1 DEF NoHiddenGain
    <3>2. CASE ImportedKey(DB, i) \notin run.preKeys
      <4> DEFINE dirs == {k.dir : k \in run.todo \ run.preKeys}
      <4>1. i.dir \in dirs'
        BY <1>1, <1>2, <2>3, <2>6, <3>2
      <4>2. HasPackage(DB, p)' /\ derived'[p] # None
        BY <1>7, <1>10
      <4>3. i \in DOMAIN derived'[p].resolved /\ derived'[p].resolved[i].dir = i.dir
        BY <1>10, <2>1, <2>2
      <4> HIDE DEF dirs
      <4>4. KeyOf(DB, p)' \in ImporterPackages(dirs)'
        BY <4>1, <4>2, <4>3 DEF ImporterPackages
      <4> QED
        BY <1>4, <4>4 DEF dirs
    <3> QED
      BY <3>1, <3>2
  <2> QED
    BY <2>5, <2>6
<1> QED
  BY <1>1, <1>5, <1>6, <1>7, <1>8, <1>10, <1>11

(* So what it resolves is left as resolving it now would leave it.         *)
LEMMA ScopeStart ==
  ASSUME CoherentInv, NoHiddenGain, ApplyFacts, Scoped'
  PROVE  PassRows(WithFanOut)' /\ PassEdges(WithFanOut)'
<1>1. ProjectionCurrent /\ packages' = packages /\ manifest' = manifest
  BY ScopedFacts
<1>2. ASSUME NEW p \in ResolvedFiles(WithFanOut)'
      PROVE  /\ derived'[p] = ProjectFile(DB, p)'
             /\ \A e \in EdgeRow : e.src = p /\ e.kind # "test_affinity" =>
                  (e \in edges' <=> e \in OwnEdges(DB, p)')
  <2>1. p \in Path /\ HasPackage(DB, p)' /\ KeyOf(DB, p)' \notin WithFanOut'
    BY DEF ResolvedFiles, Resolved
  <2>2. /\ HasPackage(DB, p) /\ files'[p] = files[p] /\ files[p].facts \in Text
        /\ p \notin run.modified \union run.deleted
        /\ derived[p] = ProjectFile(DB, p) /\ derived'[p] = derived[p]
        /\ KeyOf(DB, p) \notin AffectedKeys
        /\ SameFiles(DB, DB', KeyOf(DB, p))
        /\ \A i \in files[p].facts.imports : Binds(DB, i) =>
             ImportedKey(DB, i) \notin AffectedKeys /\ SameFiles(DB, DB', ImportedKey(DB, i))
    BY <2>1, OutOfScope
  <2>3. /\ DB.packages = packages /\ DB.manifest = manifest /\ DB.files = files
        /\ DB'.packages = packages' /\ DB'.manifest = manifest' /\ DB'.files = files'
    BY DEF DB
  <2>4. ProjectFile(DB', p) = ProjectFile(DB, p) /\ OwnEdges(DB', p) = OwnEdges(DB, p)
    BY <1>1, <2>1, <2>2, <2>3, SameProjection
  <2>5. ProjectFile(DB, p)' = ProjectFile(DB', p) /\ OwnEdges(DB, p)' = OwnEdges(DB', p)
    OBVIOUS
  <2>6. ASSUME NEW e \in OwnEdges(DB, p)
        PROVE  e.dst \notin run.modified \union run.deleted
    <3>1. /\ e.dst \in Path /\ HasPackage(DB, e.dst)
          /\ KeyOf(DB, e.dst) \notin AffectedKeys
      BY <2>1, <2>2, <2>3, OwnEdgesReach, ReachedFiles DEF FilesOf
    <3> QED
      BY <3>1 DEF AffectedKeys
  <2>7. ASSUME NEW e \in EdgeRow, e.src = p, e.kind # "test_affinity"
        PROVE  e \in edges <=> e \in OwnEdges(DB, p)
    <3>1. e \in edges <=> e \in FreshOwnEdges(DB)
      BY <1>1, <2>7 DEF ProjectionCurrent
    <3>2. e \in FreshOwnEdges(DB) <=> e \in OwnEdges(DB, p)
      BY <2>1, <2>2, <2>7, OwnEdgesKind DEF FreshOwnEdges, Packaged
    <3> QED
      BY <3>1, <3>2
  <2>8. ASSUME NEW e \in EdgeRow, e.src = p, e.kind # "test_affinity"
        PROVE  e \in edges' <=> e \in OwnEdges(DB, p)
    <3>1. e \in edges' <=> e \in edges /\ e.dst \notin run.modified \union run.deleted
      BY <2>2, <2>8 DEF ApplyFacts, EdgesAfter
    <3> QED
      BY <2>6, <2>7, <2>8, <3>1
  <2> QED
    BY <2>2, <2>4, <2>5, <2>8
<1>3. PassRows(WithFanOut)'
  BY <1>2 DEF PassRows
<1>4. PassEdges(WithFanOut)'
  BY <1>2 DEF PassEdges
<1> QED
  BY <1>3, <1>4

(* Where a plan is made, the scope is the whole of what it has to be. *)
LEMMA PlanHolds == ASSUME CoherentInv, Plan PROVE PlanHeld'
<1>1. run \in RunState
  BY DEF CoherentInv, LifecycleInv, TypeInv, TypeOK
<1>2. /\ run'.torn = marker /\ run'.modified = Modified /\ run'.deleted = Deleted
      /\ run'.manifestChanged = ((Modified \union Deleted) \intersect Manifests # {})
      /\ run'.preKeys = Invalidated /\ run'.todo = Invalidated
  BY <1>1 DEF Plan, RunState
<1>3. UNCHANGED <<files, packages, manifest, derived, marker>>
  BY DEF Plan, storeVars
<1>4. DB' = DB
  BY <1>3 DEF DB
<1>5. AffectedKeys' = {KeyOf(DB, p) : p \in {q \in Modified \union Deleted : HasPackage(DB, q)}}
  BY <1>2, <1>4 DEF AffectedKeys
<1>6. Invalidated = AffectedKeys' \union BinderPackages(AffectedKeys')
                      \union ImporterPackages({k.dir : k \in AffectedKeys'})
  BY <1>5 DEF Invalidated
<1>7. /\ BinderPackages(AffectedKeys)' = BinderPackages(AffectedKeys')
      /\ ImporterPackages(AffectedDirs)' = ImporterPackages({k.dir : k \in AffectedKeys'})
  BY <1>3, <1>4 DEF BinderPackages, ImporterPackages, AffectedDirs
<1> QED
  BY <1>2, <1>3, <1>6, <1>7 DEF PlanHeld

LEMMA StepCoherent == CoherentInv /\ NoHiddenGain /\ [Next]_vars => CoherentInv'
<1> SUFFICES ASSUME CoherentInv, NoHiddenGain, [Next]_vars PROVE CoherentInv'
  OBVIOUS
<1>a. RebuildInv' /\ LifecycleInv' /\ PackagedHaveFacts'
  BY StepRebuild, StepLifecycle, StepFacts DEF CoherentInv, LifecycleInv
<1>b. run \in RunState /\ StoreTypeOK /\ DerivedIsPackaged /\ DerivedIsPackaged'
  BY <1>a DEF CoherentInv, RebuildInv, RowsInv, TypeInv, TypeOK
<1>c. PassRows({}) /\ PassEdges({}) => ProjectionCurrent
  BY <1>b, ProjectionDone
<1>d. ASSUME UNCHANGED <<files, packages, manifest, derived, edges>>
      PROVE  /\ DB' = DB /\ (ProjectionCurrent => ProjectionCurrent')
             /\ \A todo : PassRows(todo) /\ PassEdges(todo) => PassRows(todo)' /\ PassEdges(todo)'
  <2>1. DB' = DB
    BY <1>d DEF DB
  <2> QED
    BY <1>d, <2>1 DEF ProjectionCurrent, PassRows, PassEdges, ResolvedFiles, Resolved
<1> SUFFICES PlanHeld' /\ ScopeCovers' /\ PassCovers' /\ Coherent'
  BY <1>a DEF CoherentInv
<1>1. CASE ApplyFacts
  <2>1. run'.pc = "applied" /\ marker'
    BY <1>1, <1>b DEF ApplyFacts, PlantMarker, RunState
  <2> QED
    BY <1>1, <2>1, ScopeStart DEF PlanHeld, ScopeCovers, PassCovers, Coherent
<1>2. CASE SelectPackages
  <2>1. /\ run'.pc = "deriving" /\ run.pc = "applied"
        /\ run'.todo = KeysToResolve \intersect packages
        /\ Scoped' <=> Scoped
    BY <1>2, <1>b DEF SelectPackages, RunState, Scoped, RebuildAll
  <2>2. UNCHANGED <<files, packages, manifest, derived, edges, marker>> /\ marker
    BY <1>2 DEF SelectPackages, storeVars, CoherentInv, LifecycleInv, MarkedWhileWriting
  <2>3. CASE Scoped
    <3>1. run'.todo = WithFanOut \intersect packages
      BY <2>1, <2>3 DEF KeysToResolve, Scoped
    <3>2. PassRows(WithFanOut) /\ PassEdges(WithFanOut)
      BY <2>1, <2>3 DEF CoherentInv, ScopeCovers
    <3>3. ResolvedFiles(WithFanOut \intersect packages) = ResolvedFiles(WithFanOut)
      BY <1>b, KeyOfKnown DEF ResolvedFiles, Resolved
    <3>4. PassRows(WithFanOut \intersect packages) /\ PassEdges(WithFanOut \intersect packages)
      BY <3>2, <3>3 DEF PassRows, PassEdges
    <3>5. PassRows(run.todo)' /\ PassEdges(run.todo)'
      BY <1>d, <2>2, <3>1, <3>4
    <3> QED
      BY <2>1, <2>2, <3>5 DEF PlanHeld, ScopeCovers, PassCovers, Coherent
  <2>4. CASE ~Scoped
    <3>1. PassInv(run.todo)'
      BY <1>a, <2>1, <2>4 DEF RebuildInv, WholePass, Scoped
    <3> QED
      BY <2>1, <2>2, <3>1 DEF PassInv, PlanHeld, ScopeCovers, PassCovers, Coherent
  <2> QED
    BY <2>3, <2>4
<1>3. CASE ResolveNext
  <2>1. PICK k \in run.todo : ResolvePackage(k) /\ run' = [run EXCEPT !.todo = @ \ {k}]
    BY <1>3 DEF ResolveNext
  <2>2. /\ run'.todo = run.todo \ {k} /\ run'.pc = "deriving" /\ run.pc = "deriving"
        /\ UNCHANGED <<files, packages, manifest, marker>>
    BY <1>3, <1>b, <2>1 DEF ResolveNext, RunState
  <2>3. PassRows(run.todo)' /\ PassEdges(run.todo)'
    BY <2>1, <2>2, ProjectionStep DEF CoherentInv, PassCovers
  <2>4. marker'
    BY <2>2 DEF CoherentInv, LifecycleInv, MarkedWhileWriting
  <2> QED
    BY <2>2, <2>3, <2>4 DEF PlanHeld, ScopeCovers, PassCovers, Coherent
<1>4. CASE Finalize
  <2>1. ProjectionCurrent
    BY <1>4, <1>c DEF Finalize, CoherentInv, PassCovers
  <2>2. run'.pc = "idle" /\ UNCHANGED <<files, packages, manifest, derived, edges>>
    BY <1>4 DEF Finalize, Idle
  <2> QED
    BY <1>d, <2>1, <2>2 DEF PlanHeld, ScopeCovers, PassCovers, Coherent
<1>5. CASE Plan
  <2>1. run'.pc = "planned" /\ UNCHANGED <<files, packages, manifest, derived, edges, marker>>
    BY <1>5, <1>b DEF Plan, storeVars, RunState
  <2> QED
    BY <1>5, <1>d, <2>1, PlanHolds DEF CoherentInv, ScopeCovers, PassCovers, Coherent
<1>6. CASE Scan \/ PlanNoop \/ Crash
  <2>1. UNCHANGED <<files, packages, manifest, derived, edges, marker>>
    BY <1>6 DEF Scan, PlanNoop, Crash, storeVars
  <2>2. run'.pc \in {"idle", "scanned"}
    <3>1. CASE Scan
      BY <1>b, <3>1 DEF Scan, RunState
    <3>2. CASE PlanNoop \/ Crash
      BY <3>2 DEF PlanNoop, Crash, Idle
    <3> QED
      BY <1>6, <3>1, <3>2
  <2> QED
    BY <1>d, <2>1, <2>2 DEF CoherentInv, PlanHeld, ScopeCovers, PassCovers, Coherent
<1>7. CASE UNCHANGED <<files, packages, manifest, derived, edges, marker, run>>
  <2>1. PlanHeld'
    BY <1>7, <1>d DEF CoherentInv, PlanHeld, AffectedKeys, AffectedDirs, BinderPackages,
                      ImporterPackages
  <2>2. ScopeCovers'
    <3>1. WithFanOut' = WithFanOut /\ (Scoped' <=> Scoped)
      BY <1>7, <1>d DEF WithFanOut, ImporterPackages, Scoped, RebuildAll
    <3> QED
      BY <1>7, <1>d, <3>1 DEF CoherentInv, ScopeCovers
  <2>3. PassCovers' /\ Coherent'
    BY <1>7, <1>d DEF CoherentInv, PassCovers, Coherent
  <2> QED
    BY <2>1, <2>2, <2>3
<1>8. ASSUME NEW p \in Path, Edit(p)
      PROVE  UNCHANGED <<files, packages, manifest, derived, edges, marker, run>>
  BY <1>8 DEF Edit, storeVars
<1> QED
  BY <1>1, <1>2, <1>3, <1>4, <1>5, <1>6, <1>7, <1>8 DEF Next, vars

(* Package-scoped invalidation is complete but for the hidden gain: with   *)
(* any number of files changed at once, any edits while a run is under way *)
(* and any crashes, an unmarked index carries the imports, the bindings    *)
(* and the import_out and ref_def edges of a cold build over its facts, as *)
(* long as no update gives a file to a package of a directory it had       *)
(* selected only as a binder or an importer.                               *)
THEOREM UpdateCoherent == Spec /\ []NoHiddenGain => []Coherent
<1>1. CoherentInv => Coherent
  BY DEF CoherentInv
<1> QED
  BY <1>1, InitCoherent, StepCoherent, PTL DEF Spec

(* At most one file differs between the index and the scan of a run. *)
OneChange ==
  run.pc = "planned" =>
    \A p, q \in run.added \union run.modified \union run.deleted : p = q

(* One changed file hides no gain: what it selects, it affects. *)
LEMMA OneChangeHidesNothing == ASSUME CoherentInv, OneChange PROVE NoHiddenGain
<1> SUFFICES ASSUME run.pc = "planned", NEW p \in run.added \union run.modified,
                    NEW k \in run.preKeys, k.dir = p.dir
             PROVE  p.dir \in AffectedDirs
  BY DEF NoHiddenGain
<1>1. run.preKeys = AffectedKeys \union BinderPackages(AffectedKeys)
                      \union ImporterPackages(AffectedDirs)
  BY DEF CoherentInv, PlanHeld
<1>2. AffectedKeys # {}
  BY <1>1 DEF BinderPackages, ImporterPackages, AffectedDirs
<1>3. PICK q \in run.modified \union run.deleted : KeyOf(DB, q) \in AffectedKeys
  BY <1>2 DEF AffectedKeys
<1>4. q = p
  BY <1>3 DEF OneChange
<1> QED
  BY <1>3, <1>4 DEF AffectedDirs, KeyOf

(* In particular where a run finds one file changed, whatever it changed   *)
(* into and whatever run died before it: what the single_edits run checks. *)
THEOREM SingleEditsCoherent == Spec /\ []OneChange => []Coherent
<1>1. CoherentInv /\ OneChange /\ [Next]_vars => CoherentInv'
  BY OneChangeHidesNothing, StepCoherent
<1>2. CoherentInv => Coherent
  BY DEF CoherentInv
<1> QED
  BY <1>1, <1>2, InitCoherent, PTL DEF Spec

----------------------------------------------------------------------------
(***************************************************************************)
(* Progress.  That runs end and that the index comes to rest are temporal  *)
(* (TornIsRepaired, IndexConverges); what these theorems say of single     *)
(* steps is all of it but the fairness.                                    *)
(***************************************************************************)
(* What the guards of the next transaction ask for is there. *)
NextStepIsThere ==
  /\ run.pc = "scanned" => NothingToDo \/ indexState = "ready"
  /\ run.pc = "deriving" => run.todo = {} \/ \E k \in run.todo : IsFirst(k, run.todo)

(* A run that has started never waits: at each of its stages some          *)
(* transaction of it can be made, the package that is resolved next being  *)
(* one there always is (incremental.rs, apply_derived_changes).            *)
THEOREM RunIsNeverStuck == Spec => []NextStepIsThere
<1>1. LifecycleInv => NextStepIsThere
  BY FirstKey DEF LifecycleInv, TypeInv, TypeOK, RunState, StaysReady, NextStepIsThere
<1> QED
  BY <1>1, InitLifecycle, StepLifecycle, PTL DEF Spec

Stage == [idle |-> 0, scanned |-> 1, planned |-> 2, applied |-> 3, deriving |-> 4]

ComesNearerTheEnd ==
  \/ run' = Idle
  \/ Stage[run'.pc] > Stage[run.pc]
  \/ run'.pc = run.pc /\ run'.todo \subseteq run.todo /\ run'.todo # run.todo

(* Each transaction of a run ends it, or brings it to a later stage, or    *)
(* leaves it fewer packages to resolve: no run goes on for ever, however   *)
(* the tree changes under it.                                              *)
THEOREM RunEnds == Spec => [][RunStep => ComesNearerTheEnd]_vars
<1>1. TypeInv /\ [Next]_vars => [RunStep => ComesNearerTheEnd]_vars
  <2> SUFFICES ASSUME TypeInv, RunStep PROVE ComesNearerTheEnd
    OBVIOUS
  <2>1. run \in RunState
    BY DEF TypeInv, TypeOK
  <2>2. CASE PlanNoop \/ Finalize
    BY <2>2 DEF PlanNoop, Finalize, ComesNearerTheEnd
  <2>3. CASE Plan \/ ApplyFacts \/ SelectPackages
    <3>1. \/ run.pc = "scanned" /\ run'.pc = "planned"
          \/ run.pc = "planned" /\ run'.pc = "applied"
          \/ run.pc = "applied" /\ run'.pc = "deriving"
      BY <2>1, <2>3 DEF Plan, ApplyFacts, SelectPackages, RunState
    <3> QED
      BY <3>1 DEF Stage, ComesNearerTheEnd
  <2>4. CASE ResolveNext
    BY <2>1, <2>4 DEF ResolveNext, RunState, ComesNearerTheEnd
  <2> QED
    BY <2>2, <2>3, <2>4 DEF RunStep
<1> QED
  BY <1>1, InitType, StepType, PTL DEF Spec

(* What a run plans is what its scan finds changed, as long as it has not  *)
(* been written; a run that finds nothing goes on only to repair.          *)
PlanFound ==
  run.pc = "planned" =>
    /\ run.added = Added /\ run.modified = Modified /\ run.deleted = Deleted
    /\ Added \union Modified \union Deleted = {} => marker

RestInv == LifecycleInv /\ PlanFound

LEMMA InitRest == Init => RestInv
  BY InitLifecycle DEF RestInv, PlanFound, Init, Idle

LEMMA StepRest == RestInv /\ [Next]_vars => RestInv'
<1> SUFFICES ASSUME RestInv, [Next]_vars PROVE PlanFound'
  BY StepLifecycle DEF RestInv
<1>1. run \in RunState
  BY DEF RestInv, LifecycleInv, TypeInv, TypeOK
<1> USE DEF RestInv, PlanFound
<1>2. ASSUME NEW p \in Path, Edit(p) PROVE PlanFound'
  BY <1>2 DEF Edit, storeVars, Added, Modified, Deleted
<1>3. CASE Scan
  BY <1>1, <1>3 DEF Scan, RunState
<1>4. CASE Plan
  <2>1. /\ run'.added = Added /\ run'.modified = Modified /\ run'.deleted = Deleted
        /\ run'.scan = run.scan /\ files' = files /\ marker' = marker
    BY <1>1, <1>4 DEF Plan, RunState, storeVars
  <2>2. Added' = Added /\ Modified' = Modified /\ Deleted' = Deleted
    BY <2>1 DEF Added, Modified, Deleted
  <2> QED
    BY <1>4, <2>1, <2>2 DEF Plan, NothingToDo
<1>5. CASE ApplyFacts \/ SelectPackages \/ ResolveNext
  BY <1>1, <1>5 DEF ApplyFacts, SelectPackages, ResolveNext, RunState
<1>6. CASE PlanNoop \/ Finalize \/ Crash
  BY <1>6 DEF PlanNoop, Finalize, Crash, Idle
<1>7. CASE UNCHANGED vars
  BY <1>7 DEF vars, Added, Modified, Deleted
<1> QED
  BY <1>2, <1>3, <1>4, <1>5, <1>6, <1>7 DEF Next

(* The index has the hashes of the tree, and a run that is still to write  *)
(* has scanned this very tree.                                             *)
Settled ==
  /\ Pending(disk) = {}
  /\ run.pc \in {"scanned", "planned"} => run.scan = ScanOf(disk)

(* The row written for a file that has not moved since the scan has the    *)
(* hash the next scan will find.                                           *)
LEMMA WrittenMatches ==
  ASSUME TypeInv, run.pc = "planned", run.scan = ScanOf(disk), NEW late \in SUBSET Path,
         NEW p \in run.added \union run.modified
  PROVE  ~Differs(Inspect(disk[p]), FilesAfter(late)[p])
<1>1. /\ p \in Path /\ FilesAfter(late)[p] = IncrementalRow(p, late)
      /\ IncrementalRow(p, late) # None
  BY WrittenRowType, NoneIsNoRow
<1>2. run.scan[p] # None /\ run.scan[p] = Inspect(disk[p])
  BY <1>1 DEF TypeInv, ScanHeld, ScanOf
<1>3. run.scan[p].skip = None => IsReadable(disk[p])
  BY <1>2, NoneIsNoLabel DEF Inspect, IsReadable, SkipReason
<1>4. FilesAfter(late)[p].hash = run.scan[p].hash
  BY <1>1, <1>3 DEF IncrementalRow, SkipRow, ParsedRow, Row
<1> QED
  BY <1>1, <1>2, <1>4 DEF Differs

LEMMA ApplySettles ==
  ASSUME RestInv, ApplyFacts, run.scan = ScanOf(disk)
  PROVE  Settled'
<1>1. /\ run \in RunState /\ run.pc = "planned" /\ disk' = disk /\ TypeInv
      /\ run.added = Added /\ run.modified = Modified /\ run.deleted = Deleted
  BY DEF RestInv, PlanFound, LifecycleInv, TypeInv, TypeOK, ApplyFacts
<1>2. PICK late \in SUBSET Path : files' = FilesAfter(late) /\ run'.pc = "applied"
  BY <1>1 DEF ApplyFacts, MayBeLate, RunState
<1>3. ASSUME NEW p \in Path PROVE ~Differs(Inspect(disk[p]), FilesAfter(late)[p])
  <2>1. run.scan[p] = Inspect(disk[p])
    BY DEF ScanOf
  <2>2. CASE p \in run.added \union run.modified
    BY <1>1, <2>2, WrittenMatches
  <2>3. CASE p \in run.deleted
    BY <1>1, <2>1, <2>3 DEF FilesAfter, Deleted, Differs
  <2>4. CASE p \notin run.added \union run.modified \union run.deleted
    <3>1. FilesAfter(late)[p] = files[p]
      BY <2>4 DEF FilesAfter
    <3> QED
      BY <1>1, <2>1, <2>4, <3>1 DEF Added, Modified, Deleted, Differs
  <2> QED
    BY <2>2, <2>3, <2>4
<1> QED
  BY <1>1, <1>2, <1>3 DEF Settled, Pending

(* Where the index has the hashes of the tree a scan finds nothing. *)
LEMMA SettledFindsNothing ==
  ASSUME Settled, run.pc \in {"scanned", "planned"}
  PROVE  Added \union Modified \union Deleted = {}
<1>1. \A p \in Path : run.scan[p] = Inspect(disk[p]) /\ ~Differs(run.scan[p], files[p])
  BY DEF Settled, Pending, ScanOf
<1> QED
  BY <1>1 DEF Added, Modified, Deleted, Differs

(* An update writes the tree it has scanned: if no file moved in between,  *)
(* its fact transaction leaves nothing for the next scan to find, deleted  *)
(* files and files that could not be read or parsed in time included       *)
(* (incremental.rs, apply_fact_changes).                                   *)
THEOREM UpdateSettles == Spec => [][ApplyFacts /\ run.scan = ScanOf(disk) => Settled']_vars
<1>1. RestInv /\ [Next]_vars => [ApplyFacts /\ run.scan = ScanOf(disk) => Settled']_vars
  BY ApplySettles
<1> QED
  BY <1>1, InitRest, StepRest, PTL DEF Spec

(* Once the index has the hashes of the tree it keeps them until the tree  *)
(* changes, whatever runs come and die; and once it is unmarked besides,   *)
(* no run writes to it at all: `contextslice index` on a tree that has not *)
(* changed is the fast path, for ever (incremental.rs, plan_incremental).  *)
THEOREM RestIsKept ==
  Spec => [][Settled /\ UNCHANGED disk => Settled' /\ (~marker => UNCHANGED storeVars)]_vars
<1>1. ASSUME RestInv, [Next]_vars, Settled, UNCHANGED disk
      PROVE  Settled' /\ (~marker => UNCHANGED storeVars)
  <2>1. /\ run \in RunState /\ disk \in [Path -> Content] /\ MarkedWhileWriting
        /\ run.pc = "planned" => run.added = Added /\ run.modified = Modified /\ run.deleted = Deleted
        /\ run.pc = "planned" /\ Added \union Modified \union Deleted = {} => marker
    BY <1>1 DEF RestInv, PlanFound, LifecycleInv, TypeInv, TypeOK, StoreTypeOK, Content
  <2>2. ASSUME UNCHANGED storeVars,
               run'.pc \in {"scanned", "planned"} => run'.scan = ScanOf(disk)
        PROVE  Settled' /\ (~marker => UNCHANGED storeVars)
    BY <1>1, <2>2 DEF Settled, Pending, storeVars, ScanOf
  <2>3. ASSUME NEW p \in Path, Edit(p) PROVE FALSE
    BY <1>1, <2>1, <2>3 DEF Edit
  <2>4. CASE Scan
    BY <2>1, <2>2, <2>4 DEF Scan, RunState
  <2>5. CASE PlanNoop \/ Crash
    BY <2>2, <2>5 DEF PlanNoop, Crash, Idle
  <2>6. CASE Plan
    BY <1>1, <2>1, <2>2, <2>6 DEF Plan, RunState, Settled
  <2>7. CASE ApplyFacts
    <3>1. run.pc = "planned" /\ run.scan = ScanOf(disk)
      BY <1>1, <2>7 DEF ApplyFacts, Settled
    <3>2. marker
      BY <1>1, <2>1, <3>1, SettledFindsNothing
    <3> QED
      BY <1>1, <2>7, <3>1, <3>2, ApplySettles
  <2>8. CASE SelectPackages
    BY <2>1, <2>2, <2>8 DEF SelectPackages, RunState
  <2>9. CASE ResolveNext \/ Finalize
    <3>1. marker /\ files' = files
      BY <2>1, <2>9 DEF ResolveNext, Finalize, MarkedWhileWriting
    <3>2. run'.pc \notin {"scanned", "planned"}
      BY <2>1, <2>9 DEF ResolveNext, Finalize, Idle, RunState
    <3> QED
      BY <1>1, <3>1, <3>2 DEF Settled, Pending
  <2>10. CASE UNCHANGED vars
    BY <1>1, <2>2, <2>10 DEF vars, storeVars, Settled
  <2> QED
    BY <1>1, <2>3, <2>4, <2>5, <2>6, <2>7, <2>8, <2>9, <2>10 DEF Next
<1>2. RestInv /\ [Next]_vars =>
        [Settled /\ UNCHANGED disk => Settled' /\ (~marker => UNCHANGED storeVars)]_vars
  BY <1>1
<1> QED
  BY <1>2, InitRest, StepRest, PTL DEF Spec
=============================================================================
