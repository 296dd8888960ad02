-------------------------- MODULE ColdBuild_proofs --------------------------
(***************************************************************************)
(* Theorems about ColdBuild, for every tree, every batch size and every    *)
(* crash: types, the promise of a ready index, and the lifecycle.          *)
(***************************************************************************)
EXTENDS ColdBuild, IndexStore_proofs, FiniteSetTheorems

RunFields == DOMAIN run = {"pc", "scan", "existing", "pending", "todo", "snapshot"}

(* A process holds its scan until its facts are written; what it has still *)
(* to ingest is in the scan, and has a row only if it had one at the start.*)
ScanHeld ==
  /\ run.pc \in {"scanned", "begun", "ingesting"} => run.scan \in [Path -> ScanEntry \union {None}]
  /\ run.pc = "ingesting" =>
       \A p \in run.pending : /\ run.scan[p] # None
                              /\ p \notin run.existing => files[p] = None

TypeInv == TypeOK /\ RunFields /\ ScanHeld

----------------------------------------------------------------------------
(***************************************************************************)
(* Types.                                                                  *)
(***************************************************************************)
LEMMA InitType == Init => TypeInv
<1> SUFFICES ASSUME Init PROVE TypeInv
  OBVIOUS
<1> USE DEF Init
<1>1. StoreTypeOK
  BY TreesShape DEF StoreTypeOK, NoRows
<1>2. run = Idle /\ edits \in 0..MaxEdits /\ crashes \in 0..MaxCrashes /\ rebuilds \in 0..MaxRebuilds
  BY BoundsShape
<1> QED
  BY <1>1, <1>2 DEF TypeInv, TypeOK, RunFields, ScanHeld, Idle

(* The batch of an ingesting process, and the rows it leaves. *)
LEMMA BatchRows ==
  ASSUME TypeInv, IngestBatch
  PROVE  /\ Batch \subseteq run.pending /\ run.pending \subseteq Path
         /\ files' \in [Path -> FileRow \union {None}]
         /\ \A p \in Batch : files'[p] \in FileRow
         /\ \A p \in Path \ Batch : files'[p] = files[p]
<1>1. run.pending \subseteq Path /\ run.pc = "ingesting" /\ Batch \subseteq run.pending
  BY DEF TypeInv, TypeOK, IngestBatch, Batch
<1>2. PICK late \in SUBSET (MayBeLate \intersect Batch) :
        files' = [p \in Path |-> IF p \in Batch
                                 THEN ColdRow(p, run.scan[p], disk[p], p \in late)
                                 ELSE files[p]]
  BY DEF IngestBatch
<1>3. ASSUME NEW p \in Batch
      PROVE  files'[p] \in FileRow
  <2>1. p \in Path /\ run.scan[p] \in ScanEntry
    BY <1>1 DEF TypeInv, ScanHeld
  <2>2. disk[p] \in Content
    BY <2>1 DEF TypeInv, TypeOK, StoreTypeOK, Content
  <2> QED
    BY <1>2, <2>1, <2>2, ColdRowType
<1>4. \A p \in Path \ Batch : files'[p] = files[p] /\ files[p] \in FileRow \union {None}
  BY <1>2 DEF TypeInv, TypeOK, StoreTypeOK
<1>5. files' \in [Path -> FileRow \union {None}]
  BY <1>2, <1>3, <1>4
<1> QED
  BY <1>1, <1>3, <1>4, <1>5

LEMMA IngestBatchType == ASSUME TypeInv, IngestBatch PROVE TypeInv'
<1>1. packages' \in SUBSET Key
  <2>1. packages' = packages \union {[dir |-> p.dir, name |-> files'[p].pkg] :
                                       p \in {q \in Batch : files'[q].pkg # None}}
    BY DEF IngestBatch
  <2>2. \A p \in Batch : p \in Path /\ files'[p] \in FileRow
    BY BatchRows
  <2>3. \A p \in Batch : files'[p].pkg # None => [dir |-> p.dir, name |-> files'[p].pkg] \in Key
    BY <2>2 DEF FileRow, Key
  <2> QED
    BY <2>1, <2>3 DEF TypeInv, TypeOK, StoreTypeOK
<1>2. manifest' \in Text \union {None}
  <2>1. ASSUME NEW p \in Manifests, IsReadable(disk[p])
        PROVE  disk[CHOOSE q \in Manifests : TRUE] \in Text
    BY <2>1, OneRootManifest DEF TypeInv, TypeOK, StoreTypeOK, IsReadable, Manifests
  <2>2. manifest' = ManifestAfterBatch
    BY DEF IngestBatch
  <2> QED
    BY <2>1, <2>2 DEF ManifestAfterBatch, TypeInv, TypeOK, StoreTypeOK
<1>3. edges' \in SUBSET EdgeRow
  BY DEF IngestBatch, TypeInv, TypeOK, StoreTypeOK, EdgeRow
<1>4. UNCHANGED <<disk, indexState, marker, tree, edits, crashes, rebuilds>>
  BY DEF IngestBatch
<1>5. StoreTypeOK'
  BY <1>1, <1>2, <1>3, <1>4, BatchRows DEF TypeInv, TypeOK, StoreTypeOK, EdgeRow
<1>6. run' = [run EXCEPT !.pending = @ \ Batch]
  BY DEF IngestBatch
<1>7. /\ RunFields' /\ run'.pending = run.pending \ Batch
      /\ run'.pc = run.pc /\ run'.scan = run.scan /\ run'.existing = run.existing
      /\ run'.todo = run.todo
  BY <1>6 DEF TypeInv, RunFields
<1>8. ScanHeld'
  BY <1>7, BatchRows DEF ScanHeld, TypeInv
<1> QED
  BY <1>4, <1>5, <1>7, <1>8 DEF TypeInv, TypeOK

LEMMA StepType == TypeInv /\ [Next]_vars => TypeInv'
<1> SUFFICES ASSUME TypeInv, [Next]_vars PROVE TypeInv'
  OBVIOUS
<1> USE DEF TypeInv, TypeOK, RunFields, ScanHeld
<1>1. ASSUME NEW p \in Path, Edit(p)
      PROVE  TypeInv'
  <2>1. disk' \in [Path -> Text \union {Unreadable, None}]
    <3>1. PICK content \in Versions[p] \ {disk[p]} : disk' = [disk EXCEPT ![p] = content]
      BY <1>1 DEF Edit
    <3>2. content \in Text \union {Unreadable, None}
      BY <3>1, TreesShape
    <3> QED
      BY <3>1, <3>2 DEF StoreTypeOK
  <2>2. edits' \in 0..MaxEdits
    <3>1. edits < MaxEdits /\ edits' = edits + 1
      BY <1>1 DEF Edit
    <3>2. MaxEdits \in Nat /\ edits \in 0..MaxEdits
      BY BoundsShape
    <3> QED
      BY <3>1, <3>2
  <2>3. tree' \in {"still", "moved", "raced"}
    BY <1>1 DEF Edit
  <2> QED
    BY <1>1, <2>1, <2>2, <2>3 DEF Edit, storeVars, StoreTypeOK
<1>2. CASE Rebuild
  <2>1. rebuilds' \in 0..MaxRebuilds
    BY <1>2, BoundsShape DEF Rebuild
  <2>2. StoreTypeOK'
    BY <1>2 DEF Rebuild, StoreTypeOK, NoRows
  <2> QED
    BY <1>2, <2>1, <2>2 DEF Rebuild
<1>3. CASE Start
  BY <1>3 DEF Start, storeVars, StoreTypeOK
<1>4. CASE Scan
  <2>1. ScanOf(disk) \in [Path -> ScanEntry \union {None}]
    BY ScanOfType DEF StoreTypeOK, Content
  <2>2. /\ run'.scan = ScanOf(disk) /\ run'.pc = "scanned" /\ DOMAIN run' = DOMAIN run
        /\ run'.existing = run.existing /\ run'.pending = run.pending /\ run'.todo = run.todo
    BY <1>4 DEF Scan
  <2>3. tree' \in {"still", "moved", "raced"}
    BY <1>4 DEF Scan
  <2> QED
    BY <1>4, <2>1, <2>2, <2>3 DEF Scan, storeVars, StoreTypeOK
<1>5. CASE BeginBuild \/ Resume
  BY <1>5 DEF BeginBuild, Resume, storeVars, StoreTypeOK
<1>6. CASE LoadExisting
  <2>1. /\ run'.existing = Present /\ run'.pc = "ingesting" /\ DOMAIN run' = DOMAIN run
        /\ run'.pending = {p \in Path : run.scan[p] # None /\ ~Trusted(p)}
        /\ run'.scan = run.scan /\ run'.todo = run.todo
    BY <1>6 DEF LoadExisting
  <2>2. run.pc = "begun" /\ UNCHANGED <<disk, storeVars, tree, edits, crashes, rebuilds>>
    BY <1>6 DEF LoadExisting
  <2> QED
    BY <2>1, <2>2 DEF storeVars, StoreTypeOK, Present
<1>7. CASE IngestBatch
  BY <1>7, IngestBatchType
<1>8. CASE BuildEngine
  <2>1. /\ run'.todo = packages /\ run'.pc = "resolving" /\ run'.scan = None
        /\ run'.existing = {} /\ run'.pending = run.pending /\ DOMAIN run' = DOMAIN run
    BY <1>8 DEF BuildEngine, KeysToBuild
  <2> QED
    BY <1>8, <2>1 DEF BuildEngine, storeVars, StoreTypeOK
<1>9. CASE ResolveNext
  <2>1. PICK k \in run.todo : ResolvePackage(k) /\ run' = [run EXCEPT !.todo = @ \ {k}]
    BY <1>9 DEF ResolveNext
  <2>2. edges' \subseteq EdgeRow
    BY <2>1, ResolvePackageType DEF EdgeRow, StoreTypeOK
  <2>3. /\ run'.todo = run.todo \ {k} /\ run'.pc = run.pc /\ run'.scan = run.scan
        /\ run'.existing = run.existing /\ run'.pending = run.pending /\ DOMAIN run' = DOMAIN run
    BY <2>1
  <2> QED
    BY <1>9, <2>2, <2>3 DEF ResolveNext, EdgeRow, StoreTypeOK
<1>10. CASE MarkReady
  BY <1>10 DEF MarkReady, Idle, StoreTypeOK
<1>11. CASE Crash
  <2>1. crashes' \in 0..MaxCrashes
    BY <1>11, BoundsShape DEF Crash
  <2> QED
    BY <1>11, <2>1 DEF Crash, Idle, storeVars, StoreTypeOK
<1>12. CASE UNCHANGED vars
  BY <1>12 DEF vars, StoreTypeOK
<1> QED
  BY <1>1, <1>2, <1>3, <1>4, <1>5, <1>6, <1>7, <1>8, <1>9, <1>10, <1>11, <1>12
     DEF Next, RunStep

(* The tables hold what the schema admits in every state of every build    *)
(* and resumed build, its CHECK on files included.                         *)
THEOREM TypeCorrect == Spec => []TypeOK
<1>1. TypeInv => TypeOK
  BY DEF TypeInv
<1> QED
  BY InitType, StepType, <1>1, PTL DEF Spec

----------------------------------------------------------------------------
(* A batch rewrites rows without derived rows, or takes theirs with them.  *)
LEMMA BatchKeepsPackaged ==
  ASSUME TypeInv, DerivedIsPackaged, IngestBatch
  PROVE  DerivedIsPackaged'
<1> DEFINE replaced == Batch \intersect run.existing
<1>1. /\ derived' = [p \in Path |-> IF p \in replaced THEN None ELSE derived[p]]
      /\ edges' = {e \in edges : {e.src, e.dst} \intersect replaced = {}}
      /\ packages' = packages \union {[dir |-> p.dir, name |-> files'[p].pkg] :
                                        p \in {q \in Batch : files'[q].pkg # None}}
  BY DEF IngestBatch
<1>2. ASSUME NEW p \in Path, HasPackage(DB, p), p \notin replaced
      PROVE  HasPackage(DB, p)'
  <2>1. files[p] # None
    BY <1>2 DEF HasPackage, DB
  <2>2. p \notin Batch
    BY <1>2, <2>1, BatchRows DEF TypeInv, ScanHeld, IngestBatch
  <2> QED
    BY <1>2, <2>2, BatchRows DEF HasPackage, DB
<1> HIDE DEF replaced
<1>3. \A p \in Path : derived'[p] # None => HasPackage(DB, p)'
  BY <1>1, <1>2 DEF DerivedIsPackaged
<1>4. \A e \in edges' : HasPackage(DB, e.src)'
  <2> SUFFICES ASSUME NEW e \in edges' PROVE HasPackage(DB, e.src)'
    OBVIOUS
  <2>1. e \in edges /\ e.src \notin replaced /\ e.src \in Path
    BY <1>1 DEF TypeInv, TypeOK, StoreTypeOK
  <2> QED
    BY <1>2, <2>1 DEF DerivedIsPackaged
<1>5. KeysInUse(files)' \subseteq packages'
  <2> SUFFICES ASSUME NEW p \in Path, files'[p] # None, files'[p].pkg # None
               PROVE  [dir |-> p.dir, name |-> files'[p].pkg] \in packages'
    BY DEF KeysInUse
  <2>1. CASE p \in Batch
    BY <1>1, <2>1
  <2>2. CASE p \notin Batch
    BY <1>1, <2>2, BatchRows DEF DerivedIsPackaged, KeysInUse
  <2> QED
    BY <2>1, <2>2
<1>6. derived' = [p \in Path |-> derived'[p]]
  BY <1>1
<1> QED
  BY <1>3, <1>4, <1>5, <1>6 DEF DerivedIsPackaged

----------------------------------------------------------------------------
(***************************************************************************)
(* The promise of a ready index.  A process writes only while the index is *)
(* being built, and none runs on a ready one.                              *)
(***************************************************************************)
WritesWhileBuilding ==
  /\ run.pc \in {"begun", "ingesting", "resolving"} => indexState = "building"
  /\ run.pc # "idle" => indexState # "ready"

ReadyIsCurrent ==
  indexState = "ready" =>
    ProjectionCurrent /\ AffinityCurrent /\ snapshot = SnapshotOf(files)

BuildInv ==
  /\ TypeInv /\ WritesWhileBuilding /\ DerivedIsPackaged
  /\ run.pc = "resolving" => PassInv(run.todo) /\ run.snapshot = SnapshotOf(files)
  /\ ReadyIsCurrent
  /\ ~marker

LEMMA InitBuild == Init => BuildInv
<1> SUFFICES ASSUME Init PROVE BuildInv
  OBVIOUS
<1>1. DerivedIsPackaged
  BY DEF DerivedIsPackaged, Init, NoRows, KeysInUse
<1> QED
  BY <1>1, InitType DEF BuildInv, WritesWhileBuilding, ReadyIsCurrent, Init, Idle

(* What a step that leaves the tables and the pass alone preserves. *)
LEMMA SameTables ==
  ASSUME BuildInv, UNCHANGED <<files, packages, manifest, derived, edges, snapshot, marker>>
  PROVE  /\ DerivedIsPackaged' /\ ~marker'
         /\ (indexState' = "ready" => indexState = "ready") => ReadyIsCurrent'
         /\ SnapshotOf(files)' = SnapshotOf(files)
         /\ UNCHANGED run.todo /\ PassInv(run.todo) => PassInv(run.todo)'
<1>1. DB' = DB /\ SnapshotOf(files)' = SnapshotOf(files)
  BY DEF DB, SnapshotOf
<1>2. ASSUME indexState' = "ready" => indexState = "ready"
      PROVE  ReadyIsCurrent'
  BY <1>1, <1>2 DEF BuildInv, ReadyIsCurrent, ProjectionCurrent, AffinityCurrent
<1> QED
  BY <1>1, <1>2, PassKept DEF BuildInv

LEMMA StepBuild == BuildInv /\ [Next]_vars => BuildInv'
<1> SUFFICES ASSUME BuildInv, [Next]_vars PROVE BuildInv'
  OBVIOUS
<1>a. TypeInv'
  BY StepType DEF BuildInv
<1>b. DOMAIN run = {"pc", "scan", "existing", "pending", "todo", "snapshot"}
  BY DEF BuildInv, TypeInv, RunFields
<1>1. ASSUME NEW p \in Path, Edit(p)
      PROVE  BuildInv'
  BY <1>1, <1>a, SameTables DEF Edit, storeVars, BuildInv, WritesWhileBuilding
<1>2. CASE Rebuild
  <2>1. DerivedIsPackaged'
    BY <1>2 DEF Rebuild, DerivedIsPackaged, NoRows, KeysInUse
  <2> QED
    BY <1>2, <1>a, <1>b, <2>1 DEF Rebuild, BuildInv, WritesWhileBuilding, ReadyIsCurrent
<1>3. CASE Start \/ Scan \/ Resume \/ LoadExisting
  <2>1. /\ run'.pc \in {"started", "scanned", "begun", "ingesting"}
        /\ run'.pc \in {"begun", "ingesting"} => indexState = "building"
        /\ indexState # "ready"
    BY <1>3, <1>b DEF Start, Scan, Resume, LoadExisting, BuildInv, WritesWhileBuilding
  <2>2. UNCHANGED storeVars
    BY <1>3 DEF Start, Scan, Resume, LoadExisting
  <2> QED
    BY <1>a, <2>1, <2>2, SameTables DEF storeVars, BuildInv, WritesWhileBuilding
<1>4. CASE BeginBuild
  BY <1>4, <1>a, <1>b, SameTables DEF BeginBuild, BuildInv, WritesWhileBuilding
<1>5. CASE IngestBatch
  <2>1. DerivedIsPackaged'
    BY <1>5, BatchKeepsPackaged DEF BuildInv
  <2>2. run'.pc = "ingesting" /\ run.pc = "ingesting" /\ UNCHANGED <<indexState, marker>>
    BY <1>5, <1>b DEF IngestBatch
  <2> QED
    BY <1>a, <2>1, <2>2 DEF BuildInv, WritesWhileBuilding, ReadyIsCurrent
<1>6. CASE BuildEngine
  <2>1. DerivedIsPackaged' /\ PassInv(packages)'
    BY <1>6, PassStart DEF BuildInv, BuildEngine, storeVars
  <2>2. /\ run'.pc = "resolving" /\ run.pc = "ingesting" /\ UNCHANGED <<indexState, marker>>
        /\ run'.todo = packages' /\ run'.snapshot = SnapshotOf(files)'
    BY <1>6, <1>b DEF BuildEngine, storeVars, KeysToBuild, SnapshotOf
  <2> QED
    BY <1>a, <2>1, <2>2 DEF BuildInv, WritesWhileBuilding, ReadyIsCurrent
<1>7. CASE ResolveNext
  <2>1. PICK k \in run.todo : /\ IsFirst(k, run.todo) /\ ResolvePackage(k)
                              /\ run' = [run EXCEPT !.todo = @ \ {k}]
    BY <1>7 DEF ResolveNext
  <2>2. /\ run'.pc = "resolving" /\ run.pc = "resolving"
        /\ run'.todo = run.todo \ {k} /\ run'.snapshot = run.snapshot
        /\ UNCHANGED <<files, packages, manifest, indexState, marker>>
    BY <1>7, <1>b, <2>1 DEF ResolveNext
  <2>3. DerivedIsPackaged' /\ PassInv(run.todo)'
    BY <2>1, <2>2, PassStep, ResolveKeepsPackaged DEF BuildInv, TypeInv, TypeOK
  <2>4. SnapshotOf(files)' = SnapshotOf(files)
    BY <2>2 DEF SnapshotOf
  <2> QED
    BY <1>a, <2>2, <2>3, <2>4 DEF BuildInv, WritesWhileBuilding, ReadyIsCurrent
<1>8. CASE MarkReady
  <2>1. UNCHANGED <<files, packages, manifest, derived, edges, marker>> /\ run' = Idle
    BY <1>8 DEF MarkReady
  <2>2. ProjectionCurrent /\ AffinityCurrent /\ snapshot' = SnapshotOf(files)
    BY <1>8, PassDone DEF MarkReady, BuildInv, TypeInv, TypeOK
  <2>3. DB' = DB /\ SnapshotOf(files)' = SnapshotOf(files) /\ KeysInUse(files)' = KeysInUse(files)
    BY <2>1 DEF DB, SnapshotOf, KeysInUse
  <2>4. ReadyIsCurrent'
    BY <2>1, <2>2, <2>3 DEF ReadyIsCurrent, ProjectionCurrent, AffinityCurrent
  <2>5. DerivedIsPackaged'
    BY <2>1, <2>3 DEF BuildInv, DerivedIsPackaged
  <2> QED
    BY <1>a, <2>1, <2>4, <2>5 DEF BuildInv, WritesWhileBuilding, Idle
<1>9. CASE Crash
  BY <1>9, <1>a, SameTables DEF Crash, storeVars, BuildInv, WritesWhileBuilding, Idle
<1>10. CASE UNCHANGED vars
  BY <1>10, <1>a, SameTables DEF vars, BuildInv, WritesWhileBuilding
<1> QED
  BY <1>1, <1>2, <1>3, <1>4, <1>5, <1>6, <1>7, <1>8, <1>9, <1>10 DEF Next, RunStep

----------------------------------------------------------------------------
(***************************************************************************)
(* Refinement of the lifecycle.                                            *)
(***************************************************************************)
LEMMA InitRefines == Init => Lifecycle!Init
  BY DEF Init, Lifecycle!Init

(* Claiming begins, ingesting and deriving build, MarkReady publishes,     *)
(* --rebuild discards; the other steps leave the abstract state alone.     *)
LEMMA StepRefines == BuildInv /\ [Next]_vars => [Lifecycle!Next]_(Lifecycle!lifecycle)
<1> SUFFICES ASSUME BuildInv, [Next]_vars
             PROVE  [Lifecycle!Next]_(Lifecycle!lifecycle)
  OBVIOUS
<1>a. ~marker /\ WritesWhileBuilding
  BY DEF BuildInv
<1>1. CASE UNCHANGED storeVars
  BY <1>1 DEF storeVars, SnapshotOf, Lifecycle!lifecycle
<1>2. CASE BeginBuild
  BY <1>2, <1>a DEF BeginBuild, SnapshotOf, Lifecycle!Next, Lifecycle!Begin
<1>3. CASE IngestBatch
  BY <1>3, <1>a DEF IngestBatch, WritesWhileBuilding, Lifecycle!Next, Lifecycle!Build
<1>4. CASE ResolveNext
  BY <1>4, <1>a DEF ResolveNext, WritesWhileBuilding, Lifecycle!Next, Lifecycle!Build
<1>5. CASE MarkReady
  <2>1. run.snapshot = SnapshotOf(files)
    BY <1>5 DEF MarkReady, BuildInv
  <2>2. /\ snapshot' = SnapshotOf(files) /\ indexState = "building" /\ indexState' = "ready"
        /\ UNCHANGED <<files, packages, manifest, derived, edges, marker>>
    BY <1>5, <2>1 DEF MarkReady
  <2>3. SnapshotOf(files)' = SnapshotOf(files)
    BY <2>2 DEF SnapshotOf
  <2> QED
    BY <1>a, <2>2, <2>3 DEF Lifecycle!Next, Lifecycle!Publish
<1>6. CASE Rebuild
  BY <1>6 DEF Rebuild, Lifecycle!Next, Lifecycle!Discard
<1>7. ASSUME NEW p \in Path, Edit(p) PROVE UNCHANGED storeVars
  BY <1>7 DEF Edit
<1>8. CASE Start \/ Scan \/ Resume \/ LoadExisting \/ BuildEngine \/ Crash
  BY <1>1, <1>8 DEF Start, Scan, Resume, LoadExisting, BuildEngine, Crash
<1>9. CASE UNCHANGED vars
  BY <1>1, <1>9 DEF vars, storeVars
<1> QED
  BY <1>1, <1>2, <1>3, <1>4, <1>5, <1>6, <1>7, <1>8, <1>9 DEF Next, RunStep

(* A build, however often it dies and is joined, is one claim of an empty  *)
(* index followed by one publication of the rows then there, and no row    *)
(* moves after it.                                                         *)
THEOREM BuildRefinesLifecycle == Spec => ImplementsLifecycle
<1>1. Spec => []BuildInv
  BY InitBuild, StepBuild, PTL DEF Spec
<1>2. Init /\ [][Next]_vars /\ []BuildInv
        => Lifecycle!Init /\ [][Lifecycle!Next]_(Lifecycle!lifecycle)
  BY InitRefines, StepRefines, PTL
<1> QED
  BY <1>1, <1>2, PTL DEF Spec, ImplementsLifecycle, Lifecycle!Spec

----------------------------------------------------------------------------
(***************************************************************************)
(* The doctor.                                                             *)
(***************************************************************************)
(* A row with a package is the row of a file that was read. *)
LEMMA BatchFacts ==
  ASSUME TypeInv, PackagedHaveFacts, IngestBatch
  PROVE  PackagedHaveFacts'
<1> SUFFICES ASSUME NEW p \in Path, HasPackage(DB, p)'
             PROVE  files'[p].facts \in Text
  BY DEF PackagedHaveFacts
<1>1. PICK late \in SUBSET (MayBeLate \intersect Batch) :
        files' = [q \in Path |-> IF q \in Batch
                                 THEN ColdRow(q, run.scan[q], disk[q], q \in late)
                                 ELSE files[q]]
  BY DEF IngestBatch
<1>2. CASE p \in Batch
  <2>1. files'[p] = ColdRow(p, run.scan[p], disk[p], p \in late) /\ files'[p].pkg # None
    BY <1>1, <1>2 DEF HasPackage, DB
  <2>2. disk[p] \in Content
    BY DEF TypeInv, TypeOK, StoreTypeOK, Content
  <2> QED
    BY <2>1, <2>2 DEF ColdRow, SkipRow, UnreadableRow, ParsedRow, Row, IsReadable, Content
<1>3. CASE p \notin Batch
  BY <1>1, <1>3 DEF PackagedHaveFacts, HasPackage, DB
<1> QED
  BY <1>2, <1>3

LEMMA InitFacts == Init => PackagedHaveFacts
  BY DEF Init, NoRows, PackagedHaveFacts, HasPackage, DB

LEMMA StepFacts == TypeInv /\ PackagedHaveFacts /\ [Next]_vars => PackagedHaveFacts'
<1> SUFFICES ASSUME TypeInv, PackagedHaveFacts, [Next]_vars PROVE PackagedHaveFacts'
  OBVIOUS
<1>1. CASE IngestBatch
  BY <1>1, BatchFacts
<1>2. CASE Rebuild
  BY <1>2 DEF Rebuild, NoRows, PackagedHaveFacts, HasPackage, DB
<1>3. CASE UNCHANGED files
  BY <1>3 DEF PackagedHaveFacts, HasPackage, DB
<1>4. ASSUME NEW p \in Path, Edit(p) PROVE UNCHANGED files
  BY <1>4 DEF Edit, storeVars
<1>5. CASE \/ Start \/ Scan \/ BeginBuild \/ Resume \/ LoadExisting \/ BuildEngine \/ ResolveNext
           \/ MarkReady \/ Crash \/ UNCHANGED vars
  BY <1>3, <1>5 DEF Start, Scan, BeginBuild, Resume, LoadExisting, BuildEngine, ResolveNext,
                    MarkReady, Crash, storeVars, vars
<1> QED
  BY <1>1, <1>2, <1>3, <1>4, <1>5 DEF Next, RunStep

LEMMA ReadyHolds == BuildInv /\ PackagedHaveFacts => ReadyIsDerived
<1> SUFFICES ASSUME BuildInv, PackagedHaveFacts, indexState = "ready"
             PROVE  Finished /\ DB \in BuildFacts
  BY DEF ReadyIsDerived
<1>1. StoreTypeOK /\ ~marker /\ DerivedIsPackaged /\ ReadyIsCurrent
  BY DEF BuildInv, TypeInv, TypeOK
<1>2. Finished
  BY <1>1, CurrentIsFinished DEF ReadyIsCurrent
<1>3. DB \in BuildFacts
  BY <1>1 DEF StoreTypeOK, BuildFacts, DB, DerivedIsPackaged, PackagedHaveFacts
<1> QED
  BY <1>2, <1>3

(* ADR-021 D3: a ready index carries the derived rows and edges its own    *)
(* facts give, the test pairs included, and the snapshot id of those       *)
(* facts, whatever batches and packages dead attempts have left behind;    *)
(* and the package of every row is known and its facts are stored.         *)
THEOREM ReadyCorrect == Spec => []ReadyIsDerived
<1>1. BuildInv => TypeInv
  BY DEF BuildInv
<1> QED
  BY <1>1, InitBuild, InitFacts, StepBuild, StepFacts, ReadyHolds, PTL DEF Spec

(***************************************************************************)
(* The hand-over.  An update is a process of its own, on any tree, over    *)
(* the facts of any build, and has made no step yet: its bounds are those  *)
(* of the build.                                                           *)
(***************************************************************************)
NoUpdate ==
  [pc |-> "idle", scan |-> None, torn |-> FALSE, added |-> {}, modified |-> {},
   deleted |-> {}, manifestChanged |-> FALSE, preKeys |-> {}, todo |-> {},
   packageSetChanged |-> FALSE]

Update == INSTANCE IncrementalUpdate WITH
  Starts     <- [tree : [Path -> Content], build : BuildFacts],
  MaxPending <- MaxEdits,
  run        <- NoUpdate,
  edits      <- 0,
  crashes    <- 0

(* What a build has published is an index the next `contextslice index`    *)
(* may start from, whichever build that was and wherever the tree is by    *)
(* then (main.rs, run_index: a ready index is updated): all that is proved *)
(* of updates holds of the updates of every index this build makes.        *)
THEOREM UpdateMayFollow == Spec => [](indexState = "ready" => Update!Init)
<1>1. TypeOK /\ ReadyIsDerived => (indexState = "ready" => Update!Init)
  <2> SUFFICES ASSUME TypeOK, ReadyIsDerived, indexState = "ready" PROVE Update!Init
    OBVIOUS
  <2>1. Finished /\ DB \in BuildFacts /\ disk \in [Path -> Content]
    BY DEF ReadyIsDerived, TypeOK, StoreTypeOK, Content
  <2> DEFINE start == [tree |-> disk, build |-> DB]
  <2>2. /\ start \in [tree : [Path -> Content], build : BuildFacts]
        /\ disk = start.tree /\ files = start.build.files
        /\ packages = start.build.packages /\ manifest = start.build.manifest
    BY <2>1 DEF DB
  <2>3. Update!Finished
    BY <2>1 DEF
      HasPackage, Update!HasPackage, KeyOf, Update!KeyOf, FilesOf,
      Update!FilesOf, NamesIn, Update!NamesIn, NonTestPackage,
      Update!NonTestPackage, ModulePath, Update!ModulePath, ResolveImport,
      Update!ResolveImport, ImportedFiles, Update!ImportedFiles, OwnHits,
      Update!OwnHits, QualifiedHits, Update!QualifiedHits, BindTargets,
      Update!BindTargets, ProjectFile, Update!ProjectFile, Edge, Update!Edge,
      OwnEdges, Update!OwnEdges, AffinityTargets, Update!AffinityTargets,
      AffinityEdges, Update!AffinityEdges, Packaged, Update!Packaged,
      FreshDerived, Update!FreshDerived, FreshOwnEdges, Update!FreshOwnEdges,
      FreshAffinity, Update!FreshAffinity, FreshEdges, Update!FreshEdges, DB,
      Update!DB, SnapshotOf, Update!SnapshotOf, Finished, Update!Finished
  <2> HIDE DEF start
  <2> QED
    BY <2>2, <2>3 DEF Update!Init, Update!Idle, NoUpdate
<1> QED
  BY <1>1, TypeCorrect, ReadyCorrect, PTL

(* However often the build died, the doctor has nothing to say of what it  *)
(* publishes but that extractions timed out: the files rows and packages   *)
(* rows that stay behind of what is gone are no damage (doctor.rs).        *)
THEOREM BuildHealthy == Spec => []HealthyWhenReady
<1>2. BuildInv /\ PackagedHaveFacts => HealthyWhenReady
  <2> SUFFICES ASSUME BuildInv, PackagedHaveFacts, indexState = "ready", ~marker
               PROVE  Check \subseteq {Warning("PARSE_ANOMALIES")}
    BY DEF HealthyWhenReady
  <2>1. ProjectionCurrent /\ AffinityCurrent /\ snapshot = SnapshotOf(files)
    BY DEF BuildInv, ReadyIsCurrent
  <2>2. derived = FreshDerived(DB) /\ edges = FreshEdges(DB)
    BY <2>1 DEF ProjectionCurrent, AffinityCurrent, FreshEdges
  <2>3. RowsDerived({})
    <3>1. ASSUME NEW p \in Path, HasPackage(DB, p)
          PROVE  derived[p] # None
      <4>1. DB.files[p].facts \in Text /\ derived[p] = ProjectFile(DB, p)
        BY <2>2, <3>1 DEF FreshDerived, PackagedHaveFacts, DB
      <4> QED
        BY <4>1, ProjectFileType
    <3> QED
      BY <3>1 DEF RowsDerived, ResolvedFiles, Resolved
  <2>4. StoreTypeOK /\ KeysInUse(files) \subseteq packages
    BY DEF BuildInv, TypeInv, TypeOK, DerivedIsPackaged
  <2> QED
    BY <2>1, <2>2, <2>3, <2>4, FreshNamesRows, Healthy
<1>3. BuildInv => TypeInv
  BY DEF BuildInv
<1> QED
  BY <1>2, <1>3, InitBuild, InitFacts, StepBuild, StepFacts, PTL DEF Spec

----------------------------------------------------------------------------
(***************************************************************************)
(* Resumption.  Unless the tree moved under some attempt, a row with a     *)
(* hash is the row of the text of that hash, however old it is, and so it  *)
(* is enough to trust a row whose hash is the scanned one.                 *)
(***************************************************************************)
RowOf(p, content) == ColdRow(p, Inspect(content), content, FALSE)

RowMatches(p, row) ==
  IF row.hash = None
  THEN row.facts = None /\ row.pkg = None
  ELSE /\ Inspect(row.hash).hash = row.hash
       /\ row.skip = Inspect(row.hash).skip
       /\ row.status # "timeout" =>
            row.facts = RowOf(p, row.hash).facts /\ row.pkg = RowOf(p, row.hash).pkg

(* The manifest row is the copy of the go.mod the files table has as read. *)
StoredManifests ==
  {p \in Manifests : files[p] # None /\ files[p].hash # None /\ files[p].skip = None}

RowsMatch == \A p \in Path : files[p] # None => RowMatches(p, files[p])

ManifestMatches ==
  /\ StoredManifests = {} => manifest = None
  /\ \A p \in StoredManifests : manifest = files[p].hash

(* The row of a file has the hash of what is on disk. *)
Carried(p) == disk[p] # None => files[p] # None /\ files[p].hash = Inspect(disk[p]).hash

Unraced ==
  /\ RowsMatch /\ ManifestMatches
  /\ run.pc \notin {"idle", "started"} => tree = "still"
  /\ run.pc \in {"scanned", "begun", "ingesting"} => run.scan = ScanOf(disk)
  /\ run.pc = "ingesting" => \A p \in Path \ run.pending : Carried(p)
  /\ run.pc = "resolving" \/ (indexState = "ready" /\ tree = "still") => \A p \in Path : Carried(p)

ResumeInv == BuildInv /\ (tree # "raced" => Unraced)

(* A row written from the file that was scanned matches it. *)
LEMMA ColdRowMatches ==
  ASSUME NEW p \in Path, NEW c \in Content, c # None, NEW late, NEW row,
         row = ColdRow(p, Inspect(c), c, late)
  PROVE  /\ row.hash = Inspect(c).hash /\ row.skip = Inspect(c).skip
         /\ RowMatches(p, row)
<1>1. CASE c = Unreadable
  <2>1. row = Row(None, "unreadable", "skipped", None, None)
    BY <1>1, UnreadableShape, NoneIsNoLabel DEF ColdRow, SkipRow, Inspect, SkipReason
  <2> QED
    BY <1>1, <2>1 DEF RowMatches, Row, Inspect
<1>2. CASE c # Unreadable
  <2>1. c \in Text /\ IsReadable(c)
    BY <1>2 DEF Content, IsReadable
  <2>2. c.band \in Band
    BY <2>1, TextShape
  <2>3. CASE c.band = "too_large"
    <3>1. Inspect(c) = [hash |-> None, skip |-> "too_large"] /\ "too_large" # None
      BY <1>2, <2>3, NoneIsNoLabel DEF Inspect, SkipReason
    <3>2. row = Row(None, "too_large", "skipped", None, None)
      BY <3>1 DEF ColdRow, SkipRow
    <3> QED
      BY <3>1, <3>2 DEF RowMatches, Row
  <2>4. CASE c.band = "hash_only"
    <3>1. Inspect(c) = [hash |-> c, skip |-> "parse_skipped"] /\ "parse_skipped" # None
      BY <1>2, <2>4, NoneIsNoLabel DEF Inspect, SkipReason
    <3>2. row = Row(c, "parse_skipped", "skipped", None, None) /\ RowOf(p, c) = row
      BY <3>1 DEF ColdRow, SkipRow, RowOf
    <3> QED
      BY <3>1, <3>2 DEF RowMatches, Row
  <2>5. CASE c.band = "parse"
    <3>1. Inspect(c) = [hash |-> c, skip |-> None]
      BY <1>2, <2>5 DEF Inspect
    <3>2. row.hash = c /\ row.skip = None /\ (row.status # "timeout" => row = RowOf(p, c))
      BY <2>1, <3>1 DEF ColdRow, ParsedRow, Row, RowOf
    <3> QED
      BY <3>1, <3>2 DEF RowMatches
  <2> QED
    BY <2>2, <2>3, <2>4, <2>5 DEF Band
<1> QED
  BY <1>1, <1>2

(* A batch of a build nobody disturbed since its scan. *)
LEMMA BatchMatches ==
  ASSUME ResumeInv, IngestBatch, tree # "raced"
  PROVE  RowsMatch' /\ ManifestMatches' /\ \A p \in Path \ run'.pending : Carried(p)'
<1>a. /\ TypeInv /\ Unraced /\ run.pc = "ingesting"
      /\ run.scan = ScanOf(disk) /\ \A p \in Path \ run.pending : Carried(p)
  BY DEF ResumeInv, BuildInv, Unraced, IngestBatch
<1>b. disk' = disk /\ run'.pending = run.pending \ Batch
  BY <1>a DEF IngestBatch, TypeInv, RunFields
<1>1. PICK late \in SUBSET (MayBeLate \intersect Batch) :
        files' = [p \in Path |-> IF p \in Batch
                                 THEN ColdRow(p, run.scan[p], disk[p], p \in late)
                                 ELSE files[p]]
  BY DEF IngestBatch
<1>2. ASSUME NEW p \in Batch
      PROVE  /\ p \in Path /\ disk[p] # None /\ files'[p] # None
             /\ run.scan[p] = Inspect(disk[p])
             /\ files'[p].hash = Inspect(disk[p]).hash
             /\ files'[p].skip = Inspect(disk[p]).skip
             /\ RowMatches(p, files'[p])
  <2>1. p \in Path /\ run.scan[p] # None /\ files'[p] \in FileRow
    BY <1>a, BatchRows DEF TypeInv, ScanHeld
  <2>2. run.scan[p] = Inspect(disk[p]) /\ disk[p] # None
    BY <1>a, <2>1 DEF ScanOf, Inspect
  <2>3. disk[p] \in Content
    BY <1>a, <2>1 DEF TypeInv, TypeOK, StoreTypeOK, Content
  <2>4. files'[p] = ColdRow(p, Inspect(disk[p]), disk[p], p \in late)
    BY <1>1, <2>1, <2>2
  <2> QED
    BY <2>1, <2>2, <2>3, <2>4, ColdRowMatches, NoneIsNoRow
<1>3. \A p \in Path \ Batch : files'[p] = files[p]
  BY <1>a, BatchRows
<1>4. RowsMatch'
  <2> SUFFICES ASSUME NEW p \in Path, files'[p] # None
               PROVE  RowMatches(p, files'[p])
    BY DEF RowsMatch, RowMatches
  <2> QED
    BY <1>a, <1>2, <1>3 DEF Unraced, RowsMatch
<1>5. ASSUME NEW p \in Path \ run'.pending
      PROVE  Carried(p)'
  <2>1. CASE p \in Batch
    BY <1>b, <1>2, <2>1 DEF Carried
  <2>2. CASE p \notin Batch
    BY <1>a, <1>b, <1>3, <2>2 DEF Carried
  <2> QED
    BY <2>1, <2>2
<1>6. ManifestMatches'
  <2>1. manifest' = ManifestAfterBatch
    BY DEF IngestBatch
  <2>2. CASE Manifests \intersect Batch = {}
    <3>1. manifest' = manifest
      BY <2>1, <2>2 DEF ManifestAfterBatch
    <3>2. \A p \in Manifests : p \in Path /\ files'[p] = files[p]
      BY <1>3, <2>2 DEF Manifests
    <3>3. StoredManifests' = StoredManifests
      BY <3>2 DEF StoredManifests
    <3> QED
      BY <1>a, <3>1, <3>2, <3>3 DEF Unraced, ManifestMatches, StoredManifests
  <2>3. ASSUME NEW m \in Manifests, m \in Batch
        PROVE  ManifestMatches'
    <3>1. Manifests = {m} /\ (CHOOSE p \in Manifests : TRUE) = m
      BY <2>3, OneRootManifest
    <3>2. disk[m] \in Content
      BY <1>2, <2>3, <1>a DEF TypeInv, TypeOK, StoreTypeOK, Content
    <3>3. CASE run.scan[m].skip = None
      <4>1. IsReadable(disk[m]) /\ Inspect(disk[m]).hash = disk[m]
        <5>1. disk[m] # None /\ Inspect(disk[m]).skip = None
          BY <1>2, <2>3, <3>3
        <5>2. disk[m] # Unreadable
          BY <5>1, NoneIsNoLabel DEF Inspect, SkipReason
        <5>3. disk[m] \in Text /\ disk[m].band \in Band
          BY <3>2, <5>1, <5>2, TextShape DEF Content
        <5>4. disk[m].band # "too_large"
          BY <5>1, <5>2, NoneIsNoLabel DEF Inspect, SkipReason
        <5> QED
          BY <5>1, <5>2, <5>3, <5>4 DEF IsReadable, Inspect, Band
      <4>2. manifest' = disk[m]
        BY <2>1, <2>3, <3>1, <3>3, <4>1 DEF ManifestAfterBatch
      <4>3. files'[m].hash = disk[m] /\ files'[m].skip = None /\ disk[m] # None /\ files'[m] # None
        BY <1>2, <2>3, <3>3, <4>1
      <4> QED
        BY <3>1, <4>2, <4>3 DEF ManifestMatches, StoredManifests
    <3>4. CASE run.scan[m].skip # None
      <4>1. StoredManifests' = {}
        BY <1>2, <2>3, <3>1, <3>4 DEF StoredManifests
      <4>2. manifest' = None
        <5>1. CASE m \in run.existing
          BY <2>1, <2>3, <3>1, <3>4, <5>1 DEF ManifestAfterBatch
        <5>2. CASE m \notin run.existing
          <6>1. files[m] = None
            BY <1>a, <2>3, <5>2, BatchRows DEF TypeInv, ScanHeld
          <6>2. manifest = None
            BY <1>a, <3>1, <6>1 DEF Unraced, ManifestMatches, StoredManifests
          <6>3. manifest' = manifest
            BY <2>1, <3>1, <3>4, <5>2 DEF ManifestAfterBatch
          <6> QED
            BY <6>2, <6>3
        <5> QED
          BY <5>1, <5>2
      <4> QED
        BY <4>1, <4>2 DEF ManifestMatches
    <3> QED
      BY <3>3, <3>4
  <2> QED
    BY <2>2, <2>3
<1> QED
  BY <1>4, <1>5, <1>6

LEMMA InitResume == Init => ResumeInv
<1> SUFFICES ASSUME Init PROVE ResumeInv
  OBVIOUS
<1>1. RowsMatch /\ ManifestMatches
  <2>1. \A p \in Path : files[p] = None
    BY DEF Init, NoRows
  <2>2. StoredManifests = {} /\ manifest = None
    BY <2>1 DEF Init, StoredManifests, Manifests
  <2> QED
    BY <2>1, <2>2 DEF RowsMatch, ManifestMatches
<1>2. run.pc = "idle" /\ indexState = "empty"
  BY DEF Init, Idle
<1> QED
  BY <1>1, <1>2, InitBuild DEF ResumeInv, Unraced

LEMMA StepResume == ResumeInv /\ [Next]_vars => ResumeInv'
<1> SUFFICES ASSUME ResumeInv, [Next]_vars, tree' # "raced"
             PROVE  Unraced'
  BY StepBuild DEF ResumeInv
<1>a. /\ TypeInv /\ WritesWhileBuilding
      /\ DOMAIN run = {"pc", "scan", "existing", "pending", "todo", "snapshot"}
  BY DEF ResumeInv, BuildInv, TypeInv, RunFields
<1>b. ASSUME UNCHANGED <<files, manifest>>, Unraced
      PROVE  RowsMatch' /\ ManifestMatches'
  BY <1>b DEF Unraced, RowsMatch, RowMatches, ManifestMatches, StoredManifests
<1>c. ASSUME UNCHANGED <<disk, files>>
      PROVE  /\ ScanOf(disk)' = ScanOf(disk)
             /\ \A p : Carried(p) => Carried(p)'
  BY <1>c DEF ScanOf, Carried
<1>1. ASSUME NEW p \in Path, Edit(p)
      PROVE  Unraced'
  <2>1. /\ run.pc \in {"idle", "started"} /\ tree # "raced" /\ tree' = "moved"
        /\ run' = run /\ UNCHANGED <<files, manifest>>
    BY <1>1 DEF Edit, storeVars
  <2>2. RowsMatch' /\ ManifestMatches'
    BY <1>b, <2>1 DEF ResumeInv
  <2> QED
    BY <2>1, <2>2 DEF Unraced
<1>2. CASE Rebuild
  <2>1. RowsMatch' /\ ManifestMatches'
    <3>1. \A p \in Path : files'[p] = None
      BY <1>2 DEF Rebuild, NoRows
    <3>2. StoredManifests' = {} /\ manifest' = None
      BY <1>2, <3>1 DEF Rebuild, StoredManifests, Manifests
    <3> QED
      BY <3>1, <3>2 DEF RowsMatch, ManifestMatches
  <2> QED
    BY <1>2, <1>a, <2>1 DEF Rebuild, Unraced
<1>3. CASE Start
  BY <1>3, <1>a, <1>b DEF Start, storeVars, ResumeInv, Unraced
<1>4. CASE Scan
  <2>1. /\ run'.pc = "scanned" /\ run'.scan = ScanOf(disk) /\ tree' = "still" /\ tree # "raced"
        /\ UNCHANGED <<disk, files, manifest, indexState>> /\ run.pc = "started"
    BY <1>4, <1>a DEF Scan, storeVars
  <2> QED
    BY <1>a, <1>b, <1>c, <2>1 DEF ResumeInv, Unraced, WritesWhileBuilding
<1>5. CASE BeginBuild \/ Resume
  <2>1. /\ run.pc = "scanned" /\ run'.pc = "begun" /\ run'.scan = run.scan
        /\ UNCHANGED <<disk, files, manifest, tree>> /\ indexState' # "ready"
    BY <1>5, <1>a DEF BeginBuild, Resume, storeVars
  <2> QED
    BY <1>b, <1>c, <2>1 DEF ResumeInv, Unraced
<1>6. CASE LoadExisting
  <2>1. /\ run.pc = "begun" /\ run'.pc = "ingesting" /\ run'.scan = run.scan
        /\ run'.pending = {p \in Path : run.scan[p] # None /\ ~Trusted(p)}
        /\ UNCHANGED <<disk, files, manifest, tree, indexState>>
    BY <1>6, <1>a DEF LoadExisting, storeVars
  <2>2. Unraced /\ run.scan = ScanOf(disk) /\ tree = "still" /\ indexState # "ready"
    BY <1>a, <2>1 DEF ResumeInv, Unraced, WritesWhileBuilding
  <2>3. ASSUME NEW p \in Path \ run'.pending
        PROVE  Carried(p)
    <3> SUFFICES ASSUME disk[p] # None PROVE files[p] # None /\ files[p].hash = Inspect(disk[p]).hash
      BY DEF Carried
    <3>1. run.scan[p] = Inspect(disk[p])
      BY <2>2 DEF ScanOf
    <3>2. Inspect(disk[p]) \in ScanEntry
      BY <1>a, InspectType DEF TypeInv, TypeOK, StoreTypeOK, Content
    <3>3. Trusted(p)
      BY <2>1, <3>1, <3>2, NoneIsNoEntry
    <3> QED
      BY <3>1, <3>3 DEF Trusted
  <2> QED
    BY <1>b, <1>c, <2>1, <2>2, <2>3 DEF Unraced
<1>7. CASE IngestBatch
  <2>1. /\ run.pc = "ingesting" /\ run'.pc = "ingesting" /\ run'.scan = run.scan
        /\ UNCHANGED <<disk, tree, indexState>>
    BY <1>7, <1>a DEF IngestBatch
  <2>2. RowsMatch' /\ ManifestMatches' /\ \A p \in Path \ run'.pending : Carried(p)'
    BY <1>7, <2>1, BatchMatches
  <2>3. run.scan = ScanOf(disk) /\ tree = "still" /\ indexState # "ready"
    BY <1>a, <2>1 DEF ResumeInv, Unraced, WritesWhileBuilding
  <2> QED
    BY <2>1, <2>2, <2>3 DEF Unraced, ScanOf
<1>8. CASE BuildEngine
  <2>1. /\ run.pc = "ingesting" /\ run.pending = {} /\ run'.pc = "resolving"
        /\ UNCHANGED <<disk, files, manifest, tree, indexState>>
    BY <1>8, <1>a DEF BuildEngine, storeVars
  <2>2. Unraced /\ tree = "still" /\ \A p \in Path : Carried(p)
    BY <2>1 DEF ResumeInv, Unraced
  <2> QED
    BY <1>b, <1>c, <2>1, <2>2 DEF Unraced
<1>9. CASE ResolveNext \/ MarkReady
  <2>1. /\ run.pc = "resolving" /\ run'.pc \in {"idle", "resolving"}
        /\ UNCHANGED <<disk, files, manifest, tree>>
    BY <1>9, <1>a DEF ResolveNext, MarkReady, Idle
  <2>2. Unraced /\ tree = "still" /\ \A p \in Path : Carried(p)
    BY <2>1 DEF ResumeInv, Unraced
  <2> QED
    BY <1>b, <1>c, <2>1, <2>2 DEF Unraced
<1>10. CASE Crash
  <2>1. /\ run.pc # "idle" /\ run'.pc = "idle" /\ indexState' # "ready"
        /\ UNCHANGED <<files, manifest, tree>>
    BY <1>10, <1>a DEF Crash, Idle, storeVars, WritesWhileBuilding
  <2> QED
    BY <1>b, <2>1 DEF ResumeInv, Unraced
<1>11. CASE UNCHANGED vars
  BY <1>11, <1>b, <1>c DEF vars, ResumeInv, Unraced
<1> QED
  BY <1>1, <1>2, <1>3, <1>4, <1>5, <1>6, <1>7, <1>8, <1>9, <1>10, <1>11 DEF Next, RunStep

(* Resuming re-ingests what changed (facts.rs, ingest_facts): a build that *)
(* is published with the tree as it was scanned has, of every file there,  *)
(* the hash, the package and the facts of a fresh build, but for a parse   *)
(* that timed out, whatever was trusted of however many dead attempts.     *)
THEOREM ResumeCorrect == Spec => []ResumeReingests
<1>1. ResumeInv => ResumeReingests
  <2> SUFFICES ASSUME ResumeInv, indexState = "ready", tree = "still",
                      NEW p \in Path, disk[p] # None
               PROVE  /\ files[p] # None
                      /\ files[p].hash = Inspect(disk[p]).hash
                      /\ files[p].status # "timeout" =>
                           /\ files[p].facts = FreshRows(disk)[p].facts
                           /\ files[p].pkg = FreshRows(disk)[p].pkg
    BY DEF ResumeReingests
  <2>1. /\ files[p] # None /\ files[p].hash = Inspect(disk[p]).hash
        /\ RowMatches(p, files[p])
    BY DEF ResumeInv, Unraced, RowsMatch, Carried
  <2>2. FreshRows(disk)[p] = RowOf(p, disk[p]) /\ disk[p] \in Content
    BY DEF FreshRows, RowOf, ResumeInv, BuildInv, TypeInv, TypeOK, StoreTypeOK, Content
  <2>3. CASE Inspect(disk[p]).hash = None
    <3>1. RowOf(p, disk[p]).hash = None /\ RowMatches(p, RowOf(p, disk[p]))
      BY <2>2, <2>3, ColdRowMatches DEF RowOf
    <3> QED
      BY <2>1, <2>2, <2>3, <3>1 DEF RowMatches
  <2>4. CASE Inspect(disk[p]).hash # None
    <3>1. Inspect(disk[p]).hash = disk[p]
      <4>1. disk[p] # Unreadable
        BY <2>4 DEF Inspect
      <4>2. disk[p].band \in Band /\ disk[p].band # "too_large"
        BY <2>2, <2>4, <4>1, TextShape DEF Inspect, Content
      <4> QED
        BY <4>1, <4>2 DEF Inspect, Band
    <3> QED
      BY <2>1, <2>2, <2>4, <3>1 DEF RowMatches
  <2> QED
    BY <2>1, <2>3, <2>4
<1> QED
  BY <1>1, InitResume, StepResume, PTL DEF Spec

(* And the manifest every import is resolved by is the go.mod of the tree: *)
(* the copy of a dead attempt goes when the file can no longer be read.    *)
THEOREM ManifestCorrect == Spec => []ResumeKeepsManifest
<1>1. ResumeInv => ResumeKeepsManifest
  <2> SUFFICES ASSUME ResumeInv, indexState = "ready", tree = "still",
                      \A p \in Manifests : disk[p] # None
               PROVE  manifest = FreshManifest(disk)
    BY DEF ResumeKeepsManifest
  <2>1. ManifestMatches /\ RowsMatch /\ \A p \in Path : Carried(p)
    BY DEF ResumeInv, Unraced
  <2>2. CASE Manifests = {}
    BY <2>1, <2>2 DEF FreshManifest, ManifestMatches, StoredManifests
  <2>3. ASSUME NEW m \in Manifests
        PROVE  manifest = FreshManifest(disk)
    <3>1. Manifests = {m} /\ (CHOOSE p \in Manifests : TRUE) = m /\ m \in Path
      BY <2>3, OneRootManifest DEF Manifests
    <3>2. /\ disk[m] \in Content /\ disk[m] # None
          /\ files[m] # None /\ files[m].hash = Inspect(disk[m]).hash /\ RowMatches(m, files[m])
      BY <2>1, <2>3, <3>1 DEF Carried, RowsMatch, ResumeInv, BuildInv, TypeInv, TypeOK, StoreTypeOK,
                              Content
    <3>3. CASE Inspect(disk[m]).hash = None
      <4>1. StoredManifests = {}
        BY <3>1, <3>2, <3>3 DEF StoredManifests
      <4>2. ~(IsReadable(disk[m]) /\ Inspect(disk[m]).skip = None)
        BY <3>2, <3>3, InspectType, NoneIsNoLabel DEF ScanEntry, SkipReason
      <4> QED
        BY <2>1, <3>1, <4>1, <4>2 DEF ManifestMatches, FreshManifest
    <3>4. CASE Inspect(disk[m]).hash # None
      <4>1. Inspect(disk[m]).hash = disk[m] /\ IsReadable(disk[m])
        <5>1. disk[m] # Unreadable
          BY <3>2, <3>4 DEF Inspect
        <5>2. disk[m].band \in Band /\ disk[m].band # "too_large"
          BY <3>2, <3>4, <5>1, TextShape DEF Inspect, Content
        <5> QED
          BY <3>2, <5>1, <5>2 DEF Inspect, Band, IsReadable
      <4>2. files[m].hash = disk[m] /\ files[m].skip = Inspect(disk[m]).skip
        BY <3>2, <3>4, <4>1 DEF RowMatches
      <4> QED
        BY <2>1, <3>1, <3>2, <4>1, <4>2 DEF ManifestMatches, StoredManifests, FreshManifest
    <3> QED
      BY <3>3, <3>4
  <2> QED
    BY <2>2, <2>3
<1> QED
  BY <1>1, InitResume, StepResume, PTL DEF Spec

----------------------------------------------------------------------------
(***************************************************************************)
(* Where an interrupted build differs from a fresh one, the interruption   *)
(* is to blame: as long as no attempt died, each build had an index of its *)
(* own from the start.                                                     *)
(***************************************************************************)
OwnIndex ==
  /\ run.pc = "idle" => indexState # "building"
  /\ run.pc \in {"started", "scanned"} => indexState = "empty"
  /\ indexState = "empty" \/ run.pc = "begun" => files = NoRows

(* What is stored was scanned, and none of it is replaced. *)
StoredIsScanned ==
  run.pc = "ingesting" => run.existing = {} /\ \A p \in Present : run.scan[p] # None

NothingIsGone ==
  (run.pc = "resolving" \/ indexState = "ready") /\ tree = "still" =>
    \A p \in Present : disk[p] # None

Unbroken == OwnIndex /\ packages = KeysInUse(files) /\ StoredIsScanned /\ NothingIsGone

UnbrokenInv == ResumeInv /\ (crashes = 0 => Unbroken)

LEMMA InitUnbroken == Init => UnbrokenInv
<1> SUFFICES ASSUME Init PROVE Unbroken
  BY InitResume DEF UnbrokenInv
<1> QED
  BY DEF Init, Idle, NoRows, Unbroken, OwnIndex, KeysInUse, StoredIsScanned, NothingIsGone

(* A batch of a build that replaces nothing. *)
LEMMA BatchAdds ==
  ASSUME TypeInv, Unbroken, IngestBatch
  PROVE  packages' = KeysInUse(files') /\ StoredIsScanned'
<1>1. /\ run.pc = "ingesting" /\ run.existing = {} /\ run.scan \in [Path -> ScanEntry \union {None}]
      /\ \A p \in run.pending : p \in Path /\ run.scan[p] # None /\ files[p] = None
      /\ run'.scan = run.scan /\ run'.existing = {} /\ run'.pc = "ingesting"
  BY DEF TypeInv, TypeOK, RunFields, ScanHeld, Unbroken, StoredIsScanned, IngestBatch
<1>2. PICK late \in SUBSET (MayBeLate \intersect Batch) :
        files' = [p \in Path |-> IF p \in Batch
                                 THEN ColdRow(p, run.scan[p], disk[p], p \in late)
                                 ELSE files[p]]
  BY DEF IngestBatch
<1>3. /\ \A p \in Batch : p \in Path /\ files[p] = None /\ run.scan[p] # None /\ files'[p] # None
      /\ \A p \in Path \ Batch : files'[p] = files[p]
  BY <1>1, <1>2, BatchRows, NoneIsNoRow DEF Batch
<1>4. packages' = packages \union {[dir |-> p.dir, name |-> files'[p].pkg] :
                                    p \in {q \in Batch : files'[q].pkg # None}}
  BY DEF IngestBatch
<1>5. packages = KeysInUse(files)
  BY DEF Unbroken
<1>6. packages' = KeysInUse(files')
  <2>1. ASSUME NEW k PROVE k \in packages' <=> k \in KeysInUse(files')
    BY <1>3, <1>4, <1>5 DEF KeysInUse
  <2> QED
    BY <2>1
<1>7. StoredIsScanned'
  BY <1>1, <1>3 DEF StoredIsScanned, Present, Unbroken
<1> QED
  BY <1>6, <1>7

LEMMA StepUnbroken == UnbrokenInv /\ [Next]_vars => UnbrokenInv'
<1> SUFFICES ASSUME UnbrokenInv, [Next]_vars, crashes' = 0 PROVE Unbroken'
  BY StepResume DEF UnbrokenInv
<1>a. /\ TypeInv /\ WritesWhileBuilding /\ (tree # "raced" => Unraced)
      /\ RunFields /\ crashes \in Nat
  BY BoundsShape DEF UnbrokenInv, ResumeInv, BuildInv, TypeInv, TypeOK
<1>b. CASE Crash
  BY <1>a, <1>b DEF Crash
<1>c. ASSUME ~Crash PROVE crashes = 0 /\ Unbroken
  BY <1>c
  DEF UnbrokenInv, Next, RunStep, vars, Edit, Rebuild, Start, Scan, BeginBuild, Resume,
      LoadExisting, IngestBatch, BuildEngine, ResolveNext, MarkReady
<1> USE DEF Unbroken
<1>1. ASSUME NEW p \in Path, Edit(p), Unbroken
      PROVE  Unbroken'
  <2>1. tree' # "still" /\ run' = run /\ UNCHANGED storeVars
    BY <1>1 DEF Edit
  <2> QED
    BY <1>1, <2>1 DEF storeVars, OwnIndex, KeysInUse, StoredIsScanned, NothingIsGone, Present
<1>2. CASE Rebuild
  BY <1>2, <1>a DEF Rebuild, RunFields, OwnIndex, NoRows, KeysInUse, StoredIsScanned, NothingIsGone
<1>3. CASE (Start \/ Scan \/ BeginBuild \/ Resume) /\ Unbroken
  <2>1. /\ run'.pc \in {"started", "scanned", "begun"} /\ UNCHANGED <<files, packages>>
        /\ indexState = "empty" /\ indexState' # "ready"
        /\ run'.pc # "begun" => indexState' = "empty"
    BY <1>3, <1>a DEF Start, Scan, BeginBuild, Resume, RunFields, storeVars, OwnIndex, TypeInv,
                      TypeOK, StoreTypeOK
  <2> QED
    BY <1>3, <2>1 DEF OwnIndex, KeysInUse, StoredIsScanned, NothingIsGone, NoRows
<1>4. CASE LoadExisting /\ Unbroken
  <2>1. /\ run'.pc = "ingesting" /\ run'.existing = Present /\ run.pc = "begun"
        /\ UNCHANGED <<files, packages, indexState>> /\ indexState = "building"
    BY <1>4, <1>a DEF LoadExisting, RunFields, storeVars, WritesWhileBuilding
  <2>2. Present = {} /\ Present' = {}
    BY <1>4, <2>1 DEF Present, OwnIndex, NoRows
  <2> QED
    BY <1>4, <2>1, <2>2 DEF OwnIndex, KeysInUse, StoredIsScanned, NothingIsGone
<1>5. CASE IngestBatch /\ Unbroken
  <2>1. /\ run'.pc = "ingesting" /\ indexState' = "building"
    BY <1>5, <1>a DEF IngestBatch, RunFields, WritesWhileBuilding
  <2> QED
    BY <1>5, <1>a, <2>1, BatchAdds DEF OwnIndex, NothingIsGone
<1>6. CASE BuildEngine /\ Unbroken
  <2>1. /\ run.pc = "ingesting" /\ run'.pc = "resolving" /\ indexState = "building"
        /\ UNCHANGED <<disk, files, packages, tree, indexState>>
    BY <1>6, <1>a DEF BuildEngine, RunFields, storeVars, WritesWhileBuilding
  <2>2. ASSUME tree = "still", NEW p \in Present PROVE disk[p] # None
    BY <1>6, <1>a, <2>1, <2>2 DEF StoredIsScanned, Unraced, ScanOf, Inspect, Present
  <2> QED
    BY <1>6, <2>1, <2>2 DEF OwnIndex, KeysInUse, StoredIsScanned, NothingIsGone, Present
<1>7. CASE (ResolveNext \/ MarkReady) /\ Unbroken
  <2>1. /\ run.pc = "resolving" /\ UNCHANGED <<disk, files, packages, tree>>
        /\ \/ run'.pc = "resolving" /\ indexState' = indexState
           \/ run'.pc = "idle" /\ indexState' = "ready"
    BY <1>7, <1>a DEF ResolveNext, MarkReady, RunFields, Idle
  <2>2. indexState = "building"
    BY <1>a, <2>1 DEF WritesWhileBuilding
  <2> QED
    BY <1>7, <2>1, <2>2 DEF OwnIndex, KeysInUse, StoredIsScanned, NothingIsGone, Present
<1>8. CASE UNCHANGED vars /\ Unbroken
  BY <1>8 DEF vars, OwnIndex, KeysInUse, StoredIsScanned, NothingIsGone, Present
<1> QED
  BY <1>b, <1>c, <1>1, <1>2, <1>3, <1>4, <1>5, <1>6, <1>7, <1>8 DEF Next, RunStep

(* What resume_stale shows needs an attempt that died: a build that was    *)
(* not interrupted, in an index of which none was, has no row of a file    *)
(* that is gone and no package its files have left, however often the tree *)
(* has changed and the index been rebuilt (facts.rs, ingest_facts).        *)
THEOREM UninterruptedIsFresh == Spec => [](crashes = 0 => ResumeEqualsFresh)
<1>1. UnbrokenInv => (crashes = 0 => ResumeEqualsFresh)
  BY DEF UnbrokenInv, Unbroken, NothingIsGone, ResumeEqualsFresh
<1> QED
  BY <1>1, InitUnbroken, StepUnbroken, PTL DEF Spec

(* No test file's package comes before that of a source file it is paired  *)
(* with: so it is wherever a directory has one package and its _test.      *)
TestsComeLast ==
  \A t \in Packaged(DB) : \A q \in AffinityTargets(DB, t) :
    files[q].pkg.rank <= files[t].pkg.rank

(* What affinity_pairs shows needs a directory whose packages come in the  *)
(* other order: where none does, every pair is stored both ways            *)
(* (resolve_pass.rs, the test_affinity edges; selection_snapshot.rs, the   *)
(* test that every affinity edge has its reverse).                         *)
THEOREM PairsBothWays == Spec => [](TestsComeLast => AffinityBidirectional)
<1>1. ReadyIsDerived => (TestsComeLast => AffinityBidirectional)
  <2> SUFFICES ASSUME edges = FreshEdges(DB), TestsComeLast, NEW e \in edges,
                      e.kind = "test_affinity"
               PROVE  Edge(e.dst, e.src, e.kind) \in edges
    BY DEF ReadyIsDerived, Finished, AffinityBidirectional
  <2>1. e \in FreshAffinity(DB)
    BY OwnEdgesKind DEF FreshEdges, FreshOwnEdges
  <2>2. PICK q \in Packaged(DB), t \in Packaged(DB) :
          /\ q \in AffinityTargets(DB, t)
          /\ e \in {Edge(t, q, "test_affinity"), Edge(q, t, "test_affinity")}
    BY <2>1 DEF FreshAffinity
  <2>3. DB.files[q].pkg.rank <= DB.files[t].pkg.rank
    BY <2>2 DEF TestsComeLast, DB
  <2>4. {Edge(t, q, "test_affinity"), Edge(q, t, "test_affinity")} \subseteq FreshAffinity(DB)
    BY <2>2, <2>3 DEF FreshAffinity
  <2>5. Edge(e.dst, e.src, e.kind) \in {Edge(t, q, "test_affinity"), Edge(q, t, "test_affinity")}
    BY <2>2 DEF Edge
  <2> QED
    BY <2>4, <2>5 DEF FreshEdges
<1> QED
  BY <1>1, ReadyCorrect, PTL

----------------------------------------------------------------------------
(***************************************************************************)
(* Progress: all of BuildCompletes but the fairness.                       *)
(***************************************************************************)
(* A batch takes something while something is pending. *)
LEMMA BatchTakes ==
  ASSUME run.pending \subseteq Path, run.pending # {}
  PROVE  Batch \subseteq run.pending /\ Batch # {}
<1>1. \A p \in Path : p.rank \in Nat
  BY PathShape
<1>2. PICK r \in {p.rank : p \in run.pending} : \A n \in {p.rank : p \in run.pending} : r <= n
  <2>1. {p.rank : p \in run.pending} \in SUBSET Nat /\ {p.rank : p \in run.pending} # {}
    BY <1>1
  <2> QED
    BY <2>1, LeastNatural
<1>3. PICK p \in run.pending : p.rank = r
  BY <1>2
<1>4. {q \in run.pending : q.rank < p.rank} = {}
  BY <1>1, <1>2, <1>3
<1>5. Cardinality({}) = 0
  BY FS_EmptySet
<1>6. Cardinality({q \in run.pending : q.rank < p.rank}) < BatchSize
  BY <1>4, <1>5, BoundsShape
<1> QED
  BY <1>6 DEF Batch

(* What the guards of the next transaction ask for is there. *)
NextStepIsThere ==
  /\ run.pc = "scanned" => indexState \in {"empty", "building"}
  /\ run.pc = "ingesting" => run.pending = {} \/ Batch # {}
  /\ run.pc = "resolving" =>
       IF run.todo = {} THEN indexState = "building"
                        ELSE \E k \in run.todo : IsFirst(k, run.todo)

(* A build that has started never waits: whatever earlier attempts left,   *)
(* its scan meets an index it can claim or join, there is a batch while    *)
(* files are pending and a first package while packages are, and in the    *)
(* end an index still building, which mark_ready asks for (lib.rs).        *)
THEOREM BuildIsNeverStuck == Spec => []NextStepIsThere
<1>1. BuildInv => NextStepIsThere
  BY FirstKey, BatchTakes
  DEF BuildInv, TypeInv, TypeOK, StoreTypeOK, WritesWhileBuilding, NextStepIsThere
<1> QED
  BY <1>1, InitBuild, StepBuild, PTL DEF Spec

Stage == [started |-> 1, scanned |-> 2, begun |-> 3, ingesting |-> 4, resolving |-> 5]

ComesNearerTheEnd ==
  \/ indexState' = "ready" /\ run' = Idle
  \/ run'.pc # "idle" /\ Stage[run'.pc] > Stage[run.pc]
  \/ run'.pc = run.pc /\ run'.pending \subseteq run.pending /\ run'.pending # run.pending
  \/ run'.pc = run.pc /\ run'.todo \subseteq run.todo /\ run'.todo # run.todo

(* Each step of a build publishes the index, or brings the build to a      *)
(* later stage, or leaves it fewer files to ingest or fewer packages to    *)
(* resolve: an attempt that does not die ends, and ends ready, however the *)
(* tree changes under it.                                                  *)
THEOREM BuildEnds == Spec => [][RunStep => ComesNearerTheEnd]_vars
<1>1. TypeInv /\ [Next]_vars => [RunStep => ComesNearerTheEnd]_vars
  <2> SUFFICES ASSUME TypeInv, RunStep PROVE ComesNearerTheEnd
    OBVIOUS
  <2>1. RunFields /\ run.pending \subseteq Path
    BY DEF TypeInv, TypeOK
  <2>2. CASE MarkReady
    BY <2>2 DEF MarkReady, ComesNearerTheEnd
  <2>3. CASE Scan \/ BeginBuild \/ Resume \/ LoadExisting \/ BuildEngine
    <3>1. \/ run.pc = "started" /\ run'.pc = "scanned"
          \/ run.pc = "scanned" /\ run'.pc = "begun"
          \/ run.pc = "begun" /\ run'.pc = "ingesting"
          \/ run.pc = "ingesting" /\ run'.pc = "resolving"
      BY <2>1, <2>3 DEF Scan, BeginBuild, Resume, LoadExisting, BuildEngine, RunFields
    <3> QED
      BY <3>1 DEF Stage, ComesNearerTheEnd
  <2>4. CASE IngestBatch
    <3>1. run.pending # {} /\ run'.pc = run.pc /\ run'.pending = run.pending \ Batch
      BY <2>1, <2>4 DEF IngestBatch, RunFields
    <3> QED
      BY <2>1, <3>1, BatchTakes DEF ComesNearerTheEnd
  <2>5. CASE ResolveNext
    BY <2>1, <2>5 DEF ResolveNext, RunFields, ComesNearerTheEnd
  <2> QED
    BY <2>2, <2>3, <2>4, <2>5 DEF RunStep
<1> QED
  BY <1>1, InitType, StepType, PTL DEF Spec
=============================================================================
