------------------------------ MODULE ColdBuild ------------------------------
(***************************************************************************)
(* `contextslice index` on an index that is not ready, and `--rebuild`     *)
(* (cs-cli run_index, cs-index facts.rs and resolve_pass.rs): scan, claim  *)
(* the build, ingest the facts in batches, derive package by package,      *)
(* publish.  A build that died is resumed, not restarted: rows whose       *)
(* stored hash equals the scanned one are trusted.                         *)
(*                                                                         *)
(* A process that finds the index ready is IncrementalUpdate's business.   *)
(***************************************************************************)
EXTENDS IndexStore, FiniteSets

CONSTANTS
  Trees,          \* the trees a first build may find
  Versions,       \* [Path -> what the path may hold]
  BatchSize,      \* files per fact transaction
  MaxEdits, MaxCrashes, MaxRebuilds

ASSUME BoundsShape ==
  /\ BatchSize \in Nat \ {0}
  /\ {MaxEdits, MaxCrashes, MaxRebuilds} \subseteq Nat
ASSUME TreesShape ==
  /\ Trees \subseteq [Path -> Text \union {Unreadable, None}]
  /\ Versions \in [Path -> SUBSET (Text \union {Unreadable, None})]

VARIABLES
  run,        \* the in-memory state of the indexing process
  tree,       \* "still" since the last scan, "moved" while no process ran, or
              \* "raced": it changed between a scan and the end of its process
  edits, crashes, rebuilds

vars == <<disk, files, packages, manifest, derived, edges, indexState, snapshot,
          marker, run, tree, edits, crashes, rebuilds>>

Idle == [pc |-> "idle", scan |-> None, existing |-> {}, pending |-> {},
         todo |-> {}, snapshot |-> None]

----------------------------------------------------------------------------
NoRows == [p \in Path |-> None]

Init ==
  /\ disk \in Trees
  /\ files = NoRows /\ packages = {} /\ manifest = None
  /\ derived = NoRows /\ edges = {}
  /\ indexState = "empty" /\ snapshot = None /\ marker = FALSE
  /\ run = Idle
  /\ tree = "moved"
  /\ edits = 0 /\ crashes = 0 /\ rebuilds = 0

Edit(p) ==
  /\ edits < MaxEdits
  /\ \E content \in Versions[p] \ {disk[p]} : disk' = [disk EXCEPT ![p] = content]
  /\ tree' = IF run.pc \in {"idle", "started"} /\ tree # "raced" THEN "moved" ELSE "raced"
  /\ edits' = edits + 1
  /\ UNCHANGED <<storeVars, run, crashes, rebuilds>>

(* --rebuild removes the database files before it scans; the new file is   *)
(* an empty index.                                                         *)
Rebuild ==
  /\ run.pc = "idle"
  /\ indexState # "empty"
  /\ rebuilds < MaxRebuilds
  /\ files' = NoRows /\ packages' = {} /\ manifest' = None
  /\ derived' = NoRows /\ edges' = {}
  /\ indexState' = "empty" /\ snapshot' = None /\ marker' = FALSE
  /\ run' = [run EXCEPT !.pc = "started"]
  /\ rebuilds' = rebuilds + 1
  /\ tree' = "moved"
  /\ UNCHANGED <<disk, edits, crashes>>

Start ==
  /\ run.pc = "idle"
  /\ indexState # "ready"
  /\ run' = [run EXCEPT !.pc = "started"]
  /\ UNCHANGED <<disk, storeVars, tree, edits, crashes, rebuilds>>

Scan ==
  /\ run.pc = "started"
  /\ run' = [run EXCEPT !.pc = "scanned", !.scan = ScanOf(disk)]
  /\ tree' = IF tree = "raced" THEN "raced" ELSE "still"
  /\ UNCHANGED <<disk, storeVars, edits, crashes, rebuilds>>

(* Claim an empty index. *)
BeginBuild ==
  /\ run.pc = "scanned"
  /\ indexState = "empty"
  /\ indexState' = "building"
  /\ run' = [run EXCEPT !.pc = "begun"]
  /\ UNCHANGED <<disk, files, packages, manifest, derived, edges, snapshot, marker,
                 tree, edits, crashes, rebuilds>>

(* Mutant: only a build that stored nothing is joined. *)
ResumeIfEmpty ==
  /\ run.pc = "scanned"
  /\ indexState = "building" /\ Present = {}
  /\ run' = [run EXCEPT !.pc = "begun"]
  /\ UNCHANGED <<disk, storeVars, tree, edits, crashes, rebuilds>>

(* Join the build that died. *)
Resume ==
  /\ run.pc = "scanned"
  /\ indexState = "building"
  /\ run' = [run EXCEPT !.pc = "begun"]
  /\ UNCHANGED <<disk, storeVars, tree, edits, crashes, rebuilds>>
----------------------------------------------------------------------------
(***************************************************************************)
(* Fact ingestion.                                                         *)
(***************************************************************************)
(* Mutant: a path that has a row is trusted. *)
TrustedPath(p) == files[p] # None

(* The row of an earlier attempt is trusted when its hash is the scanned   *)
(* one; two missing hashes compare equal.                                  *)
Trusted(p) == files[p] # None /\ files[p].hash = run.scan[p].hash

LoadExisting ==
  /\ run.pc = "begun"
  /\ run' = [run EXCEPT
       !.pc = "ingesting", !.existing = Present,
       !.pending = {p \in Path : run.scan[p] # None /\ ~Trusted(p)}]
  /\ UNCHANGED <<disk, storeVars, tree, edits, crashes, rebuilds>>

(* The next BatchSize pending files in path order. *)
Batch ==
  {p \in run.pending :
     Cardinality({q \in run.pending : q.rank < p.rank}) < BatchSize}

(* Mutant: a manifest that is now skipped keeps its row. *)
ManifestKept ==
  IF \E p \in Manifests \intersect Batch : run.scan[p].skip = None /\ IsReadable(disk[p])
  THEN disk[CHOOSE p \in Manifests : TRUE]
  ELSE manifest

(* The manifest row, as the update has it: dropped with a replaced file    *)
(* that is now skipped, rewritten when the file is read, kept otherwise.   *)
ManifestAfterBatch ==
  IF \E p \in Manifests \intersect Batch : run.scan[p].skip = None /\ IsReadable(disk[p])
  THEN disk[CHOOSE p \in Manifests : TRUE]
  ELSE IF \E p \in Manifests \intersect Batch : run.scan[p].skip # None /\ p \in run.existing
       THEN None
       ELSE manifest

(* One transaction: replaced rows lose their facts and edges first, and a  *)
(* package row is inserted for every package clause met.  Nothing deletes  *)
(* a files row whose path is gone, nor a package row nobody is left in.    *)
IngestBatch ==
  /\ run.pc = "ingesting"
  /\ run.pending # {}
  /\ \E late \in SUBSET (MayBeLate \intersect Batch) :
       files' = [p \in Path |-> IF p \in Batch
                                THEN ColdRow(p, run.scan[p], disk[p], p \in late)
                                ELSE files[p]]
  /\ packages' = packages \union {[dir |-> p.dir, name |-> files'[p].pkg] :
                                    p \in {q \in Batch : files'[q].pkg # None}}
  /\ manifest' = ManifestAfterBatch
  /\ LET replaced == Batch \intersect run.existing
     IN  /\ derived' = [p \in Path |-> IF p \in replaced THEN None ELSE derived[p]]
         /\ edges' = {e \in edges : {e.src, e.dst} \intersect replaced = {}}
  /\ run' = [run EXCEPT !.pending = @ \ Batch]
  /\ UNCHANGED <<disk, indexState, snapshot, marker, tree, edits, crashes, rebuilds>>
----------------------------------------------------------------------------
(***************************************************************************)
(* Derivation and publication.                                             *)
(***************************************************************************)
(* Mutant: packages a dead attempt has derived are skipped. *)
KeysUnderived == {k \in packages : \E p \in FilesOf(DB, k) : derived[p] = None}

(* Mutant: a package of test files only is not built. *)
KeysWithSources == {k \in packages : \E p \in FilesOf(DB, k) : p.kind = "source"}

KeysToBuild == packages

(* The engine reads the facts once: the packages to resolve and the        *)
(* snapshot id to publish are those of this moment.                        *)
BuildEngine ==
  /\ run.pc = "ingesting"
  /\ run.pending = {}
  /\ run' = [run EXCEPT !.pc = "resolving", !.todo = KeysToBuild, !.scan = None,
                        !.existing = {}, !.snapshot = SnapshotOf(files)]
  /\ UNCHANGED <<disk, storeVars, tree, edits, crashes, rebuilds>>

ResolveNext ==
  /\ run.pc = "resolving"
  /\ \E k \in run.todo :
       /\ IsFirst(k, run.todo)
       /\ ResolvePackage(k)
       /\ run' = [run EXCEPT !.todo = @ \ {k}]
  /\ UNCHANGED <<disk, files, packages, manifest, indexState, snapshot, marker,
                 tree, edits, crashes, rebuilds>>

(* Mutant: the state flips in a transaction of its own. *)
MarkReadyUnnamed ==
  /\ run.pc = "resolving"
  /\ run.todo = {}
  /\ indexState = "building"
  /\ indexState' = "ready"
  /\ run' = Idle
  /\ UNCHANGED <<disk, files, packages, manifest, derived, edges, snapshot, marker,
                 tree, edits, crashes, rebuilds>>

MarkReady ==
  /\ run.pc = "resolving"
  /\ run.todo = {}
  /\ indexState = "building"
  /\ indexState' = "ready"
  /\ snapshot' = run.snapshot
  /\ run' = Idle
  /\ UNCHANGED <<disk, files, packages, manifest, derived, edges, marker, tree,
                 edits, crashes, rebuilds>>

Crash ==
  /\ run.pc # "idle"
  /\ crashes < MaxCrashes
  /\ run' = Idle
  /\ crashes' = crashes + 1
  /\ UNCHANGED <<disk, storeVars, tree, edits, rebuilds>>
----------------------------------------------------------------------------
RunStep ==
  \/ Scan
  \/ BeginBuild \/ Resume
  \/ LoadExisting \/ IngestBatch
  \/ BuildEngine \/ ResolveNext \/ MarkReady

Next ==
  \/ \E p \in Path : Edit(p)
  \/ Rebuild \/ Start
  \/ RunStep
  \/ Crash

Spec == Init /\ [][Next]_vars

(* A process that runs goes on, and the user runs the command again while  *)
(* the index is not ready.                                                 *)
FairSpec == Spec /\ WF_vars(RunStep) /\ WF_vars(Start)
----------------------------------------------------------------------------
TypeOK ==
  /\ StoreTypeOK
  /\ run.pc \in {"idle", "started", "scanned", "begun", "ingesting", "resolving"}
  /\ run.scan \in [Path -> ScanEntry \union {None}] \union {None}
  /\ {run.existing, run.pending} \subseteq SUBSET Path
  /\ run.todo \subseteq Key
  /\ tree \in {"still", "moved", "raced"}
  /\ edits \in 0..MaxEdits
  /\ crashes \in 0..MaxCrashes
  /\ rebuilds \in 0..MaxRebuilds

(* The Ready promise of a cold build (ADR-021 D3): whatever batches and    *)
(* packages earlier attempts left behind, a ready index carries exactly    *)
(* the derived rows its own facts give, and their snapshot id; with facts  *)
(* of the kind updates start from.                                         *)
ReadyIsDerived == indexState = "ready" => Finished /\ DB \in BuildFacts

(* Resuming re-ingests what changed (facts.rs: "a path whose content       *)
(* changed since the interrupted build is re-ingested rather than          *)
(* trusted"): unless the tree moved under some attempt, the hash, package  *)
(* and facts of every file still there are those of a fresh build, but for *)
(* a parse that timed out.                                                 *)
ResumeReingests ==
  indexState = "ready" /\ tree = "still" =>
    \A p \in Path : disk[p] # None =>
      /\ files[p] # None
      /\ files[p].hash = Inspect(disk[p]).hash
      /\ files[p].status # "timeout" =>
           /\ files[p].facts = FreshRows(disk)[p].facts
           /\ files[p].pkg = FreshRows(disk)[p].pkg

(* The stored manifest is the one in the tree: the copy of an earlier      *)
(* attempt goes when go.mod can no longer be read (facts.rs), or the old   *)
(* module path would go on resolving every import.                         *)
ResumeKeepsManifest ==
  indexState = "ready" /\ tree = "still" /\ (\A p \in Manifests : disk[p] # None) =>
    manifest = FreshManifest(disk)

(* Violated: a build that was interrupted ends with the files and the      *)
(* packages of a fresh build; the rows of a file that is gone and of a     *)
(* package its files have left stay for good.                              *)
ResumeEqualsFresh ==
  indexState = "ready" /\ tree = "still" =>
    /\ \A p \in Present : disk[p] # None
    /\ packages = KeysInUse(files)

(* Test files pair with the source files of their directory in both        *)
(* directions.                                                             *)
AffinityBidirectional ==
  indexState = "ready" =>
    \A e \in edges : e.kind = "test_affinity" => Edge(e.dst, e.src, e.kind) \in edges

(* A build becomes ready however often it dies, if it is run again. *)
BuildCompletes == indexState # "ready" ~> indexState = "ready"
----------------------------------------------------------------------------
(***************************************************************************)
(* The lifecycle it implements: the marker is not used by a cold build.    *)
(***************************************************************************)
Lifecycle == INSTANCE IndexLifecycle WITH
  phase      <- IF indexState = "ready" /\ marker THEN "torn" ELSE indexState,
  rows       <- <<files, packages, manifest, derived, edges>>,
  identity   <- SnapshotOf(files),
  published  <- snapshot,
  NoIdentity <- None

(* An index is claimed once per database file, becomes ready only with the *)
(* id of the rows it then holds, and no row moves once it is ready.        *)
ImplementsLifecycle == Lifecycle!Spec
=============================================================================
