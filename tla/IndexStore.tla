----------------------------- MODULE IndexStore -----------------------------
(***************************************************************************)
(* The SQLite index shared by the cold build and the incremental update:   *)
(* its tables as variables, the row each ingestion path writes for a       *)
(* scanned file, and the two transactions both paths share, the per        *)
(* package derive transaction and the read of the snapshot id.             *)
(*                                                                         *)
(* Every write of the code happens inside a SQLite transaction, so a state *)
(* of these variables is a committed state and a crash loses nothing of    *)
(* it.  Row ids are abstracted: a files row is named by its path (the      *)
(* column is UNIQUE and both ingestion paths rewrite a row in place), and  *)
(* a foreign-key cascade is written out where a row is deleted.            *)
(***************************************************************************)
EXTENDS GoProjection

CONSTANTS Unreadable   \* a file that is listed but cannot be opened

ASSUME UnreadableShape == Unreadable \notin Path \union Text \union PackageName \union {None}

(* One module: the tree has at most a go.mod at its root. *)
Manifests == {p \in Path : p.kind = "manifest"}
ASSUME OneRootManifest == \A p, q \in Manifests : p = q

VARIABLES
  disk,        \* [Path -> Text, Unreadable or None]: the working tree
  files,       \* the files table with the symbols/refs/imports of each row
  packages,    \* the packages table
  manifest,    \* the manifests row of the root go.mod
  derived,     \* resolved imports, bindings and binding_targets per file
  edges,       \* the edges table
  indexState,  \* meta.index_state
  snapshot,    \* meta.snapshot_id
  marker       \* meta.update_in_progress is present

storeVars == <<files, packages, manifest, derived, edges, indexState, snapshot, marker>>

SkipReason  == {"too_large", "unreadable", "parse_skipped"}
ParseStatus == {"ok", "partial", "timeout", "skipped", "unsupported"}

ASSUME NoneIsNoLabel == None \notin SkipReason

Key == [dir : {p.dir : p \in Path}, name : PackageName]

(* A file has a hash unless it was too large to read or unreadable. *)
ScanEntry ==
  {e \in [hash : Text \union {None}, skip : SkipReason \union {None}] :
     e.hash = None <=> e.skip \in {"too_large", "unreadable"}}

ASSUME NoneIsNoEntry == None \notin ScanEntry

(* The CHECK constraint of the files table. *)
FilesCheck(row) ==
  \/ row.hash = None /\ row.skip \in {"too_large", "unreadable"} /\ row.status = "skipped"
  \/ row.hash # None /\ row.skip \in {None, "parse_skipped"}

FileRow ==
  {r \in [hash : Text \union {None}, skip : SkipReason \union {None},
          status : ParseStatus, pkg : PackageName \union {None},
          facts : Text \union {None}] : FilesCheck(r)}

ASSUME NoneIsNoRow == None \notin FileRow

(* The derived rows of a file: one outcome per import, any number of       *)
(* binding targets.                                                        *)
Imports == UNION {t.imports : t \in Text}
Refs    == UNION {t.refs : t \in Text}

ImportOutcome ==
  [outcome : {"external", "not_found", "resolved"}, dir : {i.dir : i \in Imports} \union {None}]

Projection ==
  [resolved : UNION {[t.imports -> ImportOutcome] : t \in Text},
   targets  : SUBSET [ref : Refs, file : Path]]

ASSUME NoneIsNoProjection == None \notin Projection

EdgeKind == {"import_out", "ref_def", "test_affinity"}

StoreTypeOK ==
  /\ disk \in [Path -> Text \union {Unreadable, None}]
  /\ files \in [Path -> FileRow \union {None}]
  /\ packages \in SUBSET Key
  /\ manifest \in Text \union {None}
  /\ edges \in SUBSET [src : Path, dst : Path, kind : EdgeKind]
  /\ indexState \in {"empty", "building", "ready"}
  /\ marker \in BOOLEAN

(* The facts as the projection reads them. *)
DB == [files |-> files, packages |-> packages, manifest |-> manifest]

Present == {p \in Path : files[p] # None}

(* compute_snapshot_id: the hash of the (path, hash) pairs in path order.  *)
SnapshotOf(f) == [p \in {q \in Path : f[q] # None} |-> f[p].hash]

ASSUME NoneIsNoSnapshot ==
  \A present \in SUBSET Path : None \notin [present -> Text \union {None}]
----------------------------------------------------------------------------
(***************************************************************************)
(* Scanning and the rows of the files table.                               *)
(***************************************************************************)
(* What the scanner reports of one path: its hash and why it was skipped.  *)
Inspect(content) ==
  IF content = None THEN None
  ELSE IF content = Unreadable THEN [hash |-> None, skip |-> "unreadable"]
  ELSE CASE content.band = "too_large" -> [hash |-> None, skip |-> "too_large"]
         [] content.band = "hash_only" -> [hash |-> content, skip |-> "parse_skipped"]
         [] content.band = "parse"     -> [hash |-> content, skip |-> None]

ScanOf(tree) == [p \in Path |-> Inspect(tree[p])]

Row(hash, skip, status, pkg, facts) ==
  [hash |-> hash, skip |-> skip, status |-> status, pkg |-> pkg, facts |-> facts]

(* A file the scanner labelled is not read; its label is the row. *)
SkipRow(entry) == Row(entry.hash, entry.skip, "skipped", None, None)

(* Mutant: a failed read leaves no label, the row schema v1 admitted. *)
UnreadableRowUnlabelled == Row(None, None, "skipped", None, None)

(* A file the scanner hashed and this pass cannot read. *)
UnreadableRow == Row(None, "unreadable", "skipped", None, None)

IsReadable(content) == content \notin {None, Unreadable}

(* The row of a file that was read: the SCANNER's hash beside the facts of *)
(* what is on disk now.  late: the parse ran into its wall-clock budget.   *)
ParsedRow(p, entry, content, late) ==
  IF p.kind = "other"
  THEN Row(entry.hash, None, "unsupported", None, None)
  ELSE IF late
       THEN Row(entry.hash, None, "timeout", None, None)
       ELSE Row(entry.hash, None, "ok", content.pkg, content)

(* The row a cold build writes for a file that did not change under it: it *)
(* stores the manifest without parsing it.                                 *)
ColdRow(p, entry, content, late) ==
  IF entry.skip # None THEN SkipRow(entry)
  ELSE IF ~IsReadable(content) THEN UnreadableRow
  ELSE IF p.kind = "manifest" THEN Row(entry.hash, None, "skipped", None, None)
  ELSE ParsedRow(p, entry, content, late)

(* The packages some row belongs to. *)
KeysInUse(rows) ==
  {[dir |-> p.dir, name |-> rows[p].pkg] :
     p \in {q \in Path : rows[q] # None /\ rows[q].pkg # None}}

(* The facts a build may leave.  A build that was resumed may keep rows of *)
(* files that are gone, packages that have lost their last file and a      *)
(* manifest nobody can read any more; all a build promises is that the     *)
(* package of a row is known and that what was read of its file is stored. *)
BuildFacts ==
  {b \in [files : [Path -> FileRow \union {None}], packages : SUBSET Key,
          manifest : Text \union {None}] :
     /\ KeysInUse(b.files) \subseteq b.packages
     /\ \A p \in Path : HasPackage(b, p) => b.files[p].facts \in Text}

(* The facts of a finished build of a tree nobody touched meanwhile, with  *)
(* no extraction timing out.                                               *)
FreshRows(tree) ==
  [p \in Path |-> IF tree[p] = None THEN None
                  ELSE ColdRow(p, Inspect(tree[p]), tree[p], FALSE)]

FreshManifest(tree) ==
  IF \E p \in Manifests : IsReadable(tree[p]) /\ Inspect(tree[p]).skip = None
  THEN tree[CHOOSE p \in Manifests : TRUE]
  ELSE None

(* The paths whose extraction may run into the timeout. *)
MayBeLate == {p \in Path : IsReadable(disk[p]) /\ disk[p].slow}
----------------------------------------------------------------------------
(***************************************************************************)
(* The derive transaction of one package: clear the bindings and the edges *)
(* leaving its files, then write the projection of the current facts.      *)
(***************************************************************************)
ResolvePackage(k) ==
  LET mine == FilesOf(DB, k)
  IN  /\ derived' = [p \in Path |-> IF p \in mine THEN ProjectFile(DB, p) ELSE derived[p]]
      /\ edges' = {e \in edges : e.src \notin mine}
                    \union UNION {OwnEdges(DB, p) \union AffinityEdges(DB, p) : p \in mine}

(* The (dir, name) order packages are resolved in. *)
Before(j, k) == j.dir < k.dir \/ (j.dir = k.dir /\ j.name.rank < k.name.rank)

IsFirst(k, keys) == k \in keys /\ \A j \in keys : j = k \/ Before(k, j)
----------------------------------------------------------------------------
(***************************************************************************)
(* Coherence of the derived tables with the facts they were derived from.  *)
(***************************************************************************)
(* Import classification, bindings, import_out and ref_def edges are those *)
(* of a resolve pass over every package.                                   *)
ProjectionCurrent ==
  /\ derived = FreshDerived(DB)
  /\ {e \in edges : e.kind # "test_affinity"} = FreshOwnEdges(DB)

(* The test_affinity edges are those of a resolve pass over every package. *)
AffinityCurrent == {e \in edges : e.kind = "test_affinity"} = FreshAffinity(DB)

(* What a build that is done leaves beside its facts: everything derived   *)
(* from them, published under their id.                                    *)
Finished ==
  /\ derived = FreshDerived(DB)
  /\ edges = FreshEdges(DB)
  /\ indexState = "ready"
  /\ snapshot = SnapshotOf(files)
  /\ marker = FALSE

(* Every row of a derived table names a files row. *)
NoDanglingRows ==
  /\ \A e \in edges : {e.src, e.dst} \subseteq Present
  /\ \A p \in Path : derived[p] # None =>
       /\ p \in Present
       /\ \A t \in derived[p].targets : t.file \in Present

(* No test_affinity edge relates files the pairing rule does not pair.     *)
AffinityNeverStale ==
  \A e \in edges : e.kind = "test_affinity" =>
    e.dst \in AffinityTargets(DB, e.src) \/ e.src \in AffinityTargets(DB, e.dst)
=============================================================================
