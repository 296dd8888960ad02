# contextslice: verification of the index

`contextslice index` scans a Go repository, stores what it learns of each file
in a SQLite index and derives from those *facts* a reference graph that the
other commands read. This directory models the index and what surrounds it: how
a tree is scanned, what is extracted from a file, what a reference is bound to,
how the index is built, updated in place, read and repaired, by processes that
may die between two transactions, on a tree that changes under them, on a file
they share. Everything is TLA+; TLC checks small instances and TLAPS proves the
theorems of section 5 for all of them.

## 1. The system

| Part | State it keeps | Operations | Talks to |
|---|---|---|---|
| scanner (`cs-scanner`) | one scan, in memory | `scan`: walk, caps, hashes; every file with its hash or the label why it has none | the index command |
| extractor (`cs-extract`) | one file, in memory | `extract_with_timeout`: package clause, definitions, references, imports, or a timeout | both ingestion paths |
| index store (`cs-index` lib, schema) | ten tables; `meta.index_state`, `snapshot_id`, `update_in_progress` | the open gate, `begin_build`, `mark_ready`, transactions | everything below |
| cold build (`facts.rs`, `resolve_pass.rs`) | the plan of one build, in memory | `ingest_facts` in batches, `resolve_facts` package by package | scan, extractor, store |
| incremental update (`incremental.rs`) | one run, in memory | plan, fact transaction, derive transactions, finalize | the same |
| exported index (`index_pass.rs`) | a read-only image of the facts | `build_exported_index`, `compute_snapshot_id` | store; feeds the resolver |
| Go resolver (`cs-resolve`) | packages and modules, in memory | classify imports, bind references, edges, test pairs, statistics | called per package by the derive transaction |
| doctor | none | the checks; the repairs `ResetToEmpty` and `Rebuild` | store |
| selection snapshot | an image of the index | `load_selection_snapshot`, `require_ready_snapshot` | store; feeds selection |
| selection (`cs-select`) | none | parse a task, ask for seeds | selection snapshot |
| index command (`cs-cli`) | none | `run_index`: rebuild, then update, begin or resume | scanner, store |
| git, render, mcp, bench crates | empty | | |

What is hard here, and what a unit test hardly reaches:

* **Crashes.** Every write is a transaction, but a build, an update or a repair
  is many of them. Facts commit before the rows derived from them.
* **The tree moves.** A file is listed, stat'ed, hashed and read at four
  different moments; directories appear and vanish under a walk.
* **Several processes.** Nothing is locked between two transactions. A reader
  has only the snapshot id and the marker to go by, and reads them in separate
  statements from the rows; a second indexer plans on what the first is about to
  replace.
* **Scoped invalidation.** An update re-resolves only the packages it can name
  from the *old* derived rows, and must still leave what a cold build would.
* **Order.** Packages are resolved in (dir, name) order and one package's
  transaction deletes rows another's wrote. Within a file, query matches arrive
  in the order the query engine chooses and are merged.
* **Absence.** A file without a hash, a package without files, a manifest that
  can no longer be read, a directory that cannot be opened.
* **Corners of rules.** Nested modules, `vendor/`, `internal/`, external tests;
  directive comments and broken declarations; identifiers made of stopwords.

What makes each part correct: an index that is ready and unmarked carries the
derived rows of its own facts and the snapshot id of its own files; its facts
are those of the files named by the hashes; a run repeated after a crash ends
where an undisturbed one would; nothing dangles; a scan is a function of the
tree; the stages that compute do not depend on the order they compute in and
drop nothing silently. `PROJECT.json` lists the hazards at their lines with the
properties that catch them.

## 2. Modules

```
GoProjection              what derived rows say of facts        (operators)
  IndexStore              tables, the derive transaction
    Diagnosis             Doctor::check as an observer
    IncrementalUpdate     the update of a ready index ---+
    ColdBuild             build, resume, rebuild      ---+--> IndexLifecycle (abstract)
SharedIndex               several processes on one file, statement by statement
Scanner                   one scan, system call by system call
GoFacts                   what extraction tells resolution      (data)
  GoExtract               extraction of one file
  GoResolver              resolution of a whole repository
TaskSelect                task parsing, matching with symbols
```

Samples for TLC: `GoSamples` (trees), `GoFiles` (syntax trees), `GoRepos`
(repositories), `TaskSamples` (tasks). TLC modules: `MCIncremental`,
`MCColdBuild`, `MCShared`, `MCScanner`, `MCStages`, `MCExtract`. Proofs:
`IndexStore_proofs`, `IncrementalUpdate_proofs`, `ColdBuild_proofs`,
`SharedIndex_proofs`, `Scanner_proofs`, `GoExtract_proofs`,
`GoResolver_proofs`, `TaskSelect_proofs`.

The system is modelled three times at different grains, because no instance
that has everything can be explored: the update and the build with the rows in
detail and one process; the shared file with every statement a step and rows
reduced to *which version they were made from*; the stages that store nothing
as functions over whole inputs.

**GoProjection** is the part of the resolver an update can leave stale, as a
function of the fact tables: the directory an import maps to, the package it
binds, the files a reference hits (a `_test.go` definition only from a
`_test.go` file), the three kinds of edges. A path is a record of what the code
asks of it (rank in path order, directory, kind), a text one of what the
extractor finds in it. A text is its own hash, so equal hashes mean equal
contents. `Fresh...` is the reference: what a pass over every package in order
leaves, including what the deletion of outgoing edges takes away again.

**IndexStore** holds the tables as variables: `files` with the facts of each
row, `packages`, `manifest`, `derived` (resolved imports and binding targets),
`edges`, `indexState`, `snapshot`, `marker`, and `disk`, the working tree. Row
ids are abstracted to paths: `files.path` is unique and both paths rewrite in
place. Foreign-key cascades are written out where a row goes. `ResolvePackage`
is the transaction the update and the build share.

**Diagnosis** is what `Doctor::check` says of such a state, check by check:
foreign keys, meta, referential integrity, projection, health.

**IncrementalUpdate** has one action per transaction or read of
`update_incremental`:

| Action | Code |
|---|---|
| `Scan` | `cs_scanner::scan` in `run_index` |
| `PlanNoop`, `Plan` | `plan_incremental`, the no-op fast path |
| `ApplyFacts` | `apply_fact_changes`, one transaction with the marker |
| `SelectPackages` | the fan-out and key selection of `apply_derived_changes` |
| `ResolveNext` | one `resolve_package` transaction |
| `Finalize` | `finalize_incremental` |
| `Edit`, `Crash` | the tree changes; the process dies |

It starts from any tree and any index a build has finished: the facts are any of
`BuildFacts` (every row's package is known and its facts are stored, no more),
so also rows of files that are gone, packages no file is in, a manifest nobody
can read any more and a row whose text raced its hash, all of which a resumed
build leaves. `Finished` says the rest: everything derived from those facts,
ready, published and unmarked. That `ColdBuild` hands over exactly that is a
theorem (`UpdateMayFollow`).

**ColdBuild** does the same for `run_index` on an index that is not ready:
`Rebuild`, `Start`, `Scan`, `BeginBuild` or `Resume`, `LoadExisting`,
`IngestBatch` (one batch, one transaction), `BuildEngine`, `ResolveNext`,
`MarkReady`. Its `tree` variable is history: whether the tree has moved since
the last scan, and whether it ever moved under a running attempt.

**IndexLifecycle** says what readers rely on and nothing else: an index is
empty, building, ready or torn; rows move only while it is building or torn; it
becomes ready only by publishing the identity of the rows it then holds. Both
state machines implement it under the mapping *torn = ready and marked*.

**SharedIndex** is the file between processes. A process has a program counter
through the open gate (`HasMeta` ... `GateSnapshot`: meta, foreign tables,
version, state, missing tables, snapshot id, each a read of its own), then
through the command:

| Command | Actions | Code |
|---|---|---|
| `index` | `Scan`, gate, `Opened`, `Dispatch`; `Claim` / `ClaimConflict`, `Ingest`, `LoadExisting`, `IngestBatch`, `Resolve`, `BuildEngine`, `DerivePackage`, `MarkReady` / `MarkReadyConflict`; or `Plan`, `ApplyFacts`, `BuildEngine`, `DerivePackage`, `Finalize` | `run_index`, `begin_build`, `ingest_facts`, `resolve_facts`, `mark_ready`, `update_incremental` |
| `select` | gate, `CountRows`, `LoadId`, `LoadMarker`, `LoadRows` (files, symbols, edges), `RequireReady` | `load_selection_snapshot`, `require_ready_snapshot` |
| `recreate` | `DropNext` table by table, `Recreate` | `RepairPolicy::Rebuild` |
| `reset` | `ResetNext`: nine deletes, then state, id, marker | `RepairPolicy::ResetToEmpty` |

`TableMissing` is a statement whose table is gone, `Locked` a transaction that
meets another writer's (`busy_timeout` is 0, so it fails at once), `Crash` a
death anywhere. A row is abstracted to the version of its package; a derived
row to the versions of all packages it was resolved against. History variables:
`claims` (successful `begin_build`s since the index was last empty), `cut` (a
reset has begun and not ended), `contended` (two processes were writing at the
same time), `disturbed` (something was committed during a load).

**Scanner** is `scan` between `Start` and `Update`: `OpenDir` and `Stat` in any
order, `EndWalk`, then `Inspect` in path order, while `Edit` changes, adds,
removes and locks files and directories. `Update` is the hash comparison the
next run makes of the result. History: `touched`, `raced` (what was edited since
this scan began; during any scan).

**GoFacts**, **GoExtract**, **GoResolver.** A file is its syntax tree, a
sequence of nodes in source order. `GoExtract` delivers the matches of the
definition, import and reference query one by one in *any* order (`defs.scm`
claims the merge does not depend on it), then applies the filters the query
language cannot express; `RefsByPlace` says from the place of an identifier what
they must leave of it. `GoResolver` resolves a repository twice: as one pure function of all
files, the way `prepare` and `resolve` do, and as `ResolvePackage`, the pass of
the index with one package's definitions in memory. `GoProjection` is the part
of its rules whose facts move.

**TaskSelect** reads a task word by word (`ReadWord`: terms with their
spellings, path and symbol hints, flags) and matches the terms with the symbols
(`SeedTask`: which seeds signals S1 and S4 contribute, without scores).

**MCStages** runs the three computing stages side by side: a behaviour takes
one of them and the others rest.

Operators commented as mutants (`...Nothing`, `...Kept`, `ClaimBlindly`,
`StopAtCap`, ...) are the plausible mistakes that show each property can fail;
no action uses them.

## 3. What the runs show

| Run | Bounds | Shows |
|---|---|---|
| `single_edits` | 6 starts (2 fresh, 4 of resumed builds), 2 edits, at most 1 path changed between scans, 1 crash | `Coherent`: scoped invalidation equals a cold build's imports, bindings and non-affinity edges. `SnapshotNamesFacts`. `ImplementsLifecycle`. `TornIsRepaired`, `IndexConverges`: repeated runs repair a torn index and bring it to the tree. |
| `bulk_edits` | 4 starts (2 fresh, 2 of resumed builds), 3 edits, 3 differing paths, 1 crash | `NoDanglingRows`; `NoGhostPackages`: whenever rows or packages move every package has a file, those a resumed build left empty being collected; `AffinityNeverStale`, `RebuildIsFresh`, and `HealthyWhenReady`: the doctor finds nothing in an index no update is torn in, whatever changed at once and however far a dead run had come. |
| `cold_build` | 2 edits, 1 crash, 1 rebuild, batches of 2 | `ReadyIsDerived`, `HealthyWhenReady`, `ResumeReingests`, `ResumeKeepsManifest`, `ImplementsLifecycle`, `BuildCompletes`. |
| `shared_index` | 2 processes, 3 commands, 2 packages, 1 edit, 1 crash | `ClaimedOnce`; `ReadyIsCompleteAlone`: what an open accepts is complete unless two processes wrote at once or a reset was cut; `UndisturbedSelectionIsCoherent`: the gate that never looks at `index_state` still refuses every empty, half-built or half-dropped index. |
| `scanner` | 3 directories, 5 paths, 3 edits, 2 runs, caps of 2 files and 4 bytes | `ScanIsFunction`: of a still tree, whatever the order of the walk; `SteadyFilesAreListed`: of a moving one; `IndexFollowsTree`. |
| `stages` | the samples of `GoFiles`, `GoRepos`, `TaskSamples`; 2 candidates per name | extraction: `MatchOrderIsIrrelevant`, `DegradationPolicy`, `RefsByPlace`, `ContainersEnclose`; resolution: `BindingsAreVisible`, `NothingIsDropped`, `RefsFollowImports`, `ModuleBoundaries`, `StreamedAgrees`; selection: `ModifiersAreFlags`, `FragmentsAreSignal`, `SeedsNameSymbols`. |

`TypeOK` includes the CHECK constraints of the schema, so a step SQLite would
refuse violates it. Every property has a mutant in `PROJECT.json`: a change of
one modelled definition under which TLC finds it violated.

**The trees** of the first three runs are those of `GoSamples`: a root manifest
and an import chain `c -> b -> a`, where directory `b` may hold a second source
file (of package `b` or of a `main` beside it) and an external or in-package
test. Files may be edited, renamed into another package, emptied of references,
removed, made unreadable, grown over the parse or the read cap, or slow enough
to time out. The update starts from fresh indexes of two such trees
(`FreshStarts`); from indexes built in two attempts between which a file left its
package or was removed (`GhostStarts`); and, where one change is found at a time,
from such whose go.mod went or whose row was read while the file was changed and
changed back (`StaleStarts`). The proofs need none of these: they take any tree
and any `BuildFacts`.

**The bounds, and why they are enough.** Two edits are the least with which one
file changes under a run and another before it; the third of `bulk_edits` lets
a package lose its last file while another gains one and the manifest moves. A
crash leaves only the tables, so one reaches every cut point. Five or six paths
over four directories include a chain of two imports, the shortest on which an
importer of an importer exists. `MaxPending` bounds how many paths a scan finds
changed; `Coherent` is checked with 1 because with 2 it fails (below). On the
shared file two processes suffice, because the code distinguishes only "mine"
and "another's", and three commands let one process repair or build between two
steps of the other while a third command reads what they left; two packages are
the least of which one can be new and the other old. Processes and packages are
symmetric there. The caps of `scanner` are small enough that each of the two run
caps is exceeded with the other respected, and its contents lie below, between
and above the two file caps. The stages' samples have one file, repository or
task per rule of the code, its boundary cases included; `MaxCandidates` is 2 so
that a name with three candidates is over the cap (256 in the code).

**Fairness.** `WF(RunStep)`: a live process takes its next step; no statement
waits (`busy_timeout` is 0). `WF(Scan)`, `WF(Start)`: the user runs the command
again; nothing in the code restarts it, so each liveness property is of the form
"if it is run again". Edits and crashes have no fairness and are bounded.
`SharedIndex`, `Scanner` and the stages state no liveness: with two processes a
run may be refused every time it is tried, and nothing promises otherwise.

**Deadlock** is checked on the update, which can always be run again. A cold
build stops in these instances once the index is ready and the bounds are spent;
the shared file and the scanner stop when their commands are spent, the stages
when they have their result.

### Where code and documents disagree

Each of these runs checks one property, taken from a comment or a document, that
TLC refutes; `PROJECT.json` quotes the lines.

| Run | Property | What happens |
|---|---|---|
| `two_changes` | `Coherent` | One scan finds package a modified and a file added to package b that binds into a. The fan-out ignores b because it was already selected; b's importers keep stale rows. |
| `affinity_pairs` | `AffinityBidirectional` | A cold build deletes the reverse affinity edge of a source file whose package sorts after the test's. |
| `resume_stale` | `ResumeEqualsFresh` | A resumed build keeps the rows of deleted files, and packages nobody is in any more. |
| `torn_read` | `SelectionIsCoherent` | An update commits between two reads of a snapshot load; the gate accepts old id, no marker and rows of both trees. |
| `two_indexers` | `ReadyIsComplete` | Two updates interleave; one re-derives from an image older than the other's facts and whichever finalizes clears the marker of both. |
| `trailing_doc` | `DocsStandAlone` | `X = 1 // ten` gives the declaration on the next line the documentation "ten". |

These explain choices in the properties that hold. `Coherent` leaves
test_affinity to `AffinityNeverStale`: affinity edges may be missing but are
never wrong. The `Resume...` properties that hold speak of files still in the
tree and of trees no attempt saw move. `ReadyIsDerived`, `RebuildIsFresh` and
`StreamedAgrees` compare with the one-way pairs. `ReadyIsCompleteAlone` and
`UndisturbedSelectionIsCoherent` exclude exactly what the two shared runs show,
and a reset that was cut.

Smaller divergences seen while modelling, without a run of their own. The
properties name them where they exclude them.

* *Update.* A file edited between scan and read is stored with the facts of one
  content under the hash of another (`MayBeLate`). A go.mod that becomes
  unreadable between scan and read keeps its manifest row. An incremental run
  labels go.mod `partial` where ADR-022 says `skipped`. ADR-022 (lines 211-216)
  calls the doctor's check of the files table a known residual; the code
  (`doctor.rs:595-609`) has since been aligned with schema v2, as the note asks,
  and `HealthyWhenReady` holds with it: the note is out of date. A source file edited
  beside a test package that imports nothing loses the affinity edges to it
  until the package is resolved again.
* *Build.* A resumed build keeps the old skip label when one unread state
  replaces another.
* *Scanner.* The label comes from the size of the stat and the hash from a later
  read, so a file that grows in between may be labelled wrongly for good, since
  later runs compare hashes only; the comment in `inspect` takes the two for one.
* *Store.* A reset that dies between its deletes leaves `index_state` ready and
  unmarked with tables emptied; `Ready` in `cs-index/src/lib.rs` says complete.
* *Resolver.* Only the first `internal` of a path is judged. An import of a
  directory whose files all lack a package clause is resolved by the in-memory
  resolver and not found by the pass of the index (`NamesNoPackage`).
* *Extractor: references.* `RefsByPlace` says what the code reports; Go's notion
  of a use is another. Reported although it is not one: the variable of
  `case v := <-ch`, which `declaration_spans` has no arm for; the field keys of
  untyped struct literals inside an array or a map literal, although
  `LANGUAGES.md` §6.1 says that such keys "do not leak" (those inside a slice
  literal do not). Dropped although it is one: the keys of a literal whose type
  is a map type under a name (§6.1 calls it "a documented loss"); the constants
  that index a slice literal, `[]R{I: v}`; the uses of a name that shadows a
  predeclared one. A selector used as an index inside a callee counts as called.
  `GoFiles` has each of these forms but the shadowing.
* *Extractor: documentation.* `better_doc` calls two adjacent
  candidates impossible, which `/* outer */ const (` over a directive line makes
  possible; the comment above a `const (...)` list that is written on one line
  documents its constants, that above such a `var (...)` list nothing (no pattern
  in `defs.scm`).
* *Selection.* The joined form of `remember_me` never finds a symbol of that
  name, because the tokenizer splits at `_`; `login` does not find
  `LoginHandler` (`ALGORITHM.md`), because it does not split camelCase; S4
  matches the file and kind columns as well as the name.

## 4. What the abstractions hide

* Text is its own hash, so hash collisions are out. A syntax tree has no
  punctuation, and a comment takes one line. `MatchOrderIsIrrelevant` speaks of
  documentation only where no comment shares a line (`CommentsHaveLines`) and
  each comes right before what is on the next (`CommentsPrecede`), so that
  punctuation that is left out cannot stand between them.
* A SQLite transaction is one step and is durable: SQLite is trusted, and so are
  the tree-sitter parser (trees are inputs) and the `ignore` crate (whether a
  path is ignored is a property of the path).
* In `SharedIndex` each package depends on each, so a derived row made from any
  older version is seen as stale: the model is stricter than the code, never
  more lenient. `--rebuild`, which unlinks the file, is `ColdBuild`'s alone.
* Deletion and the manifest belong to the two detailed modules; on the shared
  file packages change version and do not vanish.

## 5. What is proved

TLAPS checks these theorems for every set of paths, texts, names, processes,
trees, repositories and tasks and for every bound. Each safety property of the
runs that pass has one.

| Theorem | Statement | Inductive invariant and why it is needed |
|---|---|---|
| `IncrementalUpdate_proofs!TypeCorrect` | `Spec => []TypeOK` | `TypeInv == TypeOK /\ ScanHeld`: planning and the fact transaction use `run.scan`, which exists only in the phases before them. |
| `...!SnapshotCorrect` | `[]SnapshotNamesFacts` | `LifecycleInv`: facts and snapshot move in different transactions, so a run that has applied its facts must hold the marker (`MarkedWhileWriting`), and the index stays ready (`StaysReady`). |
| `...!UpdateRefinesLifecycle` | `Spec => Lifecycle!Spec` | the same; `ApplyFacts` is a `Tear` on an unmarked index and an `Update` on a torn one, `ResolveNext` an `Update`, `Finalize` a `Publish`, every other action a stutter. |
| `...!PackagesCorrect` | `Spec => NoGhostPackages` (of steps) | `KnownKeys`: the package of every row is known; the garbage collection that ends the fact transaction does the rest, also for what a resumed build has left. |
| `...!RowsCorrect` | `[]NoDanglingRows` | `RowsInv == TypeInv /\ AddedAreNew /\ DerivedNamesRows /\ EdgesNameRows`: a planned run adds only files without a row, so every row that moves loses its derived rows with it. |
| `...!AffinityCorrect` | `[]AffinityNeverStale` | the same, with both ends of an affinity edge in one directory. |
| `...!RebuildCorrect` | `Spec => RebuildIsFresh` (of steps) | `RebuildInv`: a run that takes every package is, between two transactions, a cold build's pass that has come as far (`WholePass`, the invariant `PassInv` of the build). |
| `...!UpdateHealthy` | `[]HealthyWhenReady` | `HealthInv`: what the doctor looks for and the marker does not excuse: a packaged file has facts, and one without derived rows is in a package still to do (`RowsDerived`), or the index is marked. |
| `...!UpdateCoherent` | `Spec /\ []NoHiddenGain => []Coherent` | `CoherentInv`: what a run plans is about the tables it planned on (`PlanHeld`); once its facts are in, every package outside what it will select has the rows of a fresh derivation (`ScopeCovers`), and every package outside `run.todo` while it derives (`PassCovers`). |
| `...!SingleEditsCoherent` | `Spec /\ []OneChange => []Coherent` | one changed file hides no gain. |
| `...!RunIsNeverStuck`, `...!RunEnds` | `[]NextStepIsThere`, `[][RunStep => ComesNearerTheEnd]_vars` | `LifecycleInv`, and a first package in every set of them (`FirstKey`): each step of a run ends it, moves it on or leaves it fewer packages. |
| `...!UpdateSettles`, `...!RestIsKept` | of steps: an unraced fact transaction leaves nothing to find; a settled index stays settled, and unmarked it is not written at all | `RestInv`: a plan is what its scan finds changed, and an empty one is made only to repair (`PlanFound`). |
| `ColdBuild_proofs!TypeCorrect` | `[]TypeOK` | `TypeInv`, with what a process still has to ingest. |
| `...!ReadyCorrect` | `[]ReadyIsDerived` | `BuildInv`: only a process of a building index writes (`WritesWhileBuilding`); a file with derived rows has a package (`DerivedIsPackaged`); and, while packages are resolved, `PassInv`: the packages done are those before the ones to do (`PassOrder`), their rows and edges are fresh (`PassRows`, `PassEdges`) and an affinity pair stands exactly if no later package has cleared it (`PassPairs`). |
| `...!UpdateMayFollow` | `Spec => [](indexState = "ready" => Update!Init)`, the update instantiated over the build's variables | `BuildInv`, with facts for every package: the two specifications compose, and what is proved of updates is proved of the updates of every index a build makes. |
| `...!BuildRefinesLifecycle` | `Spec => Lifecycle!Spec` | `BuildInv`; `BeginBuild` is a `Begin`, `MarkReady` a `Publish`. |
| `...!BuildHealthy` | `[]HealthyWhenReady` | `BuildInv`, with facts for every package. |
| `...!ResumeCorrect`, `...!ManifestCorrect` | `[]ResumeReingests`, `[]ResumeKeepsManifest` | `ResumeInv`: unless the tree moved under an attempt (`Unraced`), every row matches the file it was made from, what is not pending carries the hash on disk, and the stored manifest is that of the tree. |
| `...!UninterruptedIsFresh` | `[](crashes = 0 => ResumeEqualsFresh)` | `UnbrokenInv`: `ResumeInv`, and while no attempt died each build had the index to itself from the start (`OwnIndex`), replaced nothing (`StoredIsScanned`) and knows just the packages in use. |
| `...!PairsBothWays` | `[](TestsComeLast => AffinityBidirectional)` | from `ReadyCorrect`. |
| `...!BuildIsNeverStuck`, `...!BuildEnds` | `[]NextStepIsThere`, `[][RunStep => ComesNearerTheEnd]_vars` | `BuildInv`; a batch takes something while something is pending (`BatchTakes`). |
| `SharedIndex_proofs!ClaimedOnceAlways` | `[]ClaimedOnce` | `IInv`: at most one claim, and none while the state is empty or not there; the statements of both repairs and the open gate keep it because state and claims move together. |
| `...!TypeCorrect` | `[]TypeOK` | `TypeInv`, which types every process by its program counter. |
| `...!ReadyCorrect` | `[]ReadyIsCompleteAlone` | `SharedInv`: two writers at once were noted (`WritersMeet`), and while none met (`AloneInv`) tables are dropped and emptied in order (`FileInv`) and the one writer knows of the file what its place in its command implies (`Phases`: build, update, derivation, repair). |
| `...!SelectionCorrect` | `[]UndisturbedSelectionIsCoherent` | `ReadInv` besides: what an undisturbed process has read so far is what the file holds, up to the table it has come to; a selection that was accepted met no reason for refusal. |
| `Scanner_proofs!TypeCorrect` | `[]TypeOK` | the property itself. |
| `...!SteadyCorrect` | `[]SteadyFilesAreListed` | `ScanInv`, phase by phase (`WalkInv`, `InspectInv`, `EndInv`): the walk has still to reach a file nothing touched, or holds it as it is. |
| `...!IndexCorrect` | `[]IndexFollowsTree` | `IndexInv` besides: a row nothing raced has the label of the content with its hash, so a run that compares hashes alone replaces all it must. |
| `...!ScanCorrect` | `[]ScanIsFunction` | `RootInv` (the root's error is an outcome of its own), `CountInv`, `OnceInv` (no entry is counted twice) and `ByteInv`: the running total is the sum of the sizes discovered, whatever the order. |
| `GoExtract_proofs!TypeCorrect` | `ExtractSpec => []ExtractTypeOK` | `PassInv`: what has been merged so far is what the matches delivered so far say (`MergedDefs`, `MergedImports`), each with a witness among them. |
| `...!DegradationCorrect` | `[]DegradationPolicy` | the same, at the end: all matches are in (`Drained`). |
| `...!ContainersCorrect` | `[]ContainersEnclose` | the same, and the one search over sorted definitions: spans of a tree nest, so the last that began before a reference encloses it or its declaration does not. |
| `...!OrderIrrelevant` | `[]OutcomeIsFunction` | the same: of a file whose comments have lines of their own, definitions, references and imports are a function of its tree. |
| `...!PlacesDecide` | `[]RefsByPlace` | the same; the places `declaration_spans` collects on its way down are those seen from the name upwards (`DeclaredIs`), the operands recorded by other matches those before a dot (`OperandsAre`), and what is above a node is above its siblings (`SiblingAbove`), so that an operand and its selector are kept or given up together. |
| `...!MergesCorrect` | `[]MatchOrderIsIrrelevant` | the same, and lemmas on comments: the block a doc comment ends is the comments on the lines that lead to it without a gap (`BlockIs`), and a sorted set has each member once (`InOrderIs`). |
| `GoResolver_proofs!VisibleBindings` | `ResolverSpec => []BindingsAreVisible` | `VisibleInv`: each stored row is one `ResolveFile` computed. |
| `...!FollowedRefs` | `[]RefsFollowImports` | `FollowedInv`: the deletion of outgoing edges takes both edges or neither. |
| `...!StreamedCorrect`, `...!TypeCorrect` | `[]StreamedAgrees`, `[]ResolverTypeOK` | `PassInv`: packages are taken in order, the rows are those of the packages done, and the edges those their files wrote, less those a later package has cleared. |
| `...!NothingDropped` | `[]NothingIsDropped` | `CountedInv`: besides `PassInv`, the statistics are the sum over the files of the packages done of what one file adds (`Tally`), whichever order a package's files are added in. |
| `...!BoundariesHold` | `[]ModuleBoundaries` | `PassInv` and the lemmas on module maps: the longest module prefix of a path, and what an `internal` segment leaves visible. |
| `TaskSelect_proofs!ModifiersNeverTerms`, `...!FragmentsKept` | `SelectSpec => []ModifiersAreFlags`, `[]FragmentsAreSignal` | `SelectInv`: of every word read, each form is a term or its flag is set (`WordKept`). |
| `...!SeedsCorrect` | `[]SeedsNameSymbols` | `SelectInv`: the seeds are those of the terms. |

`IndexStore_proofs` holds the lemmas on the store's operators that the update
and the build share: the type of a scan, of each kind of row, of the edges of a
file and of `ResolvePackage`; what a pass leaves of each package; what the
doctor's checks ask of the tables; that some package is first.

**What the disagreements take.** For each run of section 3 that refutes a
property a theorem says what it needs, and that nothing else makes it fail:
`two_changes` a file that gains a package behind the closure's back
(`UpdateCoherent`), `affinity_pairs` a directory whose test package sorts first
(`PairsBothWays`), `resume_stale` an attempt that died (`UninterruptedIsFresh`),
`torn_read` a commit during the load (`SelectionCorrect`), `two_indexers` two
writers that met or a reset that was cut (`SharedIndex_proofs!ReadyCorrect`),
`trailing_doc` a comment on a line of code, or one that punctuation parts from
what it stands above (`MergesCorrect`).

**Progress.** TLC checks the liveness properties. Their non-temporal parts are
theorems: a started run or build can always go on, each of its steps brings it
nearer its end (stages are five, packages and files finite), an update no edit
raced leaves the index settled, and a settled unmarked index is at rest. What is
left to `IndexConverges` and `BuildCompletes` is that enabled steps are taken.

**Hypotheses.** Two theorems have one besides the specification, because the
property is false without it. `NoHiddenGain`: no file enters a package of a
directory the run has selected already unless the directory counts as affected;
the `two_changes` run shows what happens otherwise. `OneChange`: a run finds at
most one changed file, as on the `single_edits` run, which checks `Coherent`
with `MaxPending` 1. The second implies the first, and holds as long as every
edit of one file is indexed before the next.

**Assumptions** are the named ASSUMEs of the modules, and TLC evaluates each on
the runs of its module: paths, texts, trees and tasks are records of the shape
used; ranks order names, paths and directories (two of one rank are one); equal
texts have one content, as equal hashes are taken to; trees and repositories are
finite; an update starts from the facts of a build (`StartsShape`); segments of
import paths are strings; `None` is no row, snapshot, scan entry, label, reason, path, number or package, so that a missing value cannot be
taken for one; a bound is a natural number. `TreeShape` of `GoExtract` is what
the parser and its grammar give: nodes in source order, a name for every
declaration, a base for pointer and generic types, nothing below an identifier,
one operand for a selector. `TaskShape` and `TokenShape`
say how a word's runs, pieces and text belong together and that a name of one
run is one token.

**Sums without induction.** The library's induction theorems take an operator as
parameter, which no installed prover can instantiate. Where a proof needs
induction over data it argues from a least counterexample instead
(`LeastNumber`, from the well-foundedness of `<` on the naturals): that the sum
of a finite set grows by the size of what is added, whichever member a fold
picks first, is proved so for the bytes of a tree (`ScanCorrect`) and the
statistics of a repository (`NothingDropped`).

**Precedence.** TLC reads `UNION S \ {p}` as `(UNION S) \ {p}` and tlapm as
`UNION (S \ {p})`; the modules parenthesise wherever the two would differ.

**Only model-checked.** The liveness properties
(`TornIsRepaired`, `IndexConverges`, `BuildCompletes`) are beyond the prover, as
is ENABLED, so that "can go on" is said in terms of the guards.

## 6. Not modelled

* Text: signatures, messages, verbatim spans, the wording and counts of
  findings, edge weights (a function of counts).
* BM25: scores are floating point computed inside FTS5; `tuning.rs` holds the
  constants of stages that do not exist yet.
* The rules of ignore files, the parser, damaged pages (`PRAGMA quick_check`), a
  file SQLite cannot read, the row limit of a snapshot load.
* Argument parsing, exit codes, commands that are not implemented.
* The git, render, mcp and bench crates, which are empty; the benchmark harness,
  the maintenance script and the fixtures.
