----------------------------- MODULE SharedIndex -----------------------------
(***************************************************************************)
(* Several contextslice processes on one index file, statement by          *)
(* statement: the open gate (cs-index lib.rs), `index` (cs-cli), the load  *)
(* of a selection snapshot with its readiness gate, and the doctor's two   *)
(* repairs.  A SQLite transaction is one step; between two steps any other *)
(* process may commit, and any process may die.                            *)
(*                                                                         *)
(* What a row says is abstracted: the tree is a set of packages, each at   *)
(* some version; the fact rows of a package carry its version, its derived *)
(* rows the facts of ALL packages they were derived from (every package    *)
(* depends on every other).  IncrementalUpdate and ColdBuild have the      *)
(* detail.  --rebuild, which unlinks the file, is ColdBuild's.             *)
(***************************************************************************)
EXTENDS Naturals, Sequences

CONSTANTS
  Proc, Pkg, None,
  Commands,      \* what the users run: a subset of AllCommands
  MaxEdits, MaxCommands, MaxCrashes

AllCommands == {"index", "select", "recreate", "reset"}
ASSUME CommandsShape == Commands \subseteq AllCommands
ASSUME BoundsShape == {MaxEdits, MaxCommands, MaxCrashes} \subseteq Nat
ASSUME NoneShape == None \notin Nat \union Pkg \union {"empty", "building", "ready"}

(* Every table, in the order both repairs go through them. *)
RepairOrder == <<"edges", "binding_targets", "bindings", "refs", "symbols", "imports",
                 "manifests", "files", "packages", "meta">>
DerivedTable == {"edges", "binding_targets", "bindings"}
FactTable    == {"refs", "symbols", "imports", "manifests", "files", "packages"}
RowTable     == DerivedTable \union FactTable
Table        == RowTable \union {"meta"}

VARIABLES
  disk,        \* [Pkg -> Nat]: the working tree
  tables,      \* the tables the file has
  rows,        \* [RowTable -> [Pkg -> what the rows say, or None]]
  meta,        \* the meta table: version, state, snapshot, marker
  proc,        \* [Proc -> the in-memory state of a process]
  edits, commands, crashes,
  claims,      \* history: begin_builds that succeeded since the index was empty
  cut,         \* history: a reset has deleted rows and has not come to its end
  contended,   \* history: two processes were writing at the same time
  disturbed    \* history, [Proc -> BOOLEAN]: another process committed during its load

file    == <<tables, rows, meta>>
history == <<claims, cut>>
vars == <<disk, file, proc, edits, commands, crashes, history, contended, disturbed>>

NoRow  == [h \in Pkg |-> None]
NoMeta == [version |-> None, state |-> None, snapshot |-> None, marker |-> FALSE]
NothingRead == [snapshot |-> None, marker |-> FALSE,
                files |-> NoRow, symbols |-> NoRow, edges |-> NoRow]
Idle   == [pc |-> "idle", command |-> None, scan |-> NoRow, todo |-> {}, engine |-> NoRow,
           step |-> 0, seen |-> None, read |-> NothingRead]

(* The parts of the program a process can be in. *)
GatePc   == {"has_meta", "foreign", "initialize", "version", "state", "tables", "snapshot"}
BuildPc  == {"claim", "ingest", "claim_in_ingest", "existing", "batch", "resolve", "engine",
             "derive", "mark_ready"}
UpdatePc == {"plan", "facts", "image", "rederive", "finalize"}
LoadPc   == {"count", "load_id", "load_marker", "load_files", "load_symbols", "load_edges",
             "gate", "selected"}
RepairPc == {"repair", "create"}
ProcPc   == {"idle", "scan", "opened", "dispatch"}
              \union GatePc \union BuildPc \union UpdatePc \union LoadPc \union RepairPc

Writing(p) == proc[p].pc \in BuildPc \union UpdatePc \union RepairPc \union {"initialize"}
Contended  == \E p, q \in Proc : p # q /\ Writing(p) /\ Writing(q)
Loading(p) == proc[p].pc \in LoadPc \ {"count"}

Goto(p, pc)  == proc' = [proc EXCEPT ![p].pc = pc]
Exit(p)      == proc' = [proc EXCEPT ![p] = Idle]
Has(ts)      == ts \subseteq tables
----------------------------------------------------------------------------
(***************************************************************************)
(* The file: fresh, a finished index of the tree, or one of an older       *)
(* schema version.                                                         *)
(***************************************************************************)
WholeRows(f) == [t \in RowTable |-> IF t \in FactTable THEN f ELSE [h \in Pkg |-> f]]
EmptyRows    == [t \in RowTable |-> NoRow]

Init ==
  /\ disk = [h \in Pkg |-> 1]
  /\ \/ tables = {} /\ rows = EmptyRows /\ meta = NoMeta
     \/ \E v \in {"current", "old"} :
          /\ tables = Table /\ rows = WholeRows(disk)
          /\ meta = [version |-> v, state |-> "ready", snapshot |-> disk, marker |-> FALSE]
  /\ proc = [p \in Proc |-> Idle]
  /\ edits = 0 /\ commands = 0 /\ crashes = 0
  /\ claims = 0 /\ cut = FALSE /\ contended = FALSE
  /\ disturbed = [p \in Proc |-> FALSE]

Edit ==
  /\ edits < MaxEdits
  /\ \E h \in Pkg : disk' = [disk EXCEPT ![h] = @ + 1]
  /\ edits' = edits + 1
  /\ UNCHANGED <<file, proc, commands, crashes, history>>

counters == <<disk, edits, commands, crashes>>

(* A user runs a command.  The repairs open the file without the gate. *)
Start(p) ==
  /\ proc[p].pc = "idle"
  /\ commands < MaxCommands
  /\ \E c \in Commands :
       proc' = [proc EXCEPT ![p] =
         [Idle EXCEPT !.command = c, !.step = 1,
                      !.pc = CASE c = "index"  -> "scan"
                               [] c = "select" -> "has_meta"
                               [] OTHER        -> "repair"]]
  /\ commands' = commands + 1
  /\ UNCHANGED <<disk, file, edits, crashes, history>>

Scan(p) ==
  /\ proc[p].pc = "scan"
  /\ proc' = [proc EXCEPT ![p].pc = "has_meta", ![p].scan = disk]
  /\ UNCHANGED <<counters, file, history>>
----------------------------------------------------------------------------
(***************************************************************************)
(* open_or_create: what an existing file must hold, read in one statement  *)
(* after the other; a missing table fails the statement.                   *)
(***************************************************************************)
HasMeta(p) ==
  /\ proc[p].pc = "has_meta"
  /\ Goto(p, IF "meta" \in tables THEN "version" ELSE "foreign")
  /\ UNCHANGED <<counters, file, history>>

(* Tables without meta are a foreign file, never initialized over. *)
CountForeign(p) ==
  /\ proc[p].pc = "foreign"
  /\ IF tables = {} THEN Goto(p, "initialize") ELSE Exit(p)
  /\ UNCHANGED <<counters, file, history>>

(* CREATE IF NOT EXISTS and INSERT OR IGNORE: one transaction that leaves  *)
(* alone whatever is there.                                                *)
InitializeSchema ==
  /\ tables' = Table
  /\ meta' = [meta EXCEPT !.version = IF @ = None THEN "current" ELSE @,
                          !.state   = IF @ = None THEN "empty" ELSE @]
  /\ UNCHANGED rows

Initialize(p) ==
  /\ proc[p].pc = "initialize"
  /\ InitializeSchema
  /\ Goto(p, "opened")
  /\ UNCHANGED <<counters, history>>

GateVersion(p) ==
  /\ proc[p].pc = "version"
  /\ IF meta.version = "current" THEN Goto(p, "state") ELSE Exit(p)
  /\ UNCHANGED <<counters, file, history>>

GateState(p) ==
  /\ proc[p].pc = "state"
  /\ IF meta.state = None THEN Exit(p)
     ELSE proc' = [proc EXCEPT ![p].pc = "tables", ![p].seen = meta.state]
  /\ UNCHANGED <<counters, file, history>>

GateTables(p) ==
  /\ proc[p].pc = "tables"
  /\ IF tables # Table THEN Exit(p)
     ELSE Goto(p, IF proc[p].seen = "ready" THEN "snapshot" ELSE "opened")
  /\ UNCHANGED <<counters, file, history>>

GateSnapshot(p) ==
  /\ proc[p].pc = "snapshot"
  /\ IF meta.snapshot = None THEN Exit(p) ELSE Goto(p, "opened")
  /\ UNCHANGED <<counters, file, history>>

Gate(p) ==
  \/ HasMeta(p) \/ CountForeign(p) \/ Initialize(p)
  \/ GateVersion(p) \/ GateState(p) \/ GateTables(p) \/ GateSnapshot(p)
----------------------------------------------------------------------------
(***************************************************************************)
(* `index`: the state is read twice, once to see whether there is an index *)
(* to update and once to see whether there is a build to join.             *)
(***************************************************************************)
Opened(p) ==
  /\ proc[p].pc = "opened"
  /\ Goto(p, IF proc[p].command = "select" THEN "count"
             ELSE IF meta.state = "ready" THEN "plan" ELSE "dispatch")
  /\ UNCHANGED <<counters, file, history>>

Dispatch(p) ==
  /\ proc[p].pc = "dispatch"
  /\ Goto(p, IF meta.state = "building" THEN "ingest" ELSE "claim")
  /\ UNCHANGED <<counters, file, history>>

(* Mutant: begin_build as a read of the state and a blind write. *)
ClaimBlindly ==
  /\ meta' = [meta EXCEPT !.state = "building"]
  /\ claims' = claims + 1
  /\ UNCHANGED <<tables, rows, cut>>

(* begin_build: the guarded UPDATE flips an empty index and nothing else.  *)
ClaimEmpty ==
  /\ meta.state = "empty"
  /\ meta' = [meta EXCEPT !.state = "building"]
  /\ claims' = claims + 1
  /\ UNCHANGED <<tables, rows, cut>>

Claim(p) ==
  /\ \/ proc[p].pc = "claim" /\ Goto(p, "ingest")
     \/ proc[p].pc = "claim_in_ingest" /\ Goto(p, "existing")
  /\ ClaimEmpty
  /\ UNCHANGED counters

(* No row matched: StateConflict. *)
ClaimConflict(p) ==
  /\ proc[p].pc \in {"claim", "claim_in_ingest"}
  /\ meta.state # "empty"
  /\ Exit(p)
  /\ UNCHANGED <<counters, file, history>>

Ingest(p) ==
  /\ proc[p].pc = "ingest"
  /\ CASE meta.state = "empty"    -> Goto(p, "claim_in_ingest")
       [] meta.state = "building" -> Goto(p, "existing")
       [] OTHER                   -> Exit(p)
  /\ UNCHANGED <<counters, file, history>>

(* The packages a fact pass must write: those whose stored hashes differ.  *)
Stale(p) == {h \in Pkg : rows["files"][h] # proc[p].scan[h]}

LoadExisting(p) ==
  /\ proc[p].pc = "existing"
  /\ IF Has({"files"}) THEN proc' = [proc EXCEPT ![p].pc = "batch", ![p].todo = Stale(p)]
     ELSE Exit(p)
  /\ UNCHANGED <<counters, file, history>>

(* New fact rows for hs; the derived rows of the replaced files cascade.   *)
WriteFacts(hs, f) ==
  rows' = [t \in RowTable |->
             [h \in Pkg |-> IF h \notin hs THEN rows[t][h]
                            ELSE IF t \in FactTable THEN f[h] ELSE None]]

IngestBatch(p) ==
  /\ proc[p].pc = "batch"
  /\ Has(Table)
  /\ \E h \in proc[p].todo :
       /\ WriteFacts({h}, proc[p].scan)
       /\ proc' = [proc EXCEPT ![p].todo = @ \ {h}]
  /\ UNCHANGED <<counters, tables, meta, history>>

IngestDone(p) ==
  /\ proc[p].pc = "batch"
  /\ proc[p].todo = {}
  /\ Goto(p, "resolve")
  /\ UNCHANGED <<counters, file, history>>

Resolve(p) ==
  /\ proc[p].pc = "resolve"
  /\ IF meta.state = "building" THEN Goto(p, "engine") ELSE Exit(p)
  /\ UNCHANGED <<counters, file, history>>

(* DeriveEngine::build: the image every package is resolved against.       *)
BuildEngine(p) ==
  /\ proc[p].pc \in {"engine", "image"}
  /\ IF Has(FactTable)
     THEN proc' = [proc EXCEPT ![p].pc = IF @ = "engine" THEN "derive" ELSE "rederive",
                               ![p].engine = rows["files"],
                               ![p].todo = {h \in Pkg : rows["files"][h] # None}]
     ELSE Exit(p)
  /\ UNCHANGED <<counters, file, history>>

DerivePackage(p) ==
  /\ proc[p].pc \in {"derive", "rederive"}
  /\ Has(Table)
  /\ \E h \in proc[p].todo :
       /\ rows' = [t \in RowTable |-> IF t \in DerivedTable
                                      THEN [rows[t] EXCEPT ![h] = proc[p].engine]
                                      ELSE rows[t]]
       /\ proc' = [proc EXCEPT ![p].todo = @ \ {h}]
  /\ UNCHANGED <<counters, tables, meta, history>>

Derived(p) ==
  /\ proc[p].pc \in {"derive", "rederive"}
  /\ proc[p].todo = {}
  /\ Goto(p, IF proc[p].pc = "derive" THEN "mark_ready" ELSE "finalize")
  /\ UNCHANGED <<counters, file, history>>

MarkReady(p) ==
  /\ proc[p].pc = "mark_ready"
  /\ meta.state = "building"
  /\ meta' = [meta EXCEPT !.state = "ready", !.snapshot = proc[p].engine]
  /\ Exit(p)
  /\ UNCHANGED <<counters, tables, rows, history>>

MarkReadyConflict(p) ==
  /\ proc[p].pc = "mark_ready"
  /\ meta.state # "building"
  /\ Exit(p)
  /\ UNCHANGED <<counters, file, history>>
----------------------------------------------------------------------------
(***************************************************************************)
(* update_incremental.                                                     *)
(***************************************************************************)
(* The state, the marker and the files are read; nothing changed and no    *)
(* torn run to repair is the fast path.                                    *)
Plan(p) ==
  /\ proc[p].pc = "plan"
  /\ IF meta.state # "ready" \/ ~Has({"files"}) \/ (Stale(p) = {} /\ ~meta.marker)
     THEN Exit(p)
     ELSE proc' = [proc EXCEPT ![p].pc = "facts", ![p].todo = Stale(p)]
  /\ UNCHANGED <<counters, file, history>>

ApplyFacts(p) ==
  /\ proc[p].pc = "facts"
  /\ Has(Table)
  /\ WriteFacts(proc[p].todo, proc[p].scan)
  /\ meta' = [meta EXCEPT !.marker = TRUE]
  /\ Goto(p, "image")
  /\ UNCHANGED <<counters, tables, history>>

(* Mutant: the marker goes and the snapshot id stays. *)
FinalizeMarkerOnly(p) ==
  /\ proc[p].pc = "finalize"
  /\ Has(Table)
  /\ meta' = [meta EXCEPT !.marker = FALSE]
  /\ Exit(p)
  /\ UNCHANGED <<counters, tables, rows, history>>

Finalize(p) ==
  /\ proc[p].pc = "finalize"
  /\ Has(Table)
  /\ meta' = [meta EXCEPT !.snapshot = rows["files"], !.marker = FALSE]
  /\ Exit(p)
  /\ UNCHANGED <<counters, tables, rows, history>>
----------------------------------------------------------------------------
(***************************************************************************)
(* load_selection_snapshot and require_ready_snapshot.                     *)
(***************************************************************************)
(* The row counts are taken first: a missing table fails the load. *)
CountRows(p) ==
  /\ proc[p].pc = "count"
  /\ IF Has({"files", "symbols", "edges"}) THEN Goto(p, "load_id") ELSE Exit(p)
  /\ UNCHANGED <<counters, file, history>>

LoadId(p) ==
  /\ proc[p].pc = "load_id"
  /\ IF Has({"meta"})
     THEN proc' = [proc EXCEPT ![p].pc = "load_marker", ![p].read.snapshot = meta.snapshot]
     ELSE Exit(p)
  /\ UNCHANGED <<counters, file, history>>

LoadMarker(p) ==
  /\ proc[p].pc = "load_marker"
  /\ IF Has({"meta"})
     THEN proc' = [proc EXCEPT ![p].pc = "load_files", ![p].read.marker = meta.marker]
     ELSE Exit(p)
  /\ UNCHANGED <<counters, file, history>>

(* Rows of table t joined to the files they belong to. *)
Joined(t) == [h \in Pkg |-> IF rows["files"][h] = None THEN None ELSE rows[t][h]]

LoadRows(p, from, to, t) ==
  /\ proc[p].pc = from
  /\ IF Has({"files", "packages", t})
     THEN proc' = [proc EXCEPT ![p].pc = to, ![p].read[t] = Joined(t)]
     ELSE Exit(p)
  /\ UNCHANGED <<counters, file, history>>

(* Mutant: an id is enough. *)
RefusedWithoutId(p) == proc[p].read.snapshot = None

(* The gate looks at the marker and at the id, not at index_state. *)
Refused(p) == proc[p].read.marker \/ proc[p].read.snapshot = None

RequireReady(p) ==
  /\ proc[p].pc = "gate"
  /\ IF Refused(p) THEN Exit(p) ELSE Goto(p, "selected")
  /\ UNCHANGED <<counters, file, history>>

Finish(p) ==
  /\ proc[p].pc = "selected"
  /\ Exit(p)
  /\ UNCHANGED <<counters, file, history>>

Load(p) ==
  \/ CountRows(p) \/ LoadId(p) \/ LoadMarker(p)
  \/ LoadRows(p, "load_files", "load_symbols", "files")
  \/ LoadRows(p, "load_symbols", "load_edges", "symbols")
  \/ LoadRows(p, "load_edges", "gate", "edges")
  \/ RequireReady(p) \/ Finish(p)
----------------------------------------------------------------------------
(***************************************************************************)
(* Doctor::repair: every statement commits by itself.                      *)
(***************************************************************************)
Emptied(t) == rows' = IF t = "meta" THEN rows ELSE [rows EXCEPT ![t] = NoRow]

(* RepairPolicy::Rebuild drops the tables one by one ... *)
DropNext(p) ==
  /\ proc[p].pc = "repair" /\ proc[p].command = "recreate"
  /\ LET t == RepairOrder[proc[p].step]
     IN  /\ tables' = tables \ {t}
         /\ Emptied(t)
         /\ IF t = "meta" THEN meta' = NoMeta /\ claims' = 0 /\ cut' = FALSE
                          ELSE UNCHANGED <<meta, history>>
  /\ proc' = [proc EXCEPT ![p].step = @ + 1,
                          ![p].pc = IF proc[p].step = Len(RepairOrder) THEN "create" ELSE @]
  /\ UNCHANGED counters

(* ... and creates the schema in one transaction. *)
Recreate(p) ==
  /\ proc[p].pc = "create"
  /\ InitializeSchema
  /\ Exit(p)
  /\ UNCHANGED <<counters, history>>

(* RepairPolicy::ResetToEmpty deletes the rows table by table, then resets *)
(* the state, the snapshot id and the marker.                              *)
ResetNext(p) ==
  /\ proc[p].pc = "repair" /\ proc[p].command = "reset"
  /\ LET n == proc[p].step
     IN  /\ RepairOrder[IF n > 10 THEN 10 ELSE n] \in tables
         /\ IF n < 10 THEN Emptied(RepairOrder[n]) ELSE UNCHANGED rows
         /\ meta' = CASE n = 10 -> [meta EXCEPT !.state = IF @ = None THEN None ELSE "empty"]
                      [] n = 11 -> [meta EXCEPT !.snapshot = None]
                      [] n = 12 -> [meta EXCEPT !.marker = FALSE]
                      [] OTHER  -> meta
         /\ claims' = IF n = 10 THEN 0 ELSE claims
         /\ cut' = (n # 12)
         /\ proc' = [proc EXCEPT ![p] = IF n = 12 THEN Idle ELSE [@ EXCEPT !.step = n + 1]]
  /\ UNCHANGED <<counters, tables>>

Repair(p) == DropNext(p) \/ Recreate(p) \/ ResetNext(p)
----------------------------------------------------------------------------
(* A table a transaction needs is gone. *)
TableMissing(p) ==
  /\ \/ proc[p].pc \in {"batch", "derive", "rederive", "facts", "finalize"} /\ tables # Table
     \/ /\ proc[p].pc = "repair" /\ proc[p].command = "reset"
        /\ RepairOrder[IF proc[p].step > 10 THEN 10 ELSE proc[p].step] \notin tables
  /\ Exit(p)
  /\ UNCHANGED <<counters, file, history>>

(* A transaction meets another writer's: busy_timeout is 0, it fails at    *)
(* once with Locked, and so does an insert of a row the other has written. *)
Locked(p) ==
  /\ Writing(p)
  /\ \E q \in Proc \ {p} : Writing(q)
  /\ Exit(p)
  /\ UNCHANGED <<counters, file, history>>

Crash(p) ==
  /\ proc[p].pc # "idle"
  /\ crashes < MaxCrashes
  /\ Exit(p)
  /\ crashes' = crashes + 1
  /\ UNCHANGED <<disk, file, edits, commands, history>>

Build(p) ==
  \/ Claim(p) \/ ClaimConflict(p) \/ Ingest(p) \/ LoadExisting(p) \/ IngestBatch(p)
  \/ IngestDone(p) \/ Resolve(p) \/ BuildEngine(p) \/ DerivePackage(p) \/ Derived(p)
  \/ MarkReady(p) \/ MarkReadyConflict(p)

Update(p) == Plan(p) \/ ApplyFacts(p) \/ Finalize(p)

Step(p) ==
  \/ Scan(p) \/ Gate(p) \/ Opened(p) \/ Dispatch(p)
  \/ Build(p) \/ Update(p) \/ Load(p) \/ Repair(p)
  \/ TableMissing(p) \/ Locked(p)

Next ==
  /\ Edit \/ \E p \in Proc : Start(p) \/ Step(p) \/ Crash(p)
  /\ contended' = (contended \/ Contended')
  /\ disturbed' = [p \in Proc |-> Loading(p)' /\ (disturbed[p] \/ file' # file)]

Spec == Init /\ [][Next]_vars

----------------------------------------------------------------------------
Version  == 1..(MaxEdits + 1)
Facts    == [Pkg -> Version \union {None}]

(* A table that is not there has no rows. *)
TypeOK ==
  /\ disk \in [Pkg -> Version]
  /\ tables \subseteq Table
  /\ DOMAIN rows = RowTable
  /\ \A t \in FactTable : rows[t] \in Facts
  /\ \A t \in DerivedTable : rows[t] \in [Pkg -> Facts \union {None}]
  /\ meta.version \in {"current", "old", None}
  /\ meta.state \in {"empty", "building", "ready", None}
  /\ meta.snapshot \in Facts \union {None}
  /\ meta.marker \in BOOLEAN
  /\ \A t \in RowTable \ tables : rows[t] = NoRow
  /\ "meta" \notin tables => meta = NoMeta
  /\ \A p \in Proc : proc[p].pc \in ProcPc
  /\ claims \in Nat
  /\ {cut, contended} \union {disturbed[p] : p \in Proc} \subseteq BOOLEAN

(* An index is claimed by one begin_build between two times it is empty,   *)
(* however many processes found it empty (the guarded UPDATE, ADR-022 D7). *)
ClaimedOnce == claims <= 1

Complete ==
  /\ \A t \in FactTable : rows[t] = meta.snapshot
  /\ \A t \in DerivedTable : \A h \in Pkg : rows[t][h] = meta.snapshot

(* What an open accepts as ready and unmarked. *)
Readable == tables = Table /\ meta.state = "ready" /\ ~meta.marker

(* Ready: "the index is complete and coherent; slices may read it" (lib.rs *)
(* IndexState).                                                            *)
ReadyIsComplete == Readable => Complete

(* It is, as long as no two processes have written at the same time and no *)
(* reset was cut short; a reset that ends, and a rebuild dying wherever it *)
(* may, keep the promise.                                                  *)
ReadyIsCompleteAlone == Readable /\ ~contended /\ ~cut => Complete

(* A selection that passed the gate holds the rows of the build its id     *)
(* names.                                                                  *)
Coherent(read) ==
  /\ read.files = read.snapshot
  /\ read.symbols = read.snapshot
  /\ \A h \in Pkg : read.edges[h] = read.snapshot

SelectionIsCoherent == \A p \in Proc : proc[p].pc = "selected" => Coherent(proc[p].read)

(* It does when nothing was committed during the load, although the gate   *)
(* never looks at index_state: but for a reset cut short, an id without a  *)
(* marker is never found in an index that is empty, building or dropped.   *)
UndisturbedSelectionIsCoherent ==
  \A p \in Proc : proc[p].pc = "selected" /\ ~disturbed[p] /\ ~contended /\ ~cut
                     => Coherent(proc[p].read)
=============================================================================
