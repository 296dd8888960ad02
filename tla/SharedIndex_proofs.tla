------------------------- MODULE SharedIndex_proofs -------------------------
(***************************************************************************)
(* What holds of an index several processes share, for any number of them, *)
(* of packages and of commands, and wherever any of them dies: it is       *)
(* claimed by one begin_build between two times it is empty; and while no  *)
(* two processes have written at the same time and no reset was cut short, *)
(* ready means complete, and a selection nobody disturbs is coherent.      *)
(*                                                                         *)
(* The second part is a proof about writers: a process that writes alone   *)
(* knows, at each of its steps, what the file holds (Phases); the file     *)
(* itself keeps FileInv; and a step of one process leaves what the others  *)
(* know alone, since only who writes knows anything.                       *)
(***************************************************************************)
EXTENDS SharedIndex, TLAPS

(* ClaimedOnce is not inductive: that the flip finds no claim made before  *)
(* it needs that an index without a state, or with an empty one, has none. *)
Unclaimed == meta.state \in {None, "empty"} => claims = 0
IInv == "state" \in DOMAIN meta /\ claims \in {0, 1} /\ Unclaimed

LEMMA InitClaims == Init => IInv
BY DEF Init, IInv, Unclaimed, NoMeta

(* What a step that leaves the meta table alone, or changes another field  *)
(* of it than the state, preserves.                                        *)
LEMMA SameState ==
  ASSUME IInv, claims' = claims, DOMAIN meta' = DOMAIN meta, meta'.state = meta.state
  PROVE  IInv'
BY DEF IInv, Unclaimed

LEMMA Untouched == ASSUME IInv, UNCHANGED <<meta, claims>> PROVE IInv'
BY DEF IInv, Unclaimed

LEMMA InitializeSchemaClaims == ASSUME IInv, InitializeSchema, claims' = claims PROVE IInv'
BY NoneShape DEF IInv, Unclaimed, InitializeSchema

LEMMA ClaimEmptyClaims == ASSUME IInv, ClaimEmpty PROVE IInv'
BY NoneShape DEF IInv, Unclaimed, ClaimEmpty

LEMMA ResetClaims ==
  ASSUME IInv, NEW p \in Proc, ResetNext(p)
  PROVE  IInv'
<1> DEFINE n == proc[p].step
<1>1. meta' = CASE n = 10 -> [meta EXCEPT !.state = IF @ = None THEN None ELSE "empty"]
                [] n = 11 -> [meta EXCEPT !.snapshot = None]
                [] n = 12 -> [meta EXCEPT !.marker = FALSE]
                [] OTHER  -> meta
  BY DEF ResetNext
<1>2. claims' = IF n = 10 THEN 0 ELSE claims
  BY DEF ResetNext
<1> HIDE DEF n
<1>3. CASE n = 10
  BY <1>1, <1>2, <1>3, NoneShape DEF IInv, Unclaimed
<1>4. CASE n # 10
  <2>1. claims' = claims
    BY <1>2, <1>4
  <2>2. DOMAIN meta' = DOMAIN meta /\ meta'.state = meta.state
    BY <1>1, <1>4 DEF IInv
  <2> QED BY <2>1, <2>2, SameState
<1> QED BY <1>3, <1>4

LEMMA DropClaims ==
  ASSUME IInv, NEW p \in Proc, DropNext(p)
  PROVE  IInv'
<1>1. \/ meta' = NoMeta /\ claims' = 0
      \/ UNCHANGED <<meta, claims>>
  BY DEF DropNext, history
<1> QED BY <1>1, Untouched DEF IInv, Unclaimed, NoMeta

LEMMA RepairClaims ==
  ASSUME IInv, NEW p \in Proc, Repair(p)
  PROVE  IInv'
<1>1. CASE DropNext(p)
  BY <1>1, DropClaims
<1>2. CASE Recreate(p)
  BY <1>2, InitializeSchemaClaims DEF Recreate, history
<1>3. CASE ResetNext(p)
  BY <1>3, ResetClaims
<1> QED BY <1>1, <1>2, <1>3 DEF Repair

LEMMA BuildClaims ==
  ASSUME IInv, NEW p \in Proc, Build(p)
  PROVE  IInv'
<1>1. CASE Claim(p)
  BY <1>1, ClaimEmptyClaims DEF Claim
<1>2. CASE MarkReady(p)
  BY <1>2, NoneShape DEF MarkReady, history, IInv, Unclaimed
<1>3. CASE \/ ClaimConflict(p) \/ Ingest(p) \/ LoadExisting(p) \/ IngestBatch(p)
           \/ IngestDone(p) \/ Resolve(p) \/ BuildEngine(p) \/ DerivePackage(p)
           \/ Derived(p) \/ MarkReadyConflict(p)
  <2>1. UNCHANGED <<meta, claims>>
    BY <1>3 DEF ClaimConflict, Ingest, LoadExisting, IngestBatch, IngestDone, Resolve,
                BuildEngine, DerivePackage, Derived, MarkReadyConflict, file, history
  <2> QED BY <2>1, Untouched
<1> QED BY <1>1, <1>2, <1>3 DEF Build

LEMMA UpdateClaims ==
  ASSUME IInv, NEW p \in Proc, Update(p)
  PROVE  IInv'
<1>1. CASE Plan(p)
  BY <1>1, Untouched DEF Plan, file, history
<1>2. CASE ApplyFacts(p)
  <2>1. claims' = claims /\ meta' = [meta EXCEPT !.marker = TRUE]
    BY <1>2 DEF ApplyFacts, history
  <2>2. DOMAIN meta' = DOMAIN meta /\ meta'.state = meta.state
    BY <2>1 DEF IInv
  <2> QED BY <2>1, <2>2, SameState
<1>3. CASE Finalize(p)
  <2>1. claims' = claims /\ meta' = [meta EXCEPT !.snapshot = rows["files"], !.marker = FALSE]
    BY <1>3 DEF Finalize, history
  <2>2. DOMAIN meta' = DOMAIN meta /\ meta'.state = meta.state
    BY <2>1 DEF IInv
  <2> QED BY <2>1, <2>2, SameState
<1> QED BY <1>1, <1>2, <1>3 DEF Update

LEMMA GateClaims ==
  ASSUME IInv, NEW p \in Proc, Gate(p)
  PROVE  IInv'
<1>1. CASE Initialize(p)
  BY <1>1, InitializeSchemaClaims DEF Initialize, history
<1>2. CASE \/ HasMeta(p) \/ CountForeign(p) \/ GateVersion(p) \/ GateState(p)
           \/ GateTables(p) \/ GateSnapshot(p)
  <2>1. UNCHANGED <<meta, claims>>
    BY <1>2 DEF HasMeta, CountForeign, GateVersion, GateState, GateTables, GateSnapshot,
                file, history
  <2> QED BY <2>1, Untouched
<1> QED BY <1>1, <1>2 DEF Gate

LEMMA StepClaims ==
  ASSUME IInv, NEW p \in Proc, Step(p)
  PROVE  IInv'
<1>1. CASE Gate(p) \/ Build(p) \/ Update(p) \/ Repair(p)
  BY <1>1, GateClaims, BuildClaims, UpdateClaims, RepairClaims
<1>2. CASE Load(p)
  <2>1. UNCHANGED <<meta, claims>>
    BY <1>2 DEF Load, CountRows, LoadId, LoadMarker, LoadRows, RequireReady, Finish,
                file, history
  <2> QED BY <2>1, Untouched
<1>3. CASE Scan(p) \/ Opened(p) \/ Dispatch(p) \/ TableMissing(p) \/ Locked(p)
  <2>1. UNCHANGED <<meta, claims>>
    BY <1>3 DEF Scan, Opened, Dispatch, TableMissing, Locked, file, history
  <2> QED BY <2>1, Untouched
<1> QED BY <1>1, <1>2, <1>3 DEF Step

LEMMA NextClaims == IInv /\ [Next]_vars => IInv'
<1> SUFFICES ASSUME IInv, [Next]_vars
             PROVE  IInv'
  OBVIOUS
<1>1. CASE Edit
  BY <1>1, Untouched DEF Edit, file, history
<1>2. ASSUME NEW p \in Proc, Start(p) \/ Crash(p)
      PROVE  IInv'
  BY <1>2, Untouched DEF Start, Crash, file, history
<1>3. ASSUME NEW p \in Proc, Step(p)
      PROVE  IInv'
  BY <1>3, StepClaims
<1>4. CASE UNCHANGED vars
  BY <1>4, Untouched DEF vars, file, history
<1> QED BY <1>1, <1>2, <1>3, <1>4 DEF Next

(* ClaimedOnce: no second begin_build succeeds on an index that is being   *)
(* built or is ready, for any number of processes (lib.rs, begin_build).   *)
THEOREM ClaimedOnceAlways == Spec => []ClaimedOnce
<1>1. IInv => ClaimedOnce
  BY DEF IInv, ClaimedOnce
<1> QED BY InitClaims, NextClaims, <1>1, PTL DEF Spec
(***************************************************************************)
(* What the state is made of.                                              *)
(***************************************************************************)
MetaRow ==
  [version : {"current", "old", None}, state : {"empty", "building", "ready", None},
   snapshot : Facts \union {None}, marker : BOOLEAN]

ReadState ==
  [snapshot : Facts \union {None}, marker : BOOLEAN,
   files : Facts, symbols : Facts, edges : [Pkg -> Facts \union {None}]]

ProcState ==
  [pc : ProcPc, command : AllCommands \union {None}, scan : Facts, todo : SUBSET Pkg,
   engine : Facts, step : 0..12, seen : {"empty", "building", "ready", None},
   read : ReadState]

(* A version of every package: what a scan of the tree finds. *)
Full == [Pkg -> Version]

FileType ==
  /\ tables \subseteq Table
  /\ DOMAIN rows = RowTable
  /\ \A t \in FactTable : rows[t] \in Facts
  /\ \A t \in DerivedTable : rows[t] \in [Pkg -> Facts \union {None}]
  /\ \A t \in RowTable \ tables : rows[t] = NoRow
  /\ meta \in MetaRow
  /\ "meta" \notin tables => meta = NoMeta

(* Where a process is tells what it was started for and what it has read.  *)
Commanded(s) ==
  /\ s.pc = "scan" => s.command = "index"
  /\ s.pc \in GatePc \union {"opened"} => s.command \in {"index", "select"}
  /\ s.pc \in {"dispatch"} \union BuildPc \union UpdatePc => s.command = "index"
  /\ s.pc \notin {"idle", "scan"} /\ s.command = "index" => s.scan \in Full
  /\ s.pc = "repair" => s.command \in {"recreate", "reset"} /\ s.step \in 1..12
  /\ s.pc = "repair" /\ s.command = "recreate" => s.step \in 1..10

ProcType ==
  /\ proc \in [Proc -> ProcState]
  /\ \A p \in Proc : Commanded(proc[p])

TreeType ==
  /\ edits \in 0..MaxEdits
  /\ disk \in [Pkg -> 1..(edits + 1)]

HistoryType ==
  /\ claims \in Nat
  /\ cut \in BOOLEAN
  /\ contended \in BOOLEAN
  /\ disturbed \in [Proc -> BOOLEAN]

TypeInv == FileType /\ ProcType /\ TreeType /\ HistoryType

LEMMA DiskIsFull == ASSUME TreeType PROVE disk \in Full /\ Full \subseteq Facts
BY BoundsShape DEF TreeType, Full, Version, Facts

LEMMA TypeInvImplies == TypeInv => TypeOK
<1> SUFFICES ASSUME TypeInv PROVE TypeOK
  OBVIOUS
<1>1. disk \in [Pkg -> Version]
  BY DiskIsFull DEF TypeInv, Full
<1>2. /\ meta.version \in {"current", "old", None}
      /\ meta.state \in {"empty", "building", "ready", None}
      /\ meta.snapshot \in Facts \union {None}
      /\ meta.marker \in BOOLEAN
  BY DEF TypeInv, FileType, MetaRow
<1>3. \A p \in Proc : proc[p].pc \in ProcPc
  BY DEF TypeInv, ProcType, ProcState
<1>4. {cut, contended} \union {disturbed[p] : p \in Proc} \subseteq BOOLEAN
  BY DEF TypeInv, HistoryType
<1> QED BY <1>1, <1>2, <1>3, <1>4 DEF TypeInv, TypeOK, FileType, HistoryType

LEMMA NoRows == NoRow \in Facts /\ NoRow \in [Pkg -> Facts \union {None}]
BY DEF NoRow, Facts

LEMMA IdleIsState == Idle \in ProcState /\ Commanded(Idle)
<1>1. NothingRead \in ReadState
  BY NoRows DEF NothingRead, ReadState
<1>2. "idle" \in ProcPc /\ "idle" \notin GatePc \union BuildPc \union UpdatePc
  BY DEF ProcPc, GatePc, BuildPc, UpdatePc
<1>3. Idle \in ProcState
  BY <1>1, <1>2, NoRows DEF Idle, ProcState
<1> QED BY <1>2, <1>3 DEF Idle, Commanded

LEMMA Order ==
  /\ Len(RepairOrder) = 10
  /\ RepairOrder[1] = "edges" /\ RepairOrder[10] = "meta"
  /\ \A i \in 1..9 : RepairOrder[i] \in RowTable
  /\ \A t \in RowTable : \E i \in 1..9 : RepairOrder[i] = t
  /\ "meta" \notin RowTable
BY DEF RepairOrder, RowTable, FactTable, DerivedTable

LEMMA Kinds == FactTable \intersect DerivedTable = {} /\ RowTable = FactTable \union DerivedTable
BY DEF RowTable, FactTable, DerivedTable

(* The three ways a process moves. *)
LEMMA GotoMoves ==
  ASSUME ProcType, NEW p \in Proc, NEW pc \in ProcPc, Goto(p, pc),
         Commanded([proc[p] EXCEPT !.pc = pc])
  PROVE  ProcType' /\ proc'[p] = [proc[p] EXCEPT !.pc = pc]
<1>1. proc' = [proc EXCEPT ![p] = [proc[p] EXCEPT !.pc = pc]]
  BY DEF Goto, ProcType
<1>2. [proc[p] EXCEPT !.pc = pc] \in ProcState
  BY DEF ProcType, ProcState
<1> QED BY <1>1, <1>2 DEF ProcType

LEMMA ExitMoves ==
  ASSUME ProcType, NEW p \in Proc, Exit(p)
  PROVE  ProcType' /\ proc'[p] = Idle
BY IdleIsState DEF Exit, ProcType

(***************************************************************************)
(* Types, action by action.                                                *)
(***************************************************************************)
LEMMA FileTypeSame == ASSUME FileType, UNCHANGED file PROVE FileType'
BY DEF FileType, file

LEMMA StartProc ==
  ASSUME TypeInv, NEW p \in Proc, Start(p)
  PROVE  ProcType'
<1>1. PICK c \in Commands :
        proc' = [proc EXCEPT ![p] =
          [Idle EXCEPT !.command = c, !.step = 1,
                       !.pc = CASE c = "index"  -> "scan"
                                [] c = "select" -> "has_meta"
                                [] OTHER        -> "repair"]]
  BY DEF Start
<1>2. c \in AllCommands /\ c \in {"index", "select", "recreate", "reset"}
  BY CommandsShape DEF AllCommands
<1>3. PICK pc \in ProcPc :
        /\ pc \in {"scan", "has_meta", "repair"}
        /\ pc = "scan" => c = "index"
        /\ pc = "has_meta" => c = "select"
        /\ pc = "repair" => c \in {"recreate", "reset"}
        /\ pc = CASE c = "index"  -> "scan"
                  [] c = "select" -> "has_meta"
                  [] OTHER        -> "repair"
  BY <1>2 DEF ProcPc, GatePc, RepairPc
<1>4. PICK r \in ProcState : r = Idle
  BY IdleIsState
<1>5. PICK s : s = [r EXCEPT !.command = c, !.step = 1, !.pc = pc]
  OBVIOUS
<1>6. s \in ProcState /\ s.pc = pc /\ s.command = c /\ s.step = 1
  <2>1. s = [pc |-> pc, command |-> c, scan |-> r.scan, todo |-> r.todo, engine |-> r.engine,
             step |-> 1, seen |-> r.seen, read |-> r.read]
    BY <1>5 DEF ProcState
  <2> QED BY <1>2, <2>1 DEF ProcState
<1>7. Commanded(s)
  BY <1>3, <1>6 DEF Commanded, GatePc, BuildPc, UpdatePc
<1>8. proc' = [proc EXCEPT ![p] = s]
  BY <1>1, <1>3, <1>4, <1>5
<1> QED BY <1>6, <1>7, <1>8 DEF TypeInv, ProcType

LEMMA ScanProc ==
  ASSUME TypeInv, NEW p \in Proc, Scan(p)
  PROVE  ProcType'
<1> DEFINE s == [proc[p] EXCEPT !.pc = "has_meta", !.scan = disk]
<1>1. proc' = [proc EXCEPT ![p] = s]
  BY DEF Scan, TypeInv, ProcType
<1>2. disk \in Full /\ disk \in Facts
  BY DiskIsFull DEF TypeInv
<1>3. proc[p] \in ProcState /\ proc[p].command = "index"
  BY DEF TypeInv, ProcType, Commanded, Scan
<1>4. "has_meta" \in ProcPc /\ "has_meta" \notin BuildPc \union UpdatePc
  BY DEF ProcPc, GatePc, BuildPc, UpdatePc
<1>5. s \in ProcState /\ s.pc = "has_meta" /\ s.command = "index" /\ s.scan \in Full
  BY <1>2, <1>3, <1>4 DEF ProcState
<1>6. Commanded(s)
  BY <1>4, <1>5 DEF Commanded
<1> QED BY <1>1, <1>5, <1>6 DEF TypeInv, ProcType

(* A move within what the command of the process allows. *)
LEMMA WithinCommand ==
  ASSUME NEW s \in ProcState, Commanded(s), s.pc \notin {"idle", "scan"},
         NEW pc \in ProcPc \ {"repair", "scan"},
         pc \in GatePc \union {"opened"} => s.command \in {"index", "select"},
         pc \in {"dispatch"} \union BuildPc \union UpdatePc => s.command = "index"
  PROVE  Commanded([s EXCEPT !.pc = pc])
<1> DEFINE r == [s EXCEPT !.pc = pc]
<1>1. r.pc = pc /\ r.command = s.command /\ r.scan = s.scan /\ r.step = s.step
  BY DEF ProcState
<1> QED BY <1>1 DEF Commanded

LEMMA GateProc ==
  ASSUME TypeInv, NEW p \in Proc, Gate(p)
  PROVE  ProcType'
<1>1. proc[p].pc \in GatePc /\ proc[p].command \in {"index", "select"}
  BY DEF Gate, HasMeta, CountForeign, Initialize, GateVersion, GateState, GateTables, GateSnapshot,
         GatePc, TypeInv, ProcType, Commanded
<1>2. ASSUME NEW pc \in GatePc \union {"opened"}, Goto(p, pc)
      PROVE  ProcType'
  <2>1. pc \in ProcPc \ {"repair", "scan"} /\ pc \notin {"dispatch"} \union BuildPc \union UpdatePc
    BY DEF ProcPc, GatePc, BuildPc, UpdatePc
  <2>2. proc[p].pc \notin {"idle", "scan"}
    BY <1>1 DEF GatePc
  <2>3. Commanded([proc[p] EXCEPT !.pc = pc])
    BY <1>1, <2>1, <2>2, WithinCommand DEF TypeInv, ProcType
  <2> QED BY <1>2, <2>1, <2>3, GotoMoves DEF TypeInv
<1>3. CASE Exit(p)
  BY <1>3, ExitMoves DEF TypeInv
<1>4. CASE GateState(p)
  <2>1. CASE Exit(p)
    BY <2>1, <1>3
  <2>2. CASE ~Exit(p)
    <3> DEFINE s == [proc[p] EXCEPT !.pc = "tables", !.seen = meta.state]
    <3>1. proc' = [proc EXCEPT ![p] = s]
      BY <1>4, <2>2 DEF GateState, TypeInv, ProcType
    <3>2. "tables" \in ProcPc /\ "tables" \notin {"dispatch"} \union BuildPc \union UpdatePc
      BY DEF ProcPc, GatePc, BuildPc, UpdatePc
    <3>3. meta.state \in {"empty", "building", "ready", None}
      BY DEF TypeInv, FileType, MetaRow
    <3>4. proc[p] \in ProcState /\ Commanded(proc[p])
      BY DEF TypeInv, ProcType
    <3>5. s \in ProcState /\ s.pc = "tables" /\ s.command = proc[p].command /\ s.scan = proc[p].scan
      BY <3>2, <3>3, <3>4 DEF ProcState
    <3>6. proc[p].pc \notin {"idle", "scan"}
      BY <1>4 DEF GateState
    <3>7. Commanded(s)
      BY <1>1, <3>2, <3>4, <3>5, <3>6 DEF Commanded
    <3> QED BY <3>1, <3>5, <3>7 DEF TypeInv, ProcType
  <2> QED BY <2>1, <2>2
<1>5. CASE HasMeta(p) \/ CountForeign(p) \/ Initialize(p) \/ GateVersion(p) \/ GateTables(p)
           \/ GateSnapshot(p)
  <2>1. Exit(p) \/ \E pc \in GatePc \union {"opened"} : Goto(p, pc)
    BY <1>5 DEF HasMeta, CountForeign, Initialize, GateVersion, GateTables, GateSnapshot, GatePc
  <2> QED BY <1>2, <1>3, <2>1
<1> QED BY <1>4, <1>5 DEF Gate

(* The same for a move that also changes what the process holds.           *)
LEMMA Moves ==
  ASSUME TypeInv, NEW p \in Proc, NEW s \in ProcState, proc' = [proc EXCEPT ![p] = s],
         s.command = proc[p].command, s.scan = proc[p].scan,
         proc[p].pc \notin {"idle", "scan"}, s.pc \notin {"repair", "scan"},
         s.pc \in GatePc \union {"opened"} => proc[p].command \in {"index", "select"},
         s.pc \in {"dispatch"} \union BuildPc \union UpdatePc => proc[p].command = "index"
  PROVE  ProcType'
<1>1. Commanded(s)
  BY DEF Commanded, TypeInv, ProcType
<1> QED BY <1>1 DEF TypeInv, ProcType

LEMMA IndexGoes ==
  ASSUME TypeInv, NEW p \in Proc, NEW pc \in {"dispatch"} \union BuildPc \union UpdatePc,
         proc[p].pc \in {"opened", "dispatch"} \union BuildPc \union UpdatePc,
         proc[p].command = "index", Goto(p, pc)
  PROVE  ProcType'
<1>1. pc \in ProcPc \ {"repair", "scan"} /\ pc \notin GatePc \union {"opened"}
  BY DEF ProcPc, GatePc, BuildPc, UpdatePc
<1>2. proc[p].pc \notin {"idle", "scan"}
  BY DEF BuildPc, UpdatePc
<1>3. Commanded([proc[p] EXCEPT !.pc = pc])
  BY <1>1, <1>2, WithinCommand DEF TypeInv, ProcType
<1> QED BY <1>1, <1>3, GotoMoves DEF TypeInv

LEMMA LoadGoes ==
  ASSUME TypeInv, NEW p \in Proc, NEW pc \in LoadPc, proc[p].pc \in {"opened"} \union LoadPc,
         Goto(p, pc)
  PROVE  ProcType'
<1>1. /\ pc \in ProcPc \ {"repair", "scan"}
      /\ pc \notin GatePc \union {"opened", "dispatch"} \union BuildPc \union UpdatePc
  BY DEF ProcPc, GatePc, LoadPc, BuildPc, UpdatePc
<1>2. proc[p].pc \notin {"idle", "scan"}
  BY DEF LoadPc
<1>3. Commanded([proc[p] EXCEPT !.pc = pc])
  BY <1>1, <1>2, WithinCommand DEF TypeInv, ProcType
<1> QED BY <1>1, <1>3, GotoMoves DEF TypeInv

LEMMA OpenedProc ==
  ASSUME TypeInv, NEW p \in Proc, Opened(p) \/ Dispatch(p)
  PROVE  ProcType'
<1>1. CASE Opened(p)
  <2>1. proc[p].pc = "opened" /\ proc[p].command \in {"index", "select"}
    BY <1>1 DEF Opened, TypeInv, ProcType, Commanded
  <2>2. CASE proc[p].command = "select"
    <3>1. Goto(p, "count") /\ "count" \in LoadPc
      BY <1>1, <2>2 DEF Opened, LoadPc
    <3> QED BY <2>1, <3>1, LoadGoes
  <2>3. CASE proc[p].command = "index"
    <3>1. Goto(p, "plan") \/ Goto(p, "dispatch")
      BY <1>1, <2>3 DEF Opened
    <3>2. {"plan", "dispatch"} \subseteq {"dispatch"} \union BuildPc \union UpdatePc
      BY DEF UpdatePc
    <3> QED BY <2>1, <2>3, <3>1, <3>2, IndexGoes
  <2> QED BY <2>1, <2>2, <2>3
<1>2. CASE Dispatch(p)
  <2>1. proc[p].pc = "dispatch" /\ proc[p].command = "index"
    BY <1>2 DEF Dispatch, TypeInv, ProcType, Commanded
  <2>2. Goto(p, "ingest") \/ Goto(p, "claim")
    BY <1>2 DEF Dispatch
  <2>3. {"ingest", "claim"} \subseteq BuildPc
    BY DEF BuildPc
  <2> QED BY <2>1, <2>2, <2>3, IndexGoes
<1> QED BY <1>1, <1>2

(* What a build or an update may set besides its program counter.          *)
LEMMA IndexMoves ==
  ASSUME TypeInv, NEW p \in Proc, NEW pc \in BuildPc \union UpdatePc,
         proc[p].pc \in BuildPc \union UpdatePc,
         NEW todo \in SUBSET Pkg, NEW engine \in Facts,
         proc' = [proc EXCEPT ![p] = [proc[p] EXCEPT !.pc = pc, !.engine = engine, !.todo = todo]]
  PROVE  ProcType'
<1> DEFINE s == [proc[p] EXCEPT !.pc = pc, !.engine = engine, !.todo = todo]
<1>1. proc[p] \in ProcState /\ proc[p].command = "index" /\ proc[p].pc \notin {"idle", "scan"}
  BY DEF TypeInv, ProcType, Commanded, BuildPc, UpdatePc
<1>2. pc \in ProcPc /\ pc \notin {"repair", "scan", "opened"} \union GatePc
  BY DEF ProcPc, BuildPc, UpdatePc, GatePc
<1>3. s \in ProcState /\ s.pc = pc /\ s.command = proc[p].command /\ s.scan = proc[p].scan
  BY <1>1, <1>2 DEF ProcState
<1> QED BY <1>1, <1>2, <1>3, Moves

LEMMA BuildProc ==
  ASSUME TypeInv, NEW p \in Proc, Build(p)
  PROVE  ProcType'
<1>0. proc[p] \in ProcState /\ proc \in [Proc -> ProcState]
  BY DEF TypeInv, ProcType
<1>1. proc[p].pc \in BuildPc \union UpdatePc
  BY DEF Build, Claim, ClaimConflict, Ingest, LoadExisting, IngestBatch, IngestDone, Resolve,
         BuildEngine, DerivePackage, Derived, MarkReady, MarkReadyConflict, BuildPc, UpdatePc
<1>2. proc[p].command = "index"
  BY <1>1 DEF TypeInv, ProcType, Commanded
<1>3. ASSUME NEW pc \in BuildPc \union UpdatePc, Goto(p, pc)
      PROVE  ProcType'
  BY <1>1, <1>2, <1>3, IndexGoes
<1>4. CASE Exit(p)
  BY <1>4, ExitMoves DEF TypeInv
<1>5. CASE Claim(p) \/ ClaimConflict(p) \/ Ingest(p) \/ IngestDone(p) \/ Resolve(p) \/ Derived(p)
           \/ MarkReady(p) \/ MarkReadyConflict(p)
  <2>1. Exit(p) \/ \E pc \in BuildPc \union UpdatePc : Goto(p, pc)
    BY <1>5 DEF Claim, ClaimConflict, Ingest, IngestDone, Resolve, Derived, MarkReady,
                MarkReadyConflict, BuildPc, UpdatePc
  <2> QED BY <1>3, <1>4, <2>1
<1>6. CASE LoadExisting(p)
  <2>1. CASE Has({"files"})
    <3>1. Stale(p) \in SUBSET Pkg /\ "batch" \in BuildPc
      BY DEF Stale, BuildPc
    <3>2. proc[p].engine \in Facts
      BY <1>0 DEF ProcState
    <3>3. proc' = [proc EXCEPT ![p] = [proc[p] EXCEPT !.pc = "batch", !.engine = proc[p].engine,
                                                      !.todo = Stale(p)]]
      BY <1>0, <1>6, <2>1 DEF LoadExisting, ProcState
    <3> QED BY <1>1, <3>1, <3>2, <3>3, IndexMoves
  <2>2. CASE ~Has({"files"})
    BY <1>4, <1>6, <2>2 DEF LoadExisting
  <2> QED BY <2>1, <2>2
<1>7. CASE IngestBatch(p) \/ DerivePackage(p)
  <2>1. PICK h \in Pkg : proc' = [proc EXCEPT ![p].todo = @ \ {h}]
    BY <1>0, <1>7 DEF IngestBatch, DerivePackage, ProcState
  <2>2. proc[p].engine \in Facts /\ proc[p].todo \ {h} \in SUBSET Pkg
    BY <1>0 DEF ProcState
  <2>3. proc' = [proc EXCEPT ![p] = [proc[p] EXCEPT !.pc = proc[p].pc, !.engine = proc[p].engine,
                                                    !.todo = proc[p].todo \ {h}]]
    BY <1>0, <2>1 DEF ProcState
  <2> QED BY <1>1, <2>2, <2>3, IndexMoves
<1>8. CASE BuildEngine(p)
  <2>1. CASE Has(FactTable)
    <3> DEFINE pc   == IF proc[p].pc = "engine" THEN "derive" ELSE "rederive"
               todo == {h \in Pkg : rows["files"][h] # None}
    <3>1. pc \in BuildPc \union UpdatePc /\ todo \in SUBSET Pkg
      BY DEF BuildPc, UpdatePc
    <3>2. rows["files"] \in Facts
      BY DEF TypeInv, FileType, FactTable
    <3>3. proc' = [proc EXCEPT ![p] = [proc[p] EXCEPT !.pc = pc, !.engine = rows["files"],
                                                      !.todo = todo]]
      BY <1>0, <1>8, <2>1 DEF BuildEngine, ProcState
    <3> HIDE DEF pc, todo
    <3> QED BY <1>1, <3>1, <3>2, <3>3, IndexMoves
  <2>2. CASE ~Has(FactTable)
    BY <1>4, <1>8, <2>2 DEF BuildEngine
  <2> QED BY <2>1, <2>2
<1> QED BY <1>5, <1>6, <1>7, <1>8 DEF Build

LEMMA UpdateProc ==
  ASSUME TypeInv, NEW p \in Proc, Update(p)
  PROVE  ProcType'
<1>0. proc[p] \in ProcState /\ proc \in [Proc -> ProcState]
  BY DEF TypeInv, ProcType
<1>1. proc[p].pc \in BuildPc \union UpdatePc
  BY DEF Update, Plan, ApplyFacts, Finalize, UpdatePc
<1>2. proc[p].command = "index"
  BY <1>1 DEF TypeInv, ProcType, Commanded
<1>3. CASE Exit(p)
  BY <1>3, ExitMoves DEF TypeInv
<1>4. CASE Plan(p) /\ ~Exit(p)
  <2>1. Stale(p) \in SUBSET Pkg /\ "facts" \in UpdatePc
    BY DEF Stale, UpdatePc
  <2>2. proc[p].engine \in Facts
    BY <1>0 DEF ProcState
  <2>3. proc' = [proc EXCEPT ![p].pc = "facts", ![p].todo = Stale(p)]
    BY <1>4 DEF Plan
  <2>4. proc' = [proc EXCEPT ![p] = [proc[p] EXCEPT !.pc = "facts", !.engine = proc[p].engine,
                                                    !.todo = Stale(p)]]
    BY <1>0, <2>3 DEF ProcState
  <2> QED BY <1>1, <2>1, <2>2, <2>4, IndexMoves
<1>5. CASE ApplyFacts(p)
  <2>1. Goto(p, "image") /\ "image" \in UpdatePc
    BY <1>5 DEF ApplyFacts, UpdatePc
  <2> QED BY <1>1, <1>2, <2>1, IndexGoes
<1>6. CASE Finalize(p)
  BY <1>3, <1>6 DEF Finalize
<1> QED BY <1>3, <1>4, <1>5, <1>6 DEF Update

LEMMA LoadMoves ==
  ASSUME TypeInv, NEW p \in Proc, NEW pc \in LoadPc, proc[p].pc \in LoadPc,
         NEW read \in ReadState,
         proc' = [proc EXCEPT ![p] = [proc[p] EXCEPT !.pc = pc, !.read = read]]
  PROVE  ProcType'
<1> DEFINE s == [proc[p] EXCEPT !.pc = pc, !.read = read]
<1>1. /\ pc \in ProcPc /\ pc \notin {"repair", "scan", "opened", "dispatch"}
      /\ pc \notin GatePc \union BuildPc \union UpdatePc
      /\ proc[p].pc \notin {"idle", "scan"}
  BY DEF ProcPc, GatePc, LoadPc, BuildPc, UpdatePc
<1>2. proc[p] \in ProcState
  BY DEF TypeInv, ProcType
<1>3. s \in ProcState /\ s.pc = pc /\ s.command = proc[p].command /\ s.scan = proc[p].scan
  BY <1>1, <1>2 DEF ProcState
<1> QED BY <1>1, <1>3, Moves

LEMMA JoinedType ==
  ASSUME FileType
  PROVE  /\ Joined("files") \in Facts /\ Joined("symbols") \in Facts
         /\ Joined("edges") \in [Pkg -> Facts \union {None}]
<1>1. {"files", "symbols"} \subseteq FactTable /\ "edges" \in DerivedTable
  BY DEF FactTable, DerivedTable
<1>2. rows["files"] \in Facts /\ rows["symbols"] \in Facts
      /\ rows["edges"] \in [Pkg -> Facts \union {None}]
  BY <1>1 DEF FileType
<1> QED BY <1>2 DEF Joined, Facts

LEMMA LoadProc ==
  ASSUME TypeInv, NEW p \in Proc, Load(p)
  PROVE  ProcType'
<1>0. proc[p] \in ProcState /\ proc[p].read \in ReadState /\ proc \in [Proc -> ProcState]
  BY DEF TypeInv, ProcType, ProcState
<1>1. proc[p].pc \in LoadPc
  BY DEF Load, CountRows, LoadId, LoadMarker, LoadRows, RequireReady, Finish, LoadPc
<1>2. CASE Exit(p)
  BY <1>2, ExitMoves DEF TypeInv
<1>3. CASE CountRows(p) \/ RequireReady(p) \/ Finish(p)
  <2>1. Exit(p) \/ Goto(p, "load_id") \/ Goto(p, "selected")
    BY <1>3 DEF CountRows, RequireReady, Finish
  <2>2. {"load_id", "selected"} \subseteq LoadPc
    BY DEF LoadPc
  <2> QED BY <1>1, <1>2, <2>1, <2>2, LoadGoes
<1>4. CASE LoadId(p) /\ ~Exit(p)
  <2>1. proc' = [proc EXCEPT ![p].pc = "load_marker", ![p].read.snapshot = meta.snapshot]
    BY <1>4 DEF LoadId
  <2>2. meta.snapshot \in Facts \union {None}
    BY DEF TypeInv, FileType, MetaRow
  <2>3. PICK read : read = [proc[p].read EXCEPT !.snapshot = meta.snapshot]
    OBVIOUS
  <2>4. read \in ReadState /\ "load_marker" \in LoadPc
    BY <1>0, <2>2, <2>3 DEF ReadState, LoadPc
  <2>5. proc' = [proc EXCEPT ![p] = [proc[p] EXCEPT !.pc = "load_marker", !.read = read]]
    BY <1>0, <2>1, <2>3 DEF ProcState
  <2> QED BY <1>1, <2>4, <2>5, LoadMoves
<1>5. CASE LoadMarker(p) /\ ~Exit(p)
  <2>1. proc' = [proc EXCEPT ![p].pc = "load_files", ![p].read.marker = meta.marker]
    BY <1>5 DEF LoadMarker
  <2>2. meta.marker \in BOOLEAN
    BY DEF TypeInv, FileType, MetaRow
  <2>3. PICK read : read = [proc[p].read EXCEPT !.marker = meta.marker]
    OBVIOUS
  <2>4. read \in ReadState /\ "load_files" \in LoadPc
    BY <1>0, <2>2, <2>3 DEF ReadState, LoadPc
  <2>5. proc' = [proc EXCEPT ![p] = [proc[p] EXCEPT !.pc = "load_files", !.read = read]]
    BY <1>0, <2>1, <2>3 DEF ProcState
  <2> QED BY <1>1, <2>4, <2>5, LoadMoves
<1>6. ASSUME NEW to \in LoadPc, NEW t \in {"files", "symbols", "edges"},
             proc' = [proc EXCEPT ![p].pc = to, ![p].read[t] = Joined(t)]
      PROVE  ProcType'
  <2>1. PICK read : read = [proc[p].read EXCEPT ![t] = Joined(t)]
    OBVIOUS
  <2>2. read \in ReadState
    BY <1>0, <2>1, JoinedType DEF ReadState, TypeInv
  <2>3. proc' = [proc EXCEPT ![p] = [proc[p] EXCEPT !.pc = to, !.read = read]]
    BY <1>0, <1>6, <2>1 DEF ProcState
  <2> QED BY <1>1, <2>2, <2>3, LoadMoves
<1>7. CASE (\/ LoadRows(p, "load_files", "load_symbols", "files")
            \/ LoadRows(p, "load_symbols", "load_edges", "symbols")
            \/ LoadRows(p, "load_edges", "gate", "edges")) /\ ~Exit(p)
  <2>1. {"load_symbols", "load_edges", "gate"} \subseteq LoadPc
    BY DEF LoadPc
  <2>2. CASE LoadRows(p, "load_files", "load_symbols", "files")
    BY <1>6, <1>7, <2>1, <2>2 DEF LoadRows
  <2>3. CASE LoadRows(p, "load_symbols", "load_edges", "symbols")
    BY <1>6, <1>7, <2>1, <2>3 DEF LoadRows
  <2>4. CASE LoadRows(p, "load_edges", "gate", "edges")
    BY <1>6, <1>7, <2>1, <2>4 DEF LoadRows
  <2> QED BY <1>7, <2>2, <2>3, <2>4
<1> QED BY <1>2, <1>3, <1>4, <1>5, <1>7 DEF Load

LEMMA RepairProc ==
  ASSUME TypeInv, NEW p \in Proc, Repair(p)
  PROVE  ProcType'
<1>0. proc[p] \in ProcState /\ proc \in [Proc -> ProcState] /\ Commanded(proc[p])
  BY DEF TypeInv, ProcType
<1>1. ASSUME NEW pc \in RepairPc, NEW step \in 0..12,
             proc' = [proc EXCEPT ![p] = [proc[p] EXCEPT !.pc = pc, !.step = step]],
             proc[p].command \in {"recreate", "reset"},
             pc = "repair" => step \in 1..12 /\ (proc[p].command = "recreate" => step \in 1..10)
      PROVE  ProcType'
  <2>1. PICK s : s = [proc[p] EXCEPT !.pc = pc, !.step = step]
    OBVIOUS
  <2>2. /\ pc \in ProcPc /\ pc \notin {"idle", "scan", "opened", "dispatch"}
        /\ pc \notin GatePc \union BuildPc \union UpdatePc
    BY DEF ProcPc, GatePc, BuildPc, UpdatePc, RepairPc
  <2>3. s \in ProcState /\ s.pc = pc /\ s.command = proc[p].command /\ s.step = step
    BY <1>0, <2>1, <2>2 DEF ProcState
  <2>4. Commanded(s)
    BY <1>1, <2>2, <2>3 DEF Commanded
  <2> QED BY <1>1, <2>1, <2>3, <2>4 DEF TypeInv, ProcType
<1>2. CASE DropNext(p)
  <2>1. proc[p].step \in 1..10 /\ proc[p].pc = "repair" /\ proc[p].command = "recreate"
    BY <1>0, <1>2 DEF DropNext, Commanded
  <2> DEFINE pc == IF proc[p].step = 10 THEN "create" ELSE "repair"
  <2>2. proc' = [proc EXCEPT ![p].step = @ + 1,
                             ![p].pc = IF proc[p].step = 10 THEN "create" ELSE @]
    BY <1>2, Order DEF DropNext
  <2>3. proc' = [proc EXCEPT ![p] = [proc[p] EXCEPT !.pc = pc, !.step = proc[p].step + 1]]
    BY <1>0, <2>1, <2>2 DEF ProcState
  <2>4. PICK step \in 0..12 : step = proc[p].step + 1
    BY <2>1
  <2>5. pc \in RepairPc /\ (pc = "repair" => step \in 1..12 /\ step \in 1..10)
    BY <2>1, <2>4 DEF RepairPc
  <2> HIDE DEF pc
  <2> QED BY <1>1, <2>1, <2>3, <2>4, <2>5
<1>3. CASE Recreate(p)
  BY <1>3, ExitMoves DEF Recreate, TypeInv
<1>4. CASE ResetNext(p)
  <2>1. proc[p].step \in 1..12 /\ proc[p].pc = "repair" /\ proc[p].command = "reset"
    BY <1>0, <1>4 DEF ResetNext, Commanded
  <2>2. proc' = [proc EXCEPT ![p] = IF proc[p].step = 12 THEN Idle
                                    ELSE [@ EXCEPT !.step = proc[p].step + 1]]
    BY <1>4 DEF ResetNext
  <2>3. CASE proc[p].step = 12
    BY <2>2, <2>3, ExitMoves DEF TypeInv, Exit
  <2>4. CASE proc[p].step # 12
    <3>1. proc' = [proc EXCEPT ![p] = [proc[p] EXCEPT !.pc = "repair", !.step = proc[p].step + 1]]
      BY <1>0, <2>1, <2>2, <2>4 DEF ProcState
    <3>2. "repair" \in RepairPc /\ proc[p].step + 1 \in 1..12 /\ proc[p].step + 1 \in 0..12
      BY <2>1, <2>4 DEF RepairPc
    <3> QED BY <1>1, <2>1, <3>1, <3>2
  <2> QED BY <2>3, <2>4
<1> QED BY <1>2, <1>3, <1>4 DEF Repair

LEMMA StepProc ==
  ASSUME TypeInv, NEW p \in Proc, Start(p) \/ Step(p) \/ Crash(p)
  PROVE  ProcType'
<1>1. CASE TableMissing(p) \/ Locked(p) \/ Crash(p)
  <2>1. Exit(p)
    BY <1>1 DEF TableMissing, Locked, Crash
  <2> QED BY <2>1, ExitMoves DEF TypeInv
<1>2. CASE Start(p)
  BY <1>2, StartProc
<1>3. CASE Scan(p) \/ Gate(p) \/ Opened(p) \/ Dispatch(p)
  BY <1>3, ScanProc, GateProc, OpenedProc
<1>4. CASE Build(p) \/ Update(p) \/ Load(p) \/ Repair(p)
  BY <1>4, BuildProc, UpdateProc, LoadProc, RepairProc
<1> QED BY <1>1, <1>2, <1>3, <1>4 DEF Step

(* The ten actions that touch the file; all the others leave it alone.     *)
Writes(p) ==
  \/ Initialize(p) \/ Claim(p) \/ IngestBatch(p) \/ DerivePackage(p) \/ MarkReady(p)
  \/ ApplyFacts(p) \/ Finalize(p) \/ DropNext(p) \/ Recreate(p) \/ ResetNext(p)

LEMMA WritesOrNot ==
  ASSUME NEW p \in Proc, Start(p) \/ Step(p) \/ Crash(p)
  PROVE  Writes(p) \/ UNCHANGED <<file, history>>
<1>1. CASE Start(p) \/ Crash(p)
  BY <1>1 DEF Start, Crash
<1>2. CASE Scan(p) \/ Opened(p) \/ Dispatch(p) \/ TableMissing(p) \/ Locked(p)
  BY <1>2 DEF Scan, Opened, Dispatch, TableMissing, Locked
<1>3. CASE Gate(p)
  BY <1>3 DEF Gate, HasMeta, CountForeign, GateVersion, GateState, GateTables, GateSnapshot, Writes
<1>4. CASE Build(p)
  BY <1>4 DEF Build, ClaimConflict, Ingest, LoadExisting, IngestDone, Resolve, BuildEngine,
              Derived, MarkReadyConflict, Writes
<1>5. CASE Update(p)
  BY <1>5 DEF Update, Plan, Writes
<1>6. CASE Load(p)
  BY <1>6 DEF Load, CountRows, LoadId, LoadMarker, LoadRows, RequireReady, Finish
<1>7. CASE Repair(p)
  BY <1>7 DEF Repair, Writes
<1> QED BY <1>1, <1>2, <1>3, <1>4, <1>5, <1>6, <1>7 DEF Step

LEMMA WritesAreWriting == ASSUME NEW p \in Proc, Writes(p) PROVE Writing(p)
BY DEF Writes, Writing, Initialize, Claim, IngestBatch, DerivePackage, MarkReady, ApplyFacts,
       Finalize, DropNext, Recreate, ResetNext, BuildPc, UpdatePc, RepairPc

(* A step is of one process. *)
LEMMA OthersStay ==
  ASSUME TypeInv, NEW p \in Proc, Start(p) \/ Step(p) \/ Crash(p), NEW q \in Proc, q # p
  PROVE  proc'[q] = proc[q]
<1>0. proc \in [Proc -> ProcState]
  BY DEF TypeInv, ProcType
<1>1. \E s : proc' = [proc EXCEPT ![p] = s]
  <2>1. CASE Start(p) \/ Crash(p)
    BY <2>1 DEF Start, Crash, Exit
  <2>2. CASE Scan(p) \/ Opened(p) \/ Dispatch(p) \/ TableMissing(p) \/ Locked(p)
    BY <2>2 DEF Scan, Opened, Dispatch, TableMissing, Locked, Goto, Exit
  <2>3. CASE Gate(p)
    BY <2>3 DEF Gate, HasMeta, CountForeign, Initialize, GateVersion, GateState, GateTables,
                GateSnapshot, Goto, Exit
  <2>4. CASE Build(p)
    BY <2>4 DEF Build, Claim, ClaimConflict, Ingest, LoadExisting, IngestBatch, IngestDone, Resolve,
                BuildEngine, DerivePackage, Derived, MarkReady, MarkReadyConflict, Goto, Exit
  <2>5. CASE Update(p)
    BY <2>5 DEF Update, Plan, ApplyFacts, Finalize, Goto, Exit
  <2>6. CASE Load(p)
    BY <2>6 DEF Load, CountRows, LoadId, LoadMarker, LoadRows, RequireReady, Finish, Goto, Exit
  <2>7. CASE Repair(p)
    BY <2>7 DEF Repair, DropNext, Recreate, ResetNext, Exit
  <2> QED BY <2>1, <2>2, <2>3, <2>4, <2>5, <2>6, <2>7 DEF Step
<1> QED BY <1>0, <1>1

LEMMA NoMetaIsMeta == NoMeta \in MetaRow
BY DEF NoMeta, MetaRow

LEMMA InitializeSchemaType ==
  ASSUME FileType, InitializeSchema
  PROVE  FileType' /\ tables' = Table /\ rows' = rows
<1>1. tables' = Table /\ rows' = rows
  BY DEF InitializeSchema
<1>2. meta' \in MetaRow
  BY DEF InitializeSchema, FileType, MetaRow
<1>3. \A t \in RowTable : t \in Table
  BY DEF Table
<1>4. "meta" \in Table
  BY DEF Table
<1> QED BY <1>1, <1>2, <1>3, <1>4 DEF FileType

LEMMA WriteFactsRows ==
  ASSUME FileType, Has(Table), NEW hs, NEW f \in Facts, WriteFacts(hs, f)
  PROVE  /\ DOMAIN rows' = RowTable
         /\ \A t \in FactTable : rows'[t] \in Facts
         /\ \A t \in DerivedTable : rows'[t] \in [Pkg -> Facts \union {None}]
         /\ \A t \in FactTable : rows'[t] = [h \in Pkg |-> IF h \in hs THEN f[h] ELSE rows[t][h]]
<1>1. \A t \in RowTable : rows'[t] = [h \in Pkg |-> IF h \notin hs THEN rows[t][h]
                                    ELSE IF t \in FactTable THEN f[h] ELSE None]
  BY DEF WriteFacts
<1>2. ASSUME NEW t \in FactTable
      PROVE  rows'[t] = [h \in Pkg |-> IF h \in hs THEN f[h] ELSE rows[t][h]]
  BY <1>1, Kinds
<1>3. ASSUME NEW t \in FactTable
      PROVE  rows'[t] \in Facts
  BY <1>2 DEF FileType, Facts
<1>4. ASSUME NEW t \in DerivedTable
      PROVE  rows'[t] \in [Pkg -> Facts \union {None}]
  <2>1. rows'[t] = [h \in Pkg |-> IF h \notin hs THEN rows[t][h] ELSE None]
    BY <1>1, Kinds
  <2> QED BY <2>1 DEF FileType
<1> QED BY <1>2, <1>3, <1>4 DEF WriteFacts

LEMMA WholeFile == ASSUME FileType, Has(Table) PROVE tables = Table /\ RowTable \ tables = {}
BY DEF FileType, Has, Table

(* Dropping or emptying a table. *)
LEMMA EmptiedType ==
  ASSUME FileType, NEW t \in Table, Emptied(t)
  PROVE  /\ DOMAIN rows' = RowTable
         /\ \A u \in FactTable : rows'[u] \in Facts
         /\ \A u \in DerivedTable : rows'[u] \in [Pkg -> Facts \union {None}]
         /\ \A u \in RowTable : rows'[u] = IF u = t THEN NoRow ELSE rows[u]
<1>1. DOMAIN rows' = RowTable /\ \A u \in RowTable : rows'[u] = IF u = t THEN NoRow ELSE rows[u]
  BY Order DEF FileType, Emptied, Table
<1> QED BY <1>1, NoRows, Kinds DEF FileType

LEMMA WritesFile ==
  ASSUME TypeInv, NEW p \in Proc, Writes(p)
  PROVE  FileType'
<1>0. /\ proc[p] \in ProcState /\ proc[p].scan \in Facts /\ proc[p].engine \in Facts /\ FileType
      /\ meta \in MetaRow
  BY DEF TypeInv, ProcType, ProcState, FileType
<1>1. CASE Initialize(p) \/ Recreate(p)
  BY <1>0, <1>1, InitializeSchemaType DEF Initialize, Recreate
<1>2. CASE Claim(p)
  <2>1. meta.state = "empty" /\ meta' = [meta EXCEPT !.state = "building"]
        /\ UNCHANGED <<tables, rows>>
    BY <1>2 DEF Claim, ClaimEmpty
  <2>2. meta' \in MetaRow
    BY <1>0, <2>1 DEF MetaRow
  <2>3. "meta" \in tables
    BY <2>1, NoneShape DEF TypeInv, FileType, NoMeta
  <2> QED BY <2>1, <2>2, <2>3 DEF TypeInv, FileType
<1>3. CASE IngestBatch(p)
  <2>1. PICK h \in proc[p].todo : WriteFacts({h}, proc[p].scan)
    BY <1>3 DEF IngestBatch
  <2>2. Has(Table) /\ UNCHANGED <<tables, meta>>
    BY <1>3 DEF IngestBatch
  <2> QED BY <1>0, <2>1, <2>2, WriteFactsRows, WholeFile DEF FileType
<1>4. CASE DerivePackage(p)
  <2>1. PICK h \in proc[p].todo :
          rows' = [t \in RowTable |-> IF t \in DerivedTable
                                     THEN [rows[t] EXCEPT ![h] = proc[p].engine]
                                     ELSE rows[t]]
    BY <1>4 DEF DerivePackage
  <2>2. Has(Table) /\ UNCHANGED <<tables, meta>>
    BY <1>4 DEF DerivePackage
  <2>3. \A t \in FactTable : rows'[t] \in Facts
    BY <2>1, Kinds DEF TypeInv, FileType
  <2>4. \A t \in DerivedTable : rows'[t] \in [Pkg -> Facts \union {None}]
    BY <1>0, <2>1, Kinds DEF TypeInv, FileType
  <2> QED BY <1>0, <2>1, <2>2, <2>3, <2>4, WholeFile DEF FileType
<1>5. CASE MarkReady(p)
  <2>1. meta.state = "building" /\ UNCHANGED <<tables, rows>>
        /\ meta' = [meta EXCEPT !.state = "ready", !.snapshot = proc[p].engine]
    BY <1>5 DEF MarkReady
  <2>2. meta' \in MetaRow
    BY <1>0, <2>1 DEF MetaRow
  <2>3. "meta" \in tables
    BY <2>1, NoneShape DEF TypeInv, FileType, NoMeta
  <2> QED BY <2>1, <2>2, <2>3 DEF TypeInv, FileType
<1>6. CASE ApplyFacts(p)
  <2>1. Has(Table) /\ WriteFacts(proc[p].todo, proc[p].scan) /\ UNCHANGED tables
        /\ meta' = [meta EXCEPT !.marker = TRUE]
    BY <1>6 DEF ApplyFacts
  <2>2. meta' \in MetaRow
    BY <1>0, <2>1 DEF MetaRow
  <2>3. "meta" \in tables
    BY <2>1 DEF Has, Table
  <2> QED BY <1>0, <2>1, <2>2, <2>3, WriteFactsRows, WholeFile DEF FileType
<1>7. CASE Finalize(p)
  <2>1. Has(Table) /\ UNCHANGED <<tables, rows>>
        /\ meta' = [meta EXCEPT !.snapshot = rows["files"], !.marker = FALSE]
    BY <1>7 DEF Finalize
  <2>2. rows["files"] \in Facts
    BY <1>0 DEF FileType, FactTable
  <2>3. meta' \in MetaRow
    BY <1>0, <2>1, <2>2 DEF MetaRow
  <2>4. "meta" \in tables
    BY <2>1 DEF Has, Table
  <2> QED BY <1>0, <2>1, <2>3, <2>4 DEF FileType
<1>8. CASE DropNext(p)
  <2>1. PICK t : /\ t = RepairOrder[proc[p].step] /\ tables' = tables \ {t} /\ Emptied(t)
                 /\ IF t = "meta" THEN meta' = NoMeta ELSE meta' = meta
    BY <1>8 DEF DropNext
  <2>2. proc[p].step \in 1..10
    BY <1>8 DEF DropNext, TypeInv, ProcType, Commanded
  <2>3. t \in Table
    <3>1. CASE proc[p].step = 10
      BY <2>1, <3>1, Order DEF Table
    <3>2. CASE proc[p].step # 10
      <4>1. proc[p].step \in 1..9
        BY <2>2, <3>2
      <4> QED BY <2>1, <4>1, Order DEF Table
    <3> QED BY <3>1, <3>2
  <2>4. meta' \in MetaRow
    BY <1>0, <2>1, NoMetaIsMeta
  <2>5. "meta" \notin tables' => meta' = NoMeta
    BY <1>0, <2>1 DEF FileType
  <2>6. \A u \in RowTable \ tables' : rows'[u] = NoRow
    BY <1>0, <2>1, <2>3, EmptiedType DEF FileType
  <2> QED BY <1>0, <2>1, <2>3, <2>4, <2>5, <2>6, EmptiedType DEF FileType
<1>9. CASE ResetNext(p)
  <2> DEFINE n == proc[p].step
  <2>1. /\ RepairOrder[IF n > 10 THEN 10 ELSE n] \in tables
        /\ IF n < 10 THEN Emptied(RepairOrder[n]) ELSE UNCHANGED rows
        /\ meta' = CASE n = 10 -> [meta EXCEPT !.state = IF @ = None THEN None ELSE "empty"]
                     [] n = 11 -> [meta EXCEPT !.snapshot = None]
                     [] n = 12 -> [meta EXCEPT !.marker = FALSE]
                     [] OTHER  -> meta
        /\ UNCHANGED tables
    BY <1>9 DEF ResetNext
  <2>2. n \in 1..12
    BY <1>9 DEF ResetNext, TypeInv, ProcType, Commanded
  <2> HIDE DEF n
  <2>3. CASE n < 10
    <3>1. n \in 1..9 /\ meta' = meta /\ Emptied(RepairOrder[n])
      BY <2>1, <2>2, <2>3
    <3>2. RepairOrder[n] \in Table
      BY <3>1, Order DEF Table
    <3>3. \A u \in RowTable \ tables' : rows'[u] = NoRow
      BY <1>0, <2>1, <3>1, <3>2, EmptiedType DEF FileType
    <3> QED BY <1>0, <2>1, <3>1, <3>2, <3>3, EmptiedType DEF FileType
  <2>4. CASE n >= 10
    <3>1. rows' = rows /\ "meta" \in tables
      BY <2>1, <2>2, <2>4, Order
    <3>2. meta' \in MetaRow
      BY <1>0, <2>1, <2>2 DEF MetaRow
    <3> QED BY <1>0, <2>1, <3>1, <3>2 DEF FileType
  <2> QED BY <2>2, <2>3, <2>4
<1> QED BY <1>1, <1>2, <1>3, <1>4, <1>5, <1>6, <1>7, <1>8, <1>9 DEF Writes

LEMMA InitType == Init => TypeInv
<1> SUFFICES ASSUME Init PROVE TypeInv
  OBVIOUS
<1>1. TreeType
  BY BoundsShape DEF Init, TreeType
<1>2. disk \in Full /\ disk \in Facts
  BY <1>1, DiskIsFull
<1>3. ProcType
  BY IdleIsState DEF Init, ProcType
<1>4. HistoryType
  BY DEF Init, HistoryType
<1>5. FileType
  <2>1. CASE tables = {} /\ rows = EmptyRows /\ meta = NoMeta
    <3>1. DOMAIN rows = RowTable /\ \A t \in RowTable : rows[t] = NoRow
      BY <2>1 DEF EmptyRows
    <3> QED BY <2>1, <3>1, NoRows, NoMetaIsMeta, Kinds DEF FileType
  <2>2. ASSUME NEW v \in {"current", "old"}, tables = Table, rows = WholeRows(disk),
               meta = [version |-> v, state |-> "ready", snapshot |-> disk, marker |-> FALSE]
        PROVE  FileType
    <3>1. DOMAIN rows = RowTable
      BY <2>2 DEF WholeRows
    <3>2. \A t \in FactTable : rows[t] = disk
      BY <2>2, Kinds DEF WholeRows
    <3>3. \A t \in DerivedTable : rows[t] = [h \in Pkg |-> disk]
      BY <2>2, Kinds DEF WholeRows
    <3>4. meta \in MetaRow
      BY <1>2, <2>2 DEF MetaRow
    <3>5. RowTable \ tables = {} /\ "meta" \in tables
      BY <2>2 DEF Table
    <3>6. \A t \in DerivedTable : rows[t] \in [Pkg -> Facts \union {None}]
      BY <1>2, <3>3
    <3> QED BY <1>2, <2>2, <3>1, <3>2, <3>4, <3>5, <3>6 DEF FileType
  <2> QED BY <2>1, <2>2 DEF Init
<1> QED BY <1>1, <1>3, <1>4, <1>5 DEF TypeInv

LEMMA WritesHistory ==
  ASSUME TypeInv, NEW p \in Proc, Writes(p)
  PROVE  claims' \in Nat /\ cut' \in BOOLEAN
<1>1. claims \in Nat /\ cut \in BOOLEAN
  BY DEF TypeInv, HistoryType
<1>2. CASE Initialize(p) \/ Recreate(p) \/ IngestBatch(p) \/ DerivePackage(p) \/ MarkReady(p)
           \/ ApplyFacts(p) \/ Finalize(p)
  BY <1>1, <1>2 DEF Initialize, Recreate, IngestBatch, DerivePackage, MarkReady, ApplyFacts,
                    Finalize, history
<1>3. CASE Claim(p)
  BY <1>1, <1>3 DEF Claim, ClaimEmpty
<1>4. CASE DropNext(p)
  <2>1. (claims' = 0 /\ cut' = FALSE) \/ (claims' = claims /\ cut' = cut)
    BY <1>4 DEF DropNext, history
  <2>2. claims' \in Nat
    BY <1>1, <2>1
  <2>3. cut' \in BOOLEAN
    BY <1>1, <2>1, Zenon
  <2> QED BY <2>2, <2>3
<1>5. CASE ResetNext(p)
  BY <1>1, <1>5 DEF ResetNext
<1> QED BY <1>2, <1>3, <1>4, <1>5 DEF Writes

LEMMA StepTree ==
  ASSUME NEW p \in Proc, Start(p) \/ Step(p) \/ Crash(p)
  PROVE  UNCHANGED <<disk, edits>>
<1>1. CASE Start(p) \/ Crash(p)
  BY <1>1 DEF Start, Crash
<1>2. CASE Scan(p) \/ Opened(p) \/ Dispatch(p) \/ TableMissing(p) \/ Locked(p)
  BY <1>2 DEF Scan, Opened, Dispatch, TableMissing, Locked, counters
<1>3. CASE Gate(p)
  BY <1>3 DEF Gate, HasMeta, CountForeign, Initialize, GateVersion, GateState, GateTables,
              GateSnapshot, counters
<1>4. CASE Build(p)
  BY <1>4 DEF Build, Claim, ClaimConflict, Ingest, LoadExisting, IngestBatch, IngestDone, Resolve,
              BuildEngine, DerivePackage, Derived, MarkReady, MarkReadyConflict, counters
<1>5. CASE Update(p)
  BY <1>5 DEF Update, Plan, ApplyFacts, Finalize, counters
<1>6. CASE Load(p)
  BY <1>6 DEF Load, CountRows, LoadId, LoadMarker, LoadRows, RequireReady, Finish, counters
<1>7. CASE Repair(p)
  BY <1>7 DEF Repair, DropNext, Recreate, ResetNext, counters
<1> QED BY <1>1, <1>2, <1>3, <1>4, <1>5, <1>6, <1>7 DEF Step

LEMMA NextType == TypeInv /\ [Next]_vars => TypeInv'
<1> SUFFICES ASSUME TypeInv, [Next]_vars PROVE TypeInv'
  OBVIOUS
<1>1. CASE UNCHANGED vars
  BY <1>1 DEF vars, file, history, TypeInv, FileType, ProcType, TreeType, HistoryType
<1>2. CASE Next
  <2>1. contended' \in BOOLEAN /\ disturbed' \in [Proc -> BOOLEAN]
    BY <1>2 DEF Next, TypeInv, HistoryType, Contended, Loading
  <2>2. CASE Edit
    <3>1. TreeType'
      BY <2>2, BoundsShape DEF Edit, TypeInv, TreeType
    <3>2. UNCHANGED <<file, proc, history>>
      BY <2>2 DEF Edit
    <3> QED BY <2>1, <3>1, <3>2, FileTypeSame DEF TypeInv, ProcType, HistoryType, history
  <2>3. ASSUME NEW p \in Proc, Start(p) \/ Step(p) \/ Crash(p)
        PROVE  TypeInv'
    <3>1. ProcType'
      BY <2>3, StepProc
    <3>2. TreeType'
      BY <2>3, StepTree DEF TypeInv, TreeType
    <3>3. CASE Writes(p)
      BY <2>1, <3>1, <3>2, <3>3, WritesFile, WritesHistory DEF TypeInv, HistoryType
    <3>4. CASE UNCHANGED <<file, history>>
      BY <2>1, <3>1, <3>2, <3>4, FileTypeSame DEF TypeInv, HistoryType, history
    <3> QED BY <2>3, <3>3, <3>4, WritesOrNot
  <2> QED BY <1>2, <2>2, <2>3 DEF Next
<1> QED BY <1>1, <1>2

(* TypeOK: in particular a table that is gone has no rows, whatever two    *)
(* repairs at once drop and create, and no row is of a version the tree    *)
(* never had.                                                              *)
THEOREM TypeCorrect == Spec => []TypeOK
BY InitType, NextType, TypeInvImplies, PTL DEF Spec

(***************************************************************************)
(* What holds of the file while no two processes have written at the same  *)
(* time.                                                                   *)
(***************************************************************************)
(* The edges go first: with them, every table is there. *)
DroppedInOrder == "edges" \in tables => tables = Table

(* Only a ready index has an id or a marker. *)
IdOnlyWhenReady == ~cut /\ meta.state # "ready" => meta.snapshot = None /\ ~meta.marker

(* The fact rows of a file are written together. *)
FactsTogether ==
  ~cut /\ FactTable \subseteq tables => \A t \in FactTable : rows[t] = rows["files"]

(* A ready index without a marker holds the rows its id names, of every    *)
(* package.                                                                *)
IdIsComplete == ~cut /\ Readable => Complete /\ meta.snapshot \in Full

FileInv == DroppedInOrder /\ IdOnlyWhenReady /\ FactsTogether /\ IdIsComplete

(* What a writer that nobody disturbed knows of the file, by where it is.  *)
BuildPhase(p) ==
  /\ proc[p].pc \in {"existing", "batch", "resolve", "engine", "derive", "mark_ready"}
       => meta.state = "building"
  /\ proc[p].pc = "batch" => \A h \in Pkg \ proc[p].todo : rows["files"][h] = proc[p].scan[h]
  /\ proc[p].pc \in {"resolve", "engine", "image"} => rows["files"] = proc[p].scan

UpdatePhase(p) ==
  /\ proc[p].pc = "facts" => meta.state = "ready" /\ proc[p].todo = Stale(p)
  /\ proc[p].pc \in {"image", "rederive", "finalize"}
       => meta.state = "ready" /\ meta.marker /\ tables = Table

DerivePhase(p) ==
  proc[p].pc \in {"derive", "rederive", "mark_ready", "finalize"} =>
    /\ FactTable \subseteq tables
    /\ proc[p].engine = rows["files"]
    /\ proc[p].engine \in Full
    /\ \A t \in DerivedTable : \A h \in Pkg \ proc[p].todo : rows[t][h] = proc[p].engine
    /\ proc[p].pc \in {"mark_ready", "finalize"} => proc[p].todo = {}

RepairPhase(p) ==
  /\ proc[p].pc \in {"initialize", "create"} => tables = {}
  /\ proc[p].pc = "repair" /\ proc[p].command = "recreate" =>
       \A i \in 1..9 : i < proc[p].step => RepairOrder[i] \notin tables
  /\ proc[p].pc = "repair" /\ proc[p].command = "reset" =>
       /\ \A i \in 1..9 : i < proc[p].step => rows[RepairOrder[i]] = NoRow
       /\ proc[p].step > 10 => meta.state # "ready"
       /\ proc[p].step > 11 => meta.snapshot = None

Phases(p) == BuildPhase(p) /\ UpdatePhase(p) /\ DerivePhase(p) /\ RepairPhase(p)

AloneInv == ~contended => FileInv /\ \A p \in Proc : Phases(p)

PhasePc ==
  {"existing", "batch", "resolve", "engine", "derive", "mark_ready", "facts", "image", "rederive",
   "finalize", "initialize", "repair", "create"}

LEMMA NoPhase == ASSUME NEW p \in Proc, proc[p].pc \notin PhasePc PROVE Phases(p)
BY DEF PhasePc, Phases, BuildPhase, UpdatePhase, DerivePhase, RepairPhase

LEMMA NotWritingNoPhase == ASSUME NEW p \in Proc, ~Writing(p) PROVE Phases(p)
<1>1. proc[p].pc \notin PhasePc
  BY DEF Writing, PhasePc, BuildPc, UpdatePc, RepairPc
<1> QED BY <1>1, NoPhase

LEMMA FileInvSame == ASSUME FileInv, UNCHANGED <<file, cut>> PROVE FileInv'
BY DEF FileInv, DroppedInOrder, IdOnlyWhenReady, FactsTogether, IdIsComplete, Readable, Complete, file

LEMMA PhasesSame ==
  ASSUME NEW p \in Proc, Phases(p), UNCHANGED file, proc'[p] = proc[p]
  PROVE  Phases(p)'
BY DEF Phases, BuildPhase, UpdatePhase, DerivePhase, RepairPhase, Stale, file

(* A move to a place that knows nothing of the file. *)
LEMMA PhaseLeft == ASSUME NEW p \in Proc, proc'[p].pc \notin PhasePc PROVE Phases(p)'
BY DEF PhasePc, Phases, BuildPhase, UpdatePhase, DerivePhase, RepairPhase

LEMMA ExitPhase == ASSUME TypeInv, NEW p \in Proc, Exit(p) PROVE Phases(p)'
<1>1. proc'[p].pc = "idle"
  BY ExitMoves DEF TypeInv, Idle
<1> QED BY <1>1, PhaseLeft DEF PhasePc

(***************************************************************************)
(* The ten actions that write.                                             *)
(***************************************************************************)
LEMMA SchemaWrites ==
  ASSUME TypeInv, NEW p \in Proc, Phases(p), Initialize(p) \/ Recreate(p)
  PROVE  FileInv' /\ Phases(p)'
<1>1. tables = {} /\ InitializeSchema
  BY DEF Phases, RepairPhase, Initialize, Recreate
<1>2. meta = NoMeta /\ \A t \in RowTable : rows[t] = NoRow
  BY <1>1 DEF TypeInv, FileType
<1>3. tables' = Table /\ rows' = rows /\ meta'.state = "empty" /\ meta'.snapshot = None
      /\ meta'.marker = FALSE
  BY <1>1, <1>2 DEF InitializeSchema, NoMeta
<1>4. FileInv'
  <2>1. \A t \in FactTable : rows[t] = NoRow
    BY <1>2 DEF RowTable
  <2>2. "files" \in FactTable
    BY DEF FactTable
  <2> QED BY <1>3, <2>1, <2>2
        DEF FileInv, DroppedInOrder, IdOnlyWhenReady, FactsTogether, IdIsComplete, Readable
<1>5. Phases(p)'
  <2>1. CASE Initialize(p)
    <3>1. proc'[p].pc = "opened"
      BY <2>1 DEF Initialize, Goto, TypeInv, ProcType, ProcState
    <3> QED BY <3>1, PhaseLeft DEF PhasePc
  <2>2. CASE Recreate(p)
    BY <2>2, ExitPhase DEF Recreate
  <2> QED BY <2>1, <2>2
<1> QED BY <1>4, <1>5

LEMMA ClaimWrites ==
  ASSUME TypeInv, NEW p \in Proc, FileInv, Phases(p), Claim(p)
  PROVE  FileInv' /\ Phases(p)'
<1>1. meta.state = "empty" /\ meta' = [meta EXCEPT !.state = "building"]
      /\ UNCHANGED <<tables, rows, cut>>
  BY DEF Claim, ClaimEmpty
<1>2. meta'.state = "building" /\ meta'.snapshot = meta.snapshot /\ meta'.marker = meta.marker
  BY <1>1 DEF TypeInv, FileType, MetaRow
<1>3. FileInv'
  BY <1>1, <1>2 DEF FileInv, DroppedInOrder, IdOnlyWhenReady, FactsTogether, IdIsComplete, Readable
<1>4. proc'[p].pc \in {"ingest", "existing"}
  BY DEF Claim, Goto, TypeInv, ProcType, ProcState
<1>5. Phases(p)'
  BY <1>2, <1>4 DEF Phases, BuildPhase, UpdatePhase, DerivePhase, RepairPhase
<1> QED BY <1>3, <1>5

LEMMA BatchWrites ==
  ASSUME TypeInv, NEW p \in Proc, FileInv, Phases(p), IngestBatch(p)
  PROVE  FileInv' /\ Phases(p)'
<1>0. /\ proc[p].pc = "batch" /\ Has(Table) /\ UNCHANGED <<tables, meta, cut>>
      /\ proc[p].scan \in Facts /\ FileType
  BY DEF IngestBatch, history, TypeInv, ProcType, ProcState
<1>1. PICK h \in proc[p].todo :
        /\ WriteFacts({h}, proc[p].scan)
        /\ proc' = [proc EXCEPT ![p].todo = @ \ {h}]
  BY DEF IngestBatch
<1>2. meta.state = "building"
  BY <1>0 DEF Phases, BuildPhase
<1>3. \A t \in FactTable :
        rows'[t] = [g \in Pkg |-> IF g \in {h} THEN proc[p].scan[g] ELSE rows[t][g]]
  <2>1. PICK hs : hs = {h}
    OBVIOUS
  <2>2. WriteFacts(hs, proc[p].scan)
    BY <1>1, <2>1
  <2>3. \A t \in FactTable :
          rows'[t] = [g \in Pkg |-> IF g \in hs THEN proc[p].scan[g] ELSE rows[t][g]]
    BY <1>0, <2>2, WriteFactsRows
  <2> QED BY <2>1, <2>3
<1>4. "files" \in FactTable
  BY DEF FactTable
<1>5. FileInv'
  BY <1>0, <1>2, <1>3, <1>4
        DEF FileInv, DroppedInOrder, IdOnlyWhenReady, FactsTogether, IdIsComplete, Readable
<1>6. proc'[p].pc = "batch" /\ proc'[p].todo = proc[p].todo \ {h} /\ proc'[p].scan = proc[p].scan
  BY <1>0, <1>1 DEF TypeInv, ProcType, ProcState
<1>7. \A g \in Pkg \ proc'[p].todo : rows'["files"][g] = proc'[p].scan[g]
  BY <1>0, <1>3, <1>4, <1>6 DEF Phases, BuildPhase
<1>8. Phases(p)'
  BY <1>0, <1>2, <1>6, <1>7 DEF Phases, BuildPhase, UpdatePhase, DerivePhase, RepairPhase
<1> QED BY <1>5, <1>8

LEMMA DeriveWrites ==
  ASSUME TypeInv, NEW p \in Proc, FileInv, Phases(p), DerivePackage(p)
  PROVE  FileInv' /\ Phases(p)'
<1>0. /\ proc[p].pc \in {"derive", "rederive"} /\ UNCHANGED <<tables, meta, cut>>
  BY DEF DerivePackage, history
<1>1. PICK h \in proc[p].todo :
        /\ rows' = [t \in RowTable |-> IF t \in DerivedTable
                                       THEN [rows[t] EXCEPT ![h] = proc[p].engine]
                                       ELSE rows[t]]
        /\ proc' = [proc EXCEPT ![p].todo = @ \ {h}]
  BY DEF DerivePackage
<1>2. \A t \in FactTable : rows'[t] = rows[t]
  BY <1>1, Kinds
<1>3. "files" \in FactTable
  BY DEF FactTable
<1>4. ~cut => meta.state # "ready" \/ meta.marker
  BY <1>0 DEF Phases, BuildPhase, UpdatePhase, FileInv, IdOnlyWhenReady
<1>5. FileInv'
  BY <1>0, <1>2, <1>3, <1>4
        DEF FileInv, DroppedInOrder, IdOnlyWhenReady, FactsTogether, IdIsComplete, Readable
<1>6. /\ proc'[p].pc = proc[p].pc /\ proc'[p].todo = proc[p].todo \ {h}
      /\ proc'[p].engine = proc[p].engine
  BY <1>1 DEF TypeInv, ProcType, ProcState
<1>7. \A t \in DerivedTable : \A g \in Pkg \ proc'[p].todo : rows'[t][g] = proc[p].engine
  <2> SUFFICES ASSUME NEW t \in DerivedTable, NEW g \in Pkg \ proc'[p].todo
               PROVE  rows'[t][g] = proc[p].engine
    OBVIOUS
  <2>1. rows'[t] = [rows[t] EXCEPT ![h] = proc[p].engine] /\ g \in DOMAIN rows[t]
    BY <1>1, Kinds DEF TypeInv, FileType
  <2>2. g # h => rows[t][g] = proc[p].engine
    BY <1>0, <1>6 DEF Phases, DerivePhase
  <2> QED BY <2>1, <2>2
<1>8. Phases(p)'
  BY <1>0, <1>2, <1>3, <1>6, <1>7 DEF Phases, BuildPhase, UpdatePhase, DerivePhase, RepairPhase
<1> QED BY <1>5, <1>8

(* When the last package is derived, every row says what the image says.   *)
LEMMA DerivedIsComplete ==
  ASSUME TypeInv, NEW p \in Proc, FileInv, Phases(p), proc[p].pc \in {"mark_ready", "finalize"}, ~cut
  PROVE  /\ \A t \in FactTable : rows[t] = proc[p].engine
         /\ \A t \in DerivedTable : \A h \in Pkg : rows[t][h] = proc[p].engine
         /\ proc[p].engine \in Full
BY DEF Phases, DerivePhase, FileInv, FactsTogether

LEMMA ReadyWrites ==
  ASSUME TypeInv, NEW p \in Proc, FileInv, Phases(p), MarkReady(p) \/ Finalize(p)
  PROVE  FileInv' /\ Phases(p)'
<1>1. /\ proc[p].pc \in {"mark_ready", "finalize"} /\ UNCHANGED <<tables, rows, cut>> /\ Exit(p)
  BY DEF MarkReady, Finalize, history
<1>2. meta'.state = "ready" /\ meta'.snapshot = proc[p].engine
  <2>1. meta \in MetaRow
    BY DEF TypeInv, FileType
  <2>2. CASE MarkReady(p)
    BY <2>1, <2>2 DEF MarkReady, MetaRow
  <2>3. CASE Finalize(p)
    BY <2>1, <2>3 DEF Finalize, MetaRow, Phases, UpdatePhase, DerivePhase
  <2> QED BY <2>2, <2>3
<1>3. FileInv'
  <2>1. DroppedInOrder' /\ IdOnlyWhenReady' /\ FactsTogether'
    BY <1>1, <1>2 DEF FileInv, DroppedInOrder, IdOnlyWhenReady, FactsTogether
  <2>2. IdIsComplete'
    BY <1>1, <1>2, DerivedIsComplete DEF IdIsComplete, Readable, Complete
  <2> QED BY <2>1, <2>2 DEF FileInv
<1> QED BY <1>1, <1>3, ExitPhase

LEMMA FactsWrites ==
  ASSUME TypeInv, NEW p \in Proc, FileInv, Phases(p), ApplyFacts(p)
  PROVE  FileInv' /\ Phases(p)'
<1>0. /\ proc[p].pc = "facts" /\ Has(Table) /\ UNCHANGED <<tables, cut>>
      /\ meta' = [meta EXCEPT !.marker = TRUE] /\ WriteFacts(proc[p].todo, proc[p].scan)
      /\ Goto(p, "image") /\ proc[p].scan \in Facts /\ FileType
  BY DEF ApplyFacts, history, TypeInv, ProcType, ProcState
<1>1. meta.state = "ready" /\ proc[p].todo = Stale(p)
  BY <1>0 DEF Phases, UpdatePhase
<1>2. meta'.state = "ready" /\ meta'.marker = TRUE
  BY <1>0, <1>1 DEF FileType, MetaRow
<1>3. \A t \in FactTable :
        rows'[t] = [g \in Pkg |-> IF g \in proc[p].todo THEN proc[p].scan[g] ELSE rows[t][g]]
  BY <1>0, WriteFactsRows
<1>4. "files" \in FactTable
  BY DEF FactTable
<1>5. FileInv'
  <2>1. DroppedInOrder' /\ IdOnlyWhenReady' /\ IdIsComplete'
    BY <1>0, <1>2 DEF FileInv, DroppedInOrder, IdOnlyWhenReady, IdIsComplete, Readable
  <2>2. FactsTogether'
    BY <1>0, <1>3, <1>4 DEF FileInv, FactsTogether
  <2> QED BY <2>1, <2>2 DEF FileInv
<1>6. proc'[p].pc = "image" /\ proc'[p].scan = proc[p].scan
  BY <1>0 DEF Goto, TypeInv, ProcType, ProcState
<1>7. rows'["files"] = proc[p].scan
  BY <1>0, <1>1, <1>3, <1>4 DEF Stale, Facts
<1>8. tables' = Table
  BY <1>0, WholeFile
<1>9. Phases(p)'
  BY <1>2, <1>6, <1>7, <1>8 DEF Phases, BuildPhase, UpdatePhase, DerivePhase, RepairPhase
<1> QED BY <1>5, <1>9

LEMMA DropWrites ==
  ASSUME TypeInv, NEW p \in Proc, FileInv, Phases(p), DropNext(p)
  PROVE  FileInv' /\ Phases(p)'
<1> DEFINE n == proc[p].step
<1>0. n \in 1..10 /\ proc[p].pc = "repair" /\ proc[p].command = "recreate" /\ FileType
  BY DEF DropNext, TypeInv, ProcType, Commanded
<1>1. PICK t : /\ t = RepairOrder[n] /\ tables' = tables \ {t} /\ Emptied(t)
               /\ \/ t = "meta" /\ meta' = NoMeta
                  \/ t # "meta" /\ meta' = meta /\ cut' = cut
  BY DEF DropNext, history
<1>2. \A i \in 1..9 : i < n => RepairOrder[i] \notin tables
  BY <1>0 DEF Phases, RepairPhase
<1>3. t \in Table /\ (n = 10 <=> t = "meta")
  <2>1. CASE n = 10
    BY <1>1, <2>1, Order DEF Table
  <2>2. CASE n # 10
    <3>1. n \in 1..9
      BY <1>0, <2>2
    <3> QED BY <1>1, <2>2, <3>1, Order DEF Table
  <2> QED BY <2>1, <2>2
<1>4. \A u \in RowTable : rows'[u] = IF u = t THEN NoRow ELSE rows[u]
  BY <1>0, <1>1, <1>3, EmptiedType
<1>5. proc' = [proc EXCEPT ![p].step = @ + 1, ![p].pc = IF n = 10 THEN "create" ELSE @]
  BY Order DEF DropNext
<1>6. proc'[p].step = n + 1 /\ proc'[p].pc = (IF n = 10 THEN "create" ELSE "repair")
      /\ proc'[p].command = "recreate"
  BY <1>0, <1>5 DEF TypeInv, ProcType, ProcState
<1>7. \A i \in 1..9 : i < n + 1 => RepairOrder[i] \notin tables'
  <2> SUFFICES ASSUME NEW i \in 1..9, i < n + 1
               PROVE  RepairOrder[i] \notin tables'
    OBVIOUS
  <2>1. i < n \/ i = n
    BY <1>0
  <2> QED BY <1>1, <1>2, <2>1
<1> HIDE DEF n
<1>8. FileInv'
  <2>1. "edges" \notin tables'
    BY <1>0, <1>7, Order
  <2>2. tables' # Table
    BY <1>1, <1>3
  <2>3. IdOnlyWhenReady'
    BY <1>1 DEF FileInv, IdOnlyWhenReady, NoMeta
  <2>4. FactsTogether'
    <3>1. CASE n = 10
      <4>1. \E i \in 1..9 : RepairOrder[i] = "files"
        BY Order DEF RowTable, FactTable
      <4>2. "files" \notin tables' /\ "files" \in FactTable
        BY <1>7, <3>1, <4>1 DEF FactTable
      <4> QED BY <4>2 DEF FactsTogether
    <3>2. CASE n # 10
      <4>1. cut' = cut
        BY <1>1, <1>3, <3>2
      <4>2. FactTable \subseteq tables' => t \notin FactTable /\ FactTable \subseteq tables
        BY <1>1
      <4>3. "files" \in FactTable /\ FactTable \subseteq RowTable
        BY DEF FactTable, RowTable
      <4> QED BY <1>4, <4>1, <4>2, <4>3 DEF FileInv, FactsTogether
    <3> QED BY <3>1, <3>2
  <2> QED BY <2>1, <2>2, <2>3, <2>4 DEF FileInv, DroppedInOrder, IdIsComplete, Readable
<1>9. Phases(p)'
  <2>1. n = 10 => tables' = {}
    <3> SUFFICES ASSUME n = 10, NEW u \in tables'
                 PROVE  FALSE
      OBVIOUS
    <3>1. u \in Table /\ u # "meta"
      BY <1>0, <1>1, <1>3 DEF FileType
    <3>2. PICK i \in 1..9 : RepairOrder[i] = u
      BY <3>1, Order DEF Table
    <3> QED BY <1>7, <3>2
  <2> QED BY <1>0, <1>6, <1>7, <2>1 DEF Phases, BuildPhase, UpdatePhase, DerivePhase, RepairPhase
<1> QED BY <1>8, <1>9

LEMMA ResetWrites ==
  ASSUME TypeInv, NEW p \in Proc, FileInv, Phases(p), ResetNext(p)
  PROVE  FileInv' /\ Phases(p)'
<1> DEFINE n == proc[p].step
<1>0. n \in 1..12 /\ proc[p].pc = "repair" /\ proc[p].command = "reset" /\ FileType
  BY DEF ResetNext, TypeInv, ProcType, Commanded
<1>1. /\ IF n < 10 THEN Emptied(RepairOrder[n]) ELSE UNCHANGED rows
      /\ meta' = CASE n = 10 -> [meta EXCEPT !.state = IF @ = None THEN None ELSE "empty"]
                   [] n = 11 -> [meta EXCEPT !.snapshot = None]
                   [] n = 12 -> [meta EXCEPT !.marker = FALSE]
                   [] OTHER  -> meta
      /\ cut' = (n # 12)
      /\ proc' = [proc EXCEPT ![p] = IF n = 12 THEN Idle ELSE [@ EXCEPT !.step = n + 1]]
      /\ UNCHANGED tables
  BY DEF ResetNext
<1>2. /\ \A i \in 1..9 : i < n => rows[RepairOrder[i]] = NoRow
      /\ n > 10 => meta.state # "ready"
      /\ n > 11 => meta.snapshot = None
  BY <1>0 DEF Phases, RepairPhase
<1>3. proc[p] \in ProcState /\ proc \in [Proc -> ProcState] /\ meta \in MetaRow
  BY DEF TypeInv, ProcType, FileType
<1> HIDE DEF n
<1>4. CASE n = 12
  <2>1. meta' = [meta EXCEPT !.marker = FALSE] /\ rows' = rows /\ Exit(p)
    BY <1>0, <1>1, <1>4 DEF Exit
  <2>2. meta'.state # "ready" /\ meta'.snapshot = None /\ meta'.marker = FALSE
    BY <1>2, <1>3, <1>4, <2>1 DEF MetaRow
  <2>3. \A t \in RowTable : rows[t] = NoRow
    BY <1>2, <1>4, Order
  <2>4. FactTable \subseteq RowTable /\ "files" \in FactTable
    BY DEF FactTable, RowTable
  <2>5. FileInv'
    BY <1>1, <2>1, <2>2, <2>3, <2>4
          DEF FileInv, DroppedInOrder, IdOnlyWhenReady, FactsTogether, IdIsComplete, Readable
  <2> QED BY <2>1, <2>5, ExitPhase
<1>5. CASE n # 12
  <2>1. cut' = TRUE
    BY <1>1, <1>5
  <2>2. FileInv'
    BY <1>1, <2>1
          DEF FileInv, DroppedInOrder, IdOnlyWhenReady, FactsTogether, IdIsComplete, Readable
  <2>3. proc'[p].pc = "repair" /\ proc'[p].command = "reset" /\ proc'[p].step = n + 1
    BY <1>0, <1>1, <1>3, <1>5 DEF ProcState
  <2>4. \A i \in 1..9 : i < n + 1 => rows'[RepairOrder[i]] = NoRow
    <3>1. CASE n < 10
      <4>1. n \in 1..9
        BY <1>0, <3>1
      <4>2. PICK t : t = RepairOrder[n]
        OBVIOUS
      <4>3. t \in Table /\ Emptied(t)
        BY <1>1, <3>1, <4>1, <4>2, Order DEF Table
      <4>4. \A u \in RowTable : rows'[u] = IF u = t THEN NoRow ELSE rows[u]
        BY <1>0, <4>3, EmptiedType
      <4> SUFFICES ASSUME NEW i \in 1..9, i < n + 1
                   PROVE  rows'[RepairOrder[i]] = NoRow
        OBVIOUS
      <4>5. i < n \/ i = n
        BY <4>1
      <4> QED BY <1>2, <4>2, <4>4, <4>5, Order
    <3>2. CASE n >= 10
      <4>1. rows' = rows
        BY <1>0, <1>1, <3>2
      <4> QED BY <1>0, <1>2, <3>2, <4>1
    <3> QED BY <1>0, <3>1, <3>2
  <2>5. n + 1 > 10 => meta'.state # "ready"
    <3>1. CASE n = 10
      BY <1>1, <1>3, <3>1, NoneShape DEF MetaRow
    <3>2. CASE n = 11
      <4>1. meta' = [meta EXCEPT !.snapshot = None]
        BY <1>1, <3>2
      <4> QED BY <1>2, <1>3, <3>2, <4>1 DEF MetaRow
    <3> QED BY <1>0, <1>5, <3>1, <3>2
  <2>6. n + 1 > 11 => meta'.snapshot = None
    BY <1>0, <1>1, <1>3, <1>5 DEF MetaRow
  <2>7. Phases(p)'
    BY <2>3, <2>4, <2>5, <2>6 DEF Phases, BuildPhase, UpdatePhase, DerivePhase, RepairPhase
  <2> QED BY <2>2, <2>7
<1> QED BY <1>4, <1>5

LEMMA WritesAlone ==
  ASSUME TypeInv, NEW p \in Proc, FileInv, Phases(p), Writes(p)
  PROVE  FileInv' /\ Phases(p)'
BY SchemaWrites, ClaimWrites, BatchWrites, DeriveWrites, ReadyWrites, FactsWrites, DropWrites,
   ResetWrites DEF Writes

(***************************************************************************)
(* The actions that only read.                                             *)
(***************************************************************************)
LEMMA StartPhase ==
  ASSUME TypeInv, NEW p \in Proc, Start(p)
  PROVE  Phases(p)'
<1>1. PICK c \in Commands :
        proc' = [proc EXCEPT ![p] =
          [Idle EXCEPT !.command = c, !.step = 1,
                       !.pc = CASE c = "index"  -> "scan"
                                [] c = "select" -> "has_meta"
                                [] OTHER        -> "repair"]]
  BY DEF Start
<1>2. proc'[p] = [Idle EXCEPT !.command = c, !.step = 1,
                              !.pc = CASE c = "index"  -> "scan"
                                       [] c = "select" -> "has_meta"
                                       [] OTHER        -> "repair"]
  BY <1>1 DEF TypeInv, ProcType
<1>3. proc'[p].step = 1 /\ proc'[p].pc \in {"scan", "has_meta", "repair"}
  BY <1>2 DEF Idle
<1> QED BY <1>3 DEF Phases, BuildPhase, UpdatePhase, DerivePhase, RepairPhase

LEMMA GatePhase ==
  ASSUME TypeInv, NEW p \in Proc, Gate(p), UNCHANGED file
  PROVE  Phases(p)'
<1>0. proc[p] \in ProcState /\ proc \in [Proc -> ProcState]
  BY DEF TypeInv, ProcType
<1>1. CASE Exit(p)
  BY <1>1, ExitPhase
<1>2. ASSUME NEW pc \in (GatePc \ {"initialize"}) \union {"opened"}, Goto(p, pc)
      PROVE  Phases(p)'
  <2>1. proc'[p].pc = pc /\ pc \notin PhasePc
    BY <1>0, <1>2 DEF Goto, ProcState, GatePc, PhasePc
  <2> QED BY <2>1, PhaseLeft
<1>3. CASE CountForeign(p)
  <2>1. CASE tables = {}
    <3>1. proc'[p].pc = "initialize" /\ tables' = {}
      BY <1>0, <1>3, <2>1 DEF CountForeign, Goto, file, ProcState
    <3> QED BY <3>1 DEF Phases, BuildPhase, UpdatePhase, DerivePhase, RepairPhase
  <2>2. CASE tables # {}
    BY <1>1, <1>3, <2>2 DEF CountForeign
  <2> QED BY <2>1, <2>2
<1>4. CASE GateState(p) /\ ~Exit(p)
  <2>1. proc'[p].pc = "tables"
    BY <1>0, <1>4 DEF GateState, ProcState
  <2> QED BY <2>1, PhaseLeft DEF PhasePc
<1>5. CASE HasMeta(p) /\ Goto(p, "foreign")
  BY <1>2, <1>5 DEF GatePc
<1>6. CASE HasMeta(p) /\ Goto(p, "version")
  BY <1>2, <1>6 DEF GatePc
<1>7. CASE Initialize(p)
  BY <1>2, <1>7 DEF Initialize, GatePc
<1>8. CASE GateVersion(p) \/ GateTables(p) \/ GateSnapshot(p)
  <2>1. Exit(p) \/ Goto(p, "state") \/ Goto(p, "snapshot") \/ Goto(p, "opened")
    BY <1>8 DEF GateVersion, GateTables, GateSnapshot
  <2>2. {"state", "snapshot", "opened"} \subseteq (GatePc \ {"initialize"}) \union {"opened"}
    BY DEF GatePc
  <2> QED BY <1>1, <1>2, <2>1, <2>2
<1>9. HasMeta(p) => Goto(p, "foreign") \/ Goto(p, "version")
  BY DEF HasMeta
<1> QED BY <1>1, <1>3, <1>4, <1>5, <1>6, <1>7, <1>8, <1>9 DEF Gate

LEMMA LoadPhase ==
  ASSUME TypeInv, NEW p \in Proc, Load(p)
  PROVE  Phases(p)'
<1>0. proc[p] \in ProcState /\ proc \in [Proc -> ProcState]
  BY DEF TypeInv, ProcType
<1>1. proc'[p].pc \in LoadPc \union {"idle"}
  BY <1>0 DEF Load, CountRows, LoadId, LoadMarker, LoadRows, RequireReady, Finish, Goto, Exit, Idle,
              LoadPc, ProcState
<1>2. proc'[p].pc \notin PhasePc
  BY <1>1 DEF LoadPc, PhasePc
<1> QED BY <1>2, PhaseLeft

LEMMA BuildReads ==
  ASSUME TypeInv, NEW p \in Proc, Phases(p), Build(p), ~Writes(p), UNCHANGED file
  PROVE  Phases(p)'
<1>0. /\ proc[p] \in ProcState /\ proc \in [Proc -> ProcState]
      /\ UNCHANGED <<tables, rows, meta>> /\ FileType
  BY DEF TypeInv, ProcType, file
<1>1. CASE Exit(p)
  BY <1>1, ExitPhase
<1>2. CASE Ingest(p) /\ ~Exit(p)
  <2>1. (meta.state = "building" /\ Goto(p, "existing")) \/ Goto(p, "claim_in_ingest")
    BY <1>2 DEF Ingest
  <2>2. \/ meta'.state = "building" /\ proc'[p].pc = "existing"
        \/ proc'[p].pc = "claim_in_ingest"
    BY <1>0, <2>1 DEF Goto, ProcState
  <2> QED BY <2>2 DEF Phases, BuildPhase, UpdatePhase, DerivePhase, RepairPhase
<1>3. CASE LoadExisting(p) /\ ~Exit(p)
  <2>1. proc[p].pc = "existing" /\ proc' = [proc EXCEPT ![p].pc = "batch", ![p].todo = Stale(p)]
    BY <1>3 DEF LoadExisting
  <2>2. proc'[p].pc = "batch" /\ proc'[p].todo = Stale(p) /\ proc'[p].scan = proc[p].scan
    BY <1>0, <2>1 DEF ProcState
  <2>3. meta'.state = "building"
    BY <1>0, <2>1 DEF Phases, BuildPhase
  <2>4. \A h \in Pkg \ proc'[p].todo : rows'["files"][h] = proc'[p].scan[h]
    BY <1>0, <2>2 DEF Stale
  <2> QED BY <2>2, <2>3, <2>4 DEF Phases, BuildPhase, UpdatePhase, DerivePhase, RepairPhase
<1>4. CASE IngestDone(p)
  <2>1. proc[p].pc = "batch" /\ proc[p].todo = {} /\ Goto(p, "resolve")
    BY <1>4 DEF IngestDone
  <2>2. proc'[p].pc = "resolve" /\ proc'[p].scan = proc[p].scan
    BY <1>0, <2>1 DEF Goto, ProcState
  <2>3. rows["files"] \in Facts /\ proc[p].scan \in Facts
    BY <1>0 DEF FileType, FactTable, ProcState
  <2>4. rows["files"] = proc[p].scan /\ meta.state = "building"
    BY <2>1, <2>3 DEF Phases, BuildPhase, Facts
  <2> QED BY <1>0, <2>2, <2>4 DEF Phases, BuildPhase, UpdatePhase, DerivePhase, RepairPhase
<1>5. CASE Resolve(p) /\ ~Exit(p)
  <2>1. proc[p].pc = "resolve" /\ Goto(p, "engine") /\ meta.state = "building"
    BY <1>5 DEF Resolve
  <2>2. proc'[p].pc = "engine" /\ proc'[p].scan = proc[p].scan
    BY <1>0, <2>1 DEF Goto, ProcState
  <2>3. rows["files"] = proc[p].scan
    BY <2>1 DEF Phases, BuildPhase
  <2> QED BY <1>0, <2>1, <2>2, <2>3 DEF Phases, BuildPhase, UpdatePhase, DerivePhase, RepairPhase
<1>6. CASE BuildEngine(p) /\ ~Exit(p)
  <2>1. /\ proc[p].pc \in {"engine", "image"} /\ FactTable \subseteq tables
        /\ proc' = [proc EXCEPT ![p].pc = IF @ = "engine" THEN "derive" ELSE "rederive",
                                ![p].engine = rows["files"],
                                ![p].todo = {h \in Pkg : rows["files"][h] # None}]
    BY <1>6 DEF BuildEngine, Has
  <2>2. /\ proc'[p].pc = (IF proc[p].pc = "engine" THEN "derive" ELSE "rederive")
        /\ proc'[p].engine = rows["files"]
        /\ proc'[p].todo = {h \in Pkg : rows["files"][h] # None}
    BY <1>0, <2>1 DEF ProcState
  <2>3. rows["files"] = proc[p].scan
    BY <2>1 DEF Phases, BuildPhase
  <2>4. proc[p].scan \in Full
    BY <2>1 DEF TypeInv, ProcType, Commanded, BuildPc, UpdatePc
  <2>5. Pkg \ proc'[p].todo = {}
    BY <2>2, <2>3, <2>4, NoneShape DEF Full, Version
  <2>6. proc[p].pc = "engine" => meta.state = "building"
    BY DEF Phases, BuildPhase
  <2>7. proc[p].pc = "image" => meta.state = "ready" /\ meta.marker /\ tables = Table
    BY DEF Phases, UpdatePhase
  <2> QED BY <1>0, <2>1, <2>2, <2>3, <2>4, <2>5, <2>6, <2>7
          DEF Phases, BuildPhase, UpdatePhase, DerivePhase, RepairPhase
<1>7. CASE Derived(p)
  <2>1. /\ proc[p].pc \in {"derive", "rederive"} /\ proc[p].todo = {}
        /\ Goto(p, IF proc[p].pc = "derive" THEN "mark_ready" ELSE "finalize")
    BY <1>7 DEF Derived
  <2>2. /\ proc'[p].pc = (IF proc[p].pc = "derive" THEN "mark_ready" ELSE "finalize")
        /\ proc'[p].engine = proc[p].engine /\ proc'[p].todo = {}
    BY <1>0, <2>1 DEF Goto, ProcState
  <2> QED BY <1>0, <2>1, <2>2 DEF Phases, BuildPhase, UpdatePhase, DerivePhase, RepairPhase
<1>8. CASE ClaimConflict(p) \/ MarkReadyConflict(p)
  BY <1>1, <1>8 DEF ClaimConflict, MarkReadyConflict
<1> QED BY <1>1, <1>2, <1>3, <1>4, <1>5, <1>6, <1>7, <1>8 DEF Build, Writes

LEMMA PlanPhase ==
  ASSUME TypeInv, NEW p \in Proc, Plan(p)
  PROVE  Phases(p)'
<1>0. proc[p] \in ProcState /\ proc \in [Proc -> ProcState] /\ UNCHANGED <<tables, rows, meta>>
  BY DEF TypeInv, ProcType, Plan, file
<1>1. CASE Exit(p)
  BY <1>1, ExitPhase
<1>2. CASE ~Exit(p)
  <2>1. meta.state = "ready" /\ proc' = [proc EXCEPT ![p].pc = "facts", ![p].todo = Stale(p)]
    BY <1>2 DEF Plan
  <2>2. proc'[p].pc = "facts" /\ proc'[p].todo = Stale(p) /\ proc'[p].scan = proc[p].scan
    BY <1>0, <2>1 DEF ProcState
  <2>3. Stale(p)' = Stale(p)
    BY <1>0, <2>2 DEF Stale
  <2> QED BY <1>0, <2>1, <2>2, <2>3 DEF Phases, BuildPhase, UpdatePhase, DerivePhase, RepairPhase
<1> QED BY <1>1, <1>2

LEMMA OtherReads ==
  ASSUME TypeInv, NEW p \in Proc,
         Scan(p) \/ Opened(p) \/ Dispatch(p) \/ TableMissing(p) \/ Locked(p) \/ Crash(p)
  PROVE  Phases(p)'
<1>0. proc[p] \in ProcState /\ proc \in [Proc -> ProcState]
  BY DEF TypeInv, ProcType
<1>1. CASE TableMissing(p) \/ Locked(p) \/ Crash(p)
  BY <1>1, ExitPhase DEF TableMissing, Locked, Crash
<1>2. CASE Scan(p) \/ Opened(p) \/ Dispatch(p)
  <2>1. proc'[p].pc \in {"has_meta", "count", "plan", "dispatch", "ingest", "claim"}
    BY <1>0, <1>2 DEF Scan, Opened, Dispatch, Goto, ProcState
  <2> QED BY <2>1, PhaseLeft DEF PhasePc
<1> QED BY <1>1, <1>2

LEMMA ReadsAlone ==
  ASSUME TypeInv, NEW p \in Proc, Phases(p), Start(p) \/ Step(p) \/ Crash(p), ~Writes(p)
  PROVE  Phases(p)'
<1>1. UNCHANGED file
  BY WritesOrNot
<1>2. CASE Start(p) \/ Gate(p) \/ Build(p) \/ Load(p)
  BY <1>1, <1>2, StartPhase, GatePhase, BuildReads, LoadPhase
<1>3. CASE Scan(p) \/ Opened(p) \/ Dispatch(p) \/ TableMissing(p) \/ Locked(p) \/ Crash(p)
  BY <1>3, OtherReads
<1>4. CASE Update(p)
  BY <1>4, PlanPhase DEF Update, Writes
<1>5. CASE Repair(p)
  BY <1>5 DEF Repair, Writes
<1> QED BY <1>2, <1>3, <1>4, <1>5 DEF Step

(***************************************************************************)
(* One step of one process, among the others.                              *)
(***************************************************************************)
WritersMeet == Contended => contended
SharedInv == TypeInv /\ WritersMeet /\ AloneInv

LEMMA InitShared == Init => SharedInv
<1> SUFFICES ASSUME Init PROVE SharedInv
  OBVIOUS
<1>1. TypeInv
  BY InitType
<1>2. \A p \in Proc : proc[p].pc = "idle"
  BY DEF Init, Idle
<1>3. ~Contended
  BY <1>2 DEF Contended, Writing, BuildPc, UpdatePc, RepairPc
<1>4. \A p \in Proc : Phases(p)
  BY <1>2, NoPhase DEF PhasePc
<1>5. FileInv
  <2>1. CASE tables = {} /\ rows = EmptyRows /\ meta = NoMeta
    <3>1. /\ meta.snapshot = None /\ meta.state = None /\ meta.marker = FALSE
          /\ "files" \in FactTable /\ "edges" \in Table
      BY <2>1 DEF NoMeta, Table, RowTable, FactTable, DerivedTable
    <3> QED BY <2>1, <3>1, NoneShape
          DEF FileInv, DroppedInOrder, IdOnlyWhenReady, FactsTogether, IdIsComplete, Readable
  <2>2. ASSUME NEW v \in {"current", "old"}, tables = Table, rows = WholeRows(disk),
               meta = [version |-> v, state |-> "ready", snapshot |-> disk, marker |-> FALSE]
        PROVE  FileInv
    <3>1. \A t \in FactTable : rows[t] = disk
      BY <2>2, Kinds DEF WholeRows
    <3>2. \A t \in DerivedTable : rows[t] = [h \in Pkg |-> disk]
      BY <2>2, Kinds DEF WholeRows
    <3>3. disk \in Full
      BY <1>1, DiskIsFull DEF TypeInv
    <3>4. "files" \in FactTable /\ meta.snapshot = disk /\ meta.state = "ready"
      BY <2>2 DEF FactTable
    <3>5. Complete
      BY <3>1, <3>2, <3>4 DEF Complete
    <3> QED BY <2>2, <3>1, <3>3, <3>4, <3>5
            DEF FileInv, DroppedInOrder, IdOnlyWhenReady, FactsTogether, IdIsComplete, Readable
  <2> QED BY <2>1, <2>2 DEF Init
<1> QED BY <1>1, <1>3, <1>4, <1>5 DEF SharedInv, WritersMeet, AloneInv

(* The others keep what they know: who writes is alone.                    *)
LEMMA StepAlone ==
  ASSUME SharedInv, NEW p \in Proc, Start(p) \/ Step(p) \/ Crash(p), ~contended
  PROVE  FileInv' /\ \A q \in Proc : Phases(q)'
<1>0. TypeInv /\ FileInv /\ (\A q \in Proc : Phases(q)) /\ ~Contended
  BY DEF SharedInv, WritersMeet, AloneInv
<1>1. CASE Writes(p)
  <2>1. FileInv' /\ Phases(p)'
    BY <1>0, <1>1, WritesAlone
  <2>2. ASSUME NEW q \in Proc, q # p
        PROVE  Phases(q)'
    <3>1. ~Writing(q)
      BY <1>0, <1>1, <2>2, WritesAreWriting DEF Contended
    <3>2. proc'[q] = proc[q]
      BY <1>0, <2>2, OthersStay
    <3>3. ~Writing(q)'
      BY <3>1, <3>2 DEF Writing
    <3>4. proc'[q].pc \notin PhasePc
      BY <3>3 DEF Writing, PhasePc, BuildPc, UpdatePc, RepairPc
    <3> QED BY <3>4, PhaseLeft
  <2> QED BY <2>1, <2>2
<1>2. CASE ~Writes(p)
  <2>1. UNCHANGED <<file, cut>>
    BY <1>2, WritesOrNot DEF history
  <2>2. FileInv'
    BY <1>0, <2>1, FileInvSame
  <2>3. Phases(p)'
    BY <1>0, <1>2, ReadsAlone
  <2>4. ASSUME NEW q \in Proc, q # p
        PROVE  Phases(q)'
    BY <1>0, <2>1, <2>4, OthersStay, PhasesSame
  <2> QED BY <2>2, <2>3, <2>4
<1> QED BY <1>1, <1>2

LEMMA NextShared == SharedInv /\ [Next]_vars => SharedInv'
<1> SUFFICES ASSUME SharedInv, [Next]_vars PROVE SharedInv'
  OBVIOUS
<1>1. TypeInv'
  BY NextType DEF SharedInv
<1>2. CASE UNCHANGED vars
  <2>1. UNCHANGED <<file, cut, proc, contended>>
    BY <1>2 DEF vars, history
  <2>2. FileInv => FileInv'
    BY <2>1, FileInvSame
  <2>3. \A q \in Proc : Phases(q) => Phases(q)'
    BY <2>1, PhasesSame
  <2>4. WritersMeet'
    BY <2>1 DEF SharedInv, WritersMeet, Contended, Writing
  <2> QED BY <1>1, <2>1, <2>2, <2>3, <2>4 DEF SharedInv, AloneInv
<1>3. CASE Next
  <2>1. contended' = (contended \/ Contended')
    BY <1>3 DEF Next
  <2>2. WritersMeet'
    BY <2>1 DEF WritersMeet
  <2>3. ASSUME ~contended
        PROVE  FileInv' /\ \A q \in Proc : Phases(q)'
    <3>1. CASE Edit
      <4>1. UNCHANGED <<file, cut, proc>>
        BY <3>1 DEF Edit, history
      <4>2. FileInv'
        BY <2>3, <4>1, FileInvSame DEF SharedInv, AloneInv
      <4>3. \A q \in Proc : Phases(q)'
        BY <2>3, <4>1, PhasesSame DEF SharedInv, AloneInv
      <4> QED BY <4>2, <4>3
    <3>2. ASSUME NEW p \in Proc, Start(p) \/ Step(p) \/ Crash(p)
          PROVE  FileInv' /\ \A q \in Proc : Phases(q)'
      BY <2>3, <3>2, StepAlone
    <3> QED BY <1>3, <3>1, <3>2 DEF Next
  <2>4. AloneInv'
    BY <2>1, <2>3 DEF AloneInv
  <2> QED BY <1>1, <2>2, <2>4 DEF SharedInv
<1> QED BY <1>2, <1>3

LEMMA SharedIsComplete == SharedInv => ReadyIsCompleteAlone
BY DEF SharedInv, AloneInv, FileInv, IdIsComplete, ReadyIsCompleteAlone

(* ReadyIsCompleteAlone: as long as no two processes write at once and no  *)
(* reset is cut short, an index that is ready and not marked holds all its *)
(* fact rows and all its derived rows, of the one tree its id names (lib.rs *)
(* IndexState), wherever builds, updates and rebuilds have died.           *)
THEOREM ReadyCorrect == Spec => []ReadyIsCompleteAlone
BY InitShared, NextShared, SharedIsComplete, PTL DEF Spec

(***************************************************************************)
(* A load nobody disturbs.                                                 *)
(***************************************************************************)
(* As long as nothing is committed, what was read is what the file says.   *)
ReadIsFile(p) ==
  LET at == proc[p].pc
      r  == proc[p].read
  IN  /\ at \in {"load_marker", "load_files", "load_symbols", "load_edges", "gate", "selected"}
           => r.snapshot = meta.snapshot
      /\ at \in {"load_files", "load_symbols", "load_edges", "gate", "selected"}
           => r.marker = meta.marker
      /\ at \in {"load_symbols", "load_edges", "gate", "selected"} => r.files = Joined("files")
      /\ at \in {"load_edges", "gate", "selected"} => r.symbols = Joined("symbols")
      /\ at \in {"gate", "selected"} => r.edges = Joined("edges") /\ "edges" \in tables

ReadInv ==
  \A p \in Proc :
    /\ ~disturbed[p] => ReadIsFile(p)
    /\ proc[p].pc = "selected" => ~Refused(p)

LEMMA InitRead == Init => ReadInv
<1> SUFFICES ASSUME Init, NEW p \in Proc
             PROVE  ReadIsFile(p) /\ proc[p].pc # "selected"
  BY DEF ReadInv
<1>1. proc[p].pc = "idle"
  BY DEF Init, Idle
<1> QED BY <1>1 DEF ReadIsFile

LEMMA ReadSame ==
  ASSUME NEW p \in Proc, proc'[p] = proc[p], UNCHANGED file, ReadIsFile(p)
  PROVE  ReadIsFile(p)'
BY DEF ReadIsFile, Joined, file

LEMMA RefusedSame ==
  ASSUME NEW p \in Proc, proc'[p] = proc[p], proc[p].pc = "selected" => ~Refused(p)
  PROVE  (proc[p].pc = "selected" => ~Refused(p))'
BY DEF Refused

(* Only the load goes on loading. *)
LEMMA OnlyLoadLoads ==
  ASSUME TypeInv, NEW p \in Proc, Start(p) \/ Step(p) \/ Crash(p), ~Load(p)
  PROVE  ~Loading(p)'
<1>0. proc[p] \in ProcState /\ proc \in [Proc -> ProcState]
  BY DEF TypeInv, ProcType
<1>1. CASE Exit(p)
  BY <1>1, ExitMoves DEF TypeInv, Idle, Loading, LoadPc
<1>2. ASSUME NEW pc, Goto(p, pc), pc \notin LoadPc \ {"count"}
      PROVE  ~Loading(p)'
  BY <1>0, <1>2 DEF Goto, Loading, ProcState
<1>3. CASE Start(p)
  <2>1. proc'[p].pc \in {"scan", "has_meta", "repair"}
    <3>1. PICK c \in Commands :
            proc' = [proc EXCEPT ![p] =
              [Idle EXCEPT !.command = c, !.step = 1,
                           !.pc = CASE c = "index"  -> "scan"
                                    [] c = "select" -> "has_meta"
                                    [] OTHER        -> "repair"]]
      BY <1>3 DEF Start
    <3>2. proc'[p] = [Idle EXCEPT !.command = c, !.step = 1,
                                  !.pc = CASE c = "index"  -> "scan"
                                           [] c = "select" -> "has_meta"
                                           [] OTHER        -> "repair"]
      BY <1>0, <3>1
    <3> QED BY <3>2 DEF Idle
  <2> QED BY <2>1 DEF Loading, LoadPc
<1>4. CASE TableMissing(p) \/ Locked(p) \/ Crash(p)
  BY <1>1, <1>4 DEF TableMissing, Locked, Crash
<1>5. CASE Scan(p) \/ Opened(p) \/ Dispatch(p)
  <2>1. proc'[p].pc \in {"has_meta", "count", "plan", "dispatch", "ingest", "claim"}
    BY <1>0, <1>5 DEF Scan, Opened, Dispatch, Goto, ProcState
  <2> QED BY <2>1 DEF Loading, LoadPc
<1>6. CASE Gate(p) /\ ~Exit(p)
  <2>1. proc'[p].pc \in GatePc \union {"opened"}
    BY <1>0, <1>6 DEF Gate, HasMeta, CountForeign, Initialize, GateVersion, GateState, GateTables,
                      GateSnapshot, Goto, GatePc, ProcState
  <2> QED BY <2>1 DEF Loading, LoadPc, GatePc
<1>7. CASE Build(p) /\ ~Exit(p)
  <2>1. proc[p].pc \in BuildPc \union UpdatePc
    BY <1>7 DEF Build, Claim, ClaimConflict, Ingest, LoadExisting, IngestBatch, IngestDone, Resolve,
                BuildEngine, DerivePackage, Derived, MarkReady, MarkReadyConflict, BuildPc, UpdatePc
  <2>2. proc'[p].pc \in BuildPc \union UpdatePc
    <3>1. CASE Claim(p) \/ ClaimConflict(p) \/ Ingest(p) \/ IngestDone(p) \/ Resolve(p)
               \/ MarkReady(p) \/ MarkReadyConflict(p)
      BY <1>0, <1>7, <3>1 DEF Claim, ClaimConflict, Ingest, IngestDone, Resolve, MarkReady,
                              MarkReadyConflict, Goto, BuildPc, UpdatePc, ProcState
    <3>2. CASE Derived(p)
      BY <1>0, <3>2 DEF Derived, Goto, BuildPc, UpdatePc, ProcState
    <3>3. CASE LoadExisting(p)
      BY <1>0, <1>7, <3>3 DEF LoadExisting, BuildPc, ProcState
    <3>4. CASE IngestBatch(p) \/ DerivePackage(p)
      BY <1>0, <2>1, <3>4 DEF IngestBatch, DerivePackage, ProcState
    <3>5. CASE BuildEngine(p)
      BY <1>0, <1>7, <3>5 DEF BuildEngine, BuildPc, UpdatePc, ProcState
    <3> QED BY <1>7, <3>1, <3>2, <3>3, <3>4, <3>5 DEF Build
  <2> QED BY <2>2 DEF Loading, LoadPc, BuildPc, UpdatePc
<1>8. CASE Update(p) /\ ~Exit(p)
  <2>1. proc'[p].pc \in {"facts", "image"}
    BY <1>0, <1>8 DEF Update, Plan, ApplyFacts, Finalize, Goto, ProcState
  <2> QED BY <2>1 DEF Loading, LoadPc
<1>9. CASE Repair(p)
  <2>1. CASE Recreate(p)
    BY <1>1, <2>1 DEF Recreate
  <2>2. CASE DropNext(p)
    <3>1. proc'[p].pc \in {"repair", "create"}
      BY <1>0, <2>2 DEF DropNext, ProcState
    <3> QED BY <3>1 DEF Loading, LoadPc
  <2>3. CASE ResetNext(p)
    <3>1. proc'[p].pc \in {"repair", "idle"}
      BY <1>0, <2>3 DEF ResetNext, Idle, ProcState
    <3> QED BY <3>1 DEF Loading, LoadPc
  <2> QED BY <1>9, <2>1, <2>2, <2>3 DEF Repair
<1> QED BY <1>1, <1>3, <1>4, <1>5, <1>6, <1>7, <1>8, <1>9 DEF Step

(* Each statement of the load adds what it reads and keeps the rest. *)
LEMMA LoadReads ==
  ASSUME TypeInv, NEW p \in Proc, Load(p), ReadIsFile(p)
  PROVE  ReadIsFile(p)'
<1>0. /\ proc[p] \in ProcState /\ proc \in [Proc -> ProcState]
      /\ UNCHANGED <<tables, rows, meta>>
  BY DEF TypeInv, ProcType, Load, CountRows, LoadId, LoadMarker, LoadRows, RequireReady, Finish, file
<1>1. /\ Joined("files")' = Joined("files") /\ Joined("symbols")' = Joined("symbols")
      /\ Joined("edges")' = Joined("edges")
  BY <1>0 DEF Joined
<1>2. CASE Exit(p)
  BY <1>2, ExitMoves DEF TypeInv, Idle, ReadIsFile
<1>3. CASE CountRows(p) /\ ~Exit(p)
  <2>1. proc'[p].pc = "load_id"
    BY <1>0, <1>3 DEF CountRows, Goto, ProcState
  <2> QED BY <2>1 DEF ReadIsFile
<1>4. CASE LoadId(p) /\ ~Exit(p)
  <2>1. proc'[p].pc = "load_marker" /\ proc'[p].read.snapshot = meta.snapshot
    BY <1>0, <1>4 DEF LoadId, ProcState, ReadState
  <2> QED BY <1>0, <2>1 DEF ReadIsFile
<1>5. CASE LoadMarker(p) /\ ~Exit(p)
  <2>1. /\ proc[p].pc = "load_marker" /\ proc'[p].pc = "load_files"
        /\ proc'[p].read.marker = meta.marker /\ proc'[p].read.snapshot = proc[p].read.snapshot
    BY <1>0, <1>5 DEF LoadMarker, ProcState, ReadState
  <2> QED BY <1>0, <2>1 DEF ReadIsFile
<1>6. CASE LoadRows(p, "load_files", "load_symbols", "files") /\ ~Exit(p)
  <2>1. /\ proc[p].pc = "load_files"
        /\ proc' = [proc EXCEPT ![p].pc = "load_symbols", ![p].read["files"] = Joined("files")]
    BY <1>6 DEF LoadRows
  <2>2. /\ proc'[p].pc = "load_symbols" /\ proc'[p].read.files = Joined("files")
        /\ proc'[p].read.marker = proc[p].read.marker
        /\ proc'[p].read.snapshot = proc[p].read.snapshot
    BY <1>0, <2>1 DEF ProcState, ReadState
  <2> QED BY <1>0, <1>1, <2>1, <2>2 DEF ReadIsFile
<1>7. CASE LoadRows(p, "load_symbols", "load_edges", "symbols") /\ ~Exit(p)
  <2>1. /\ proc[p].pc = "load_symbols"
        /\ proc' = [proc EXCEPT ![p].pc = "load_edges", ![p].read["symbols"] = Joined("symbols")]
    BY <1>7 DEF LoadRows
  <2>2. /\ proc'[p].pc = "load_edges" /\ proc'[p].read.symbols = Joined("symbols")
        /\ proc'[p].read.marker = proc[p].read.marker /\ proc'[p].read.files = proc[p].read.files
        /\ proc'[p].read.snapshot = proc[p].read.snapshot
    BY <1>0, <2>1 DEF ProcState, ReadState
  <2> QED BY <1>0, <1>1, <2>1, <2>2 DEF ReadIsFile
<1>8. CASE LoadRows(p, "load_edges", "gate", "edges") /\ ~Exit(p)
  <2>1. /\ proc[p].pc = "load_edges" /\ "edges" \in tables
        /\ proc' = [proc EXCEPT ![p].pc = "gate", ![p].read["edges"] = Joined("edges")]
    BY <1>8 DEF LoadRows, Has
  <2>2. /\ proc'[p].pc = "gate" /\ proc'[p].read.edges = Joined("edges")
        /\ proc'[p].read.marker = proc[p].read.marker /\ proc'[p].read.files = proc[p].read.files
        /\ proc'[p].read.snapshot = proc[p].read.snapshot
        /\ proc'[p].read.symbols = proc[p].read.symbols
    BY <1>0, <2>1 DEF ProcState, ReadState
  <2> QED BY <1>0, <1>1, <2>1, <2>2 DEF ReadIsFile
<1>9. CASE RequireReady(p) /\ ~Exit(p)
  <2>1. proc[p].pc = "gate" /\ proc'[p].pc = "selected" /\ proc'[p].read = proc[p].read
    BY <1>0, <1>9 DEF RequireReady, Goto, ProcState
  <2> QED BY <1>0, <1>1, <2>1 DEF ReadIsFile
<1> QED BY <1>2, <1>3, <1>4, <1>5, <1>6, <1>7, <1>8, <1>9 DEF Load, Finish

LEMMA GatePassed ==
  ASSUME TypeInv, NEW p \in Proc, Load(p), proc'[p].pc = "selected"
  PROVE  ~Refused(p)'
<1>0. proc[p] \in ProcState /\ proc \in [Proc -> ProcState]
  BY DEF TypeInv, ProcType
<1>1. ~Exit(p)
  BY ExitMoves DEF TypeInv, Idle
<1>2. RequireReady(p)
  BY <1>0, <1>1 DEF Load, CountRows, LoadId, LoadMarker, LoadRows, Finish, Goto, ProcState
<1>3. ~Refused(p) /\ proc'[p].read = proc[p].read
  BY <1>0, <1>1, <1>2 DEF RequireReady, Goto, ProcState
<1> QED BY <1>3 DEF Refused

LEMMA NextRead == TypeInv /\ ReadInv /\ [Next]_vars => ReadInv'
<1> SUFFICES ASSUME TypeInv, ReadInv, [Next]_vars, NEW q \in Proc
             PROVE  /\ ~disturbed'[q] => ReadIsFile(q)'
                    /\ (proc[q].pc = "selected" => ~Refused(q))'
  BY DEF ReadInv
<1>1. CASE UNCHANGED vars
  <2>1. proc'[q] = proc[q] /\ disturbed'[q] = disturbed[q] /\ UNCHANGED file
    BY <1>1 DEF vars, file
  <2> QED BY <2>1, ReadSame, RefusedSame DEF ReadInv
<1>2. CASE Next
  <2>1. disturbed'[q] = (Loading(q)' /\ (disturbed[q] \/ file' # file))
    BY <1>2 DEF Next
  <2>2. CASE ~Loading(q)'
    BY <2>2 DEF Loading, LoadPc, ReadIsFile
  <2>3. CASE Loading(q)'
    <3>1. ~disturbed'[q] => ~disturbed[q] /\ file' = file
      BY <2>1, <2>3
    <3>2. CASE proc'[q] = proc[q]
      BY <3>1, <3>2, ReadSame, RefusedSame DEF ReadInv
    <3>3. CASE Load(q)
      BY <3>1, <3>3, LoadReads, GatePassed DEF ReadInv
    <3>4. CASE Edit
      BY <3>2, <3>4 DEF Edit
    <3>5. ASSUME NEW p \in Proc, Start(p) \/ Step(p) \/ Crash(p)
          PROVE  proc'[q] = proc[q] \/ Load(q)
      BY <2>3, <3>5, OthersStay, OnlyLoadLoads
    <3> QED BY <1>2, <3>2, <3>3, <3>4, <3>5 DEF Next
  <2> QED BY <2>2, <2>3
<1> QED BY <1>1, <1>2

LEMMA SelectedIsCoherent == SharedInv /\ ReadInv => UndisturbedSelectionIsCoherent
<1> SUFFICES ASSUME SharedInv, ReadInv, NEW p \in Proc,
                    proc[p].pc = "selected", ~disturbed[p], ~contended, ~cut
             PROVE  Coherent(proc[p].read)
  BY DEF UndisturbedSelectionIsCoherent
<1> DEFINE r == proc[p].read
<1>1. /\ r.snapshot = meta.snapshot /\ r.marker = meta.marker /\ r.files = Joined("files")
      /\ r.symbols = Joined("symbols") /\ r.edges = Joined("edges") /\ "edges" \in tables
  BY DEF ReadInv, ReadIsFile
<1>2. meta.snapshot # None /\ ~meta.marker
  BY <1>1 DEF ReadInv, Refused
<1>3. Complete /\ meta.snapshot \in Full
  BY <1>1, <1>2
     DEF SharedInv, AloneInv, FileInv, DroppedInOrder, IdOnlyWhenReady, IdIsComplete, Readable
<1>4. \A h \in Pkg : rows["files"][h] # None
  BY <1>3, NoneShape DEF Complete, FactTable, Full, Version
<1>5. Joined("files") = meta.snapshot /\ Joined("symbols") = meta.snapshot
  BY <1>3, <1>4 DEF Joined, Complete, FactTable, Full
<1>6. \A h \in Pkg : Joined("edges")[h] = meta.snapshot
  BY <1>3, <1>4 DEF Joined, Complete, DerivedTable
<1> QED BY <1>1, <1>5, <1>6 DEF Coherent

(* UndisturbedSelectionIsCoherent: a selection that passes the gate, and    *)
(* during whose load nothing was committed, holds the rows of the build    *)
(* its id names, although the gate never asks for index_state.             *)
THEOREM SelectionCorrect == Spec => []UndisturbedSelectionIsCoherent
<1>1. SharedInv => TypeInv
  BY DEF SharedInv
<1> QED BY InitShared, NextShared, InitRead, NextRead, SelectedIsCoherent, <1>1, PTL DEF Spec
=============================================================================
