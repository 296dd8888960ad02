------------------------------ MODULE Diagnosis ------------------------------
(***************************************************************************)
(* Doctor::check (cs-index doctor.rs): what the diagnoses say of a state   *)
(* of the index.  The checks only read; their codes are the program's.     *)
(* PRAGMA quick_check (the pages of the file) and the schema version are   *)
(* those of an undamaged file; SharedIndex has the damaged ones.           *)
(***************************************************************************)
EXTENDS IndexStore

Error(code)   == [severity |-> "error", code |-> code]
Warning(code) == [severity |-> "warning", code |-> code]
When(cond, finding) == IF cond THEN {finding} ELSE {}

(* .go files with a package: the resolver never touches any other. *)
PackageFiles == {p \in Path : HasPackage(DB, p) /\ p.kind \in {"source", "test"}}

(* PRAGMA foreign_key_check: rows whose parent row is gone. *)
DanglingPackages == {p \in Path : HasPackage(DB, p) /\ KeyOf(DB, p) \notin packages}
DanglingDerived  == {p \in Path : derived[p] # None /\ p \notin Present}
DanglingTargets  == {p \in Path : /\ derived[p] # None
                                  /\ \E t \in derived[p].targets : t.file \notin Present}
DanglingEdges    == {e \in edges : ~({e.src, e.dst} \subseteq Present)}
SelfEdges        == {e \in edges : e.src = e.dst}

CheckForeignKeys ==
  When(DanglingPackages \union DanglingDerived \union DanglingTargets # {}
         \/ DanglingEdges # {}, Error("FOREIGN_KEYS"))

(* The snapshot id is asked for of a ready index only. *)
CheckMeta ==
  When(indexState = "building", Warning("INDEX_STATE_BUILDING"))
    \union When(indexState = "ready" /\ snapshot = None, Warning("SNAPSHOT_ID_MISSING"))
    \union When(marker, Warning("UPDATE_INCOMPLETE"))

CheckReferentialIntegrity ==
  When(\E p \in Present : ~FilesCheck(files[p]), Error("FILES_CONSISTENCY"))
    \union When(DanglingTargets # {} \/ DanglingEdges \union SelfEdges # {},
                Error("REFERENTIAL_INTEGRITY_VIOLATIONS"))

(* Every reference of a package file has a bindings row, bound or not, and *)
(* every import is classified.                                             *)
CheckProjection ==
  When(\E p \in PackageFiles : files[p].facts.refs # {} /\ derived[p] = None,
       Error("PROJECTION_INCOMPLETE"))
    \union When(\E p \in PackageFiles : files[p].facts.imports # {} /\ derived[p] = None,
                Error("IMPORTS_UNCLASSIFIED"))

CheckHealth ==
  When(\E p \in Present : files[p].status \in {"timeout", "error"}, Warning("PARSE_ANOMALIES"))

Check == CheckForeignKeys \union CheckMeta \union CheckReferentialIntegrity
           \union CheckProjection \union CheckHealth
----------------------------------------------------------------------------
(* A ready index no update is torn in has nothing to report but files that *)
(* timed out: "a violation means the projection does not match the facts - *)
(* a torn or lost derived write" (doctor.rs), so none may be found where   *)
(* every update was finished, whatever died and was repaired before.       *)
HealthyWhenReady ==
  indexState = "ready" /\ ~marker => Check \subseteq {Warning("PARSE_ANOMALIES")}
=============================================================================
