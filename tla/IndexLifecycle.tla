--------------------------- MODULE IndexLifecycle ---------------------------
(***************************************************************************)
(* What the index promises the processes that read it (ADR-021 D3, ADR-022 *)
(* D4 and D7, ARCHITECTURE 4.4), with no word about files or packages:     *)
(* an index is empty, under construction, ready or torn; its rows move     *)
(* only under construction or while it is torn, so all that was read       *)
(* before and after from a ready index that was never torn in between      *)
(* agrees; and it becomes ready only by publishing the identity of the     *)
(* rows it then holds.                                                     *)
(*                                                                         *)
(* ColdBuild and IncrementalUpdate implement it.                           *)
(***************************************************************************)
CONSTANT NoIdentity

VARIABLES
  phase,      \* "empty", "building", "ready" or "torn"
  rows,       \* every fact and derived table
  identity,   \* the snapshot id the rows have
  published   \* the snapshot id readers are given

lifecycle == <<phase, rows, identity, published>>

(* Claim an empty index. *)
Begin ==
  /\ phase = "empty"
  /\ phase' = "building"
  /\ UNCHANGED <<rows, identity, published>>

(* One transaction of a build. *)
Build ==
  /\ phase = "building"
  /\ phase' = "building"
  /\ UNCHANGED published

(* The first transaction of an update takes the index out of service. *)
Tear ==
  /\ phase = "ready"
  /\ phase' = "torn"
  /\ UNCHANGED published

(* A later transaction of an update, or of the run repairing a torn one. *)
Update ==
  /\ phase = "torn"
  /\ phase' = "torn"
  /\ UNCHANGED published

(* A build or an update completes. *)
Publish ==
  /\ phase \in {"building", "torn"}
  /\ phase' = "ready"
  /\ published' = identity
  /\ UNCHANGED <<rows, identity>>

(* --rebuild throws the database away. *)
Discard ==
  /\ phase' = "empty"
  /\ published' = NoIdentity

Next == Begin \/ Build \/ Tear \/ Update \/ Publish \/ Discard

Init ==
  \/ phase = "empty" /\ published = NoIdentity
  \/ phase = "ready" /\ published = identity

Spec == Init /\ [][Next]_lifecycle
=============================================================================
