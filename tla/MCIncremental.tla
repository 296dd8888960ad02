--------------------------- MODULE MCIncremental ---------------------------
(***************************************************************************)
(* Small trees for IncrementalUpdate, over the sample module.              *)
(***************************************************************************)
EXTENDS IncrementalUpdate, Diagnosis, GoSamples

(* An index built from the tree as it is. *)
Fresh(tree) ==
  [files |-> FreshRows(tree), packages |-> KeysInUse(FreshRows(tree)),
   manifest |-> FreshManifest(tree)]

ChainTree == Tree(modM, aX, bCallX, None, tUses, cCallZ)
FreshStarts ==
  {[tree |-> t, build |-> Fresh(t)] :
     t \in {ChainTree, Tree(modM, aX, bCallX, bW, tUses, cBlank)}}

(* Indexes that were built in two attempts, between which b1 left package  *)
(* a of its directory, or c1 was removed.                                  *)
GhostStarts ==
  {[tree |-> ChainTree,
    build |-> [Fresh(ChainTree) EXCEPT !.packages = @ \union {[dir |-> 2, name |-> pkgA]}]],
   [tree |-> [ChainTree EXCEPT ![c1] = None], build |-> Fresh(ChainTree)]}

(* go.mod was removed between them; a1 changed from aX to aY between the   *)
(* scan and the read of one attempt, and back again.                       *)
StaleStarts ==
  {[tree |-> [ChainTree EXCEPT ![goMod] = None], build |-> Fresh(ChainTree)],
   [tree |-> ChainTree, build |-> [Fresh(ChainTree) EXCEPT !.files[a1].facts = aY]]}

BulkStarts  == FreshStarts \union GhostStarts
ChainStarts == BulkStarts \union StaleStarts

(* One file changes between two scans: every kind of edit of each file. *)
ChainVersions ==
  [p \in AllPaths |->
     CASE p = goMod -> {modM, modN, None, Unreadable}
       [] p = a1    -> {aX, aY, aSlow, aBig, None, Unreadable}
       [] p = b1    -> {bCallX, bBlank, bMain, None}
       [] p = b2    -> {bW, bMain, None}
       [] p = bTest -> {tUses, None}
       [] p = c1    -> {cCallZ, cBlank}]
=============================================================================
