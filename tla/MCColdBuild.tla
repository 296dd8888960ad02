---------------------------- MODULE MCColdBuild ----------------------------
(***************************************************************************)
(* Small trees for ColdBuild, over the sample module.                      *)
(***************************************************************************)
EXTENDS ColdBuild, Diagnosis, GoSamples

(* Directory 2 with its test file and a second source file. *)
ResumePaths == {goMod, a1, b1, b2, bTest}
ResumeTree(m, a, b, bb, t) ==
  [p \in ResumePaths |-> Tree(m, a, b, bb, t, None)[p]]

(* Files that change, become unreadable or outgrow a cap between two       *)
(* attempts, but stay.                                                     *)
ResumeTrees == {ResumeTree(modM, aX, bCallX, None, tUses),
                ResumeTree(Unreadable, aSlow, bBlank, bW, tUses)}
ResumeVersions ==
  [p \in ResumePaths |->
     CASE p = goMod -> {modM, modN, Unreadable}
       [] p = a1    -> {aX, aY, aSlow, aBig, aHuge}
       [] p = b1    -> {bCallX, bBlank}
       [] p = b2    -> {bW, bMain, None}
       [] p = bTest -> {tUses, tOwn}]

(* A program and a library share the directory of a test file. *)
PairsTrees == {ResumeTree(modM, aX, bBlank, bMain, tOwn)}
PairsVersions == [p \in ResumePaths |-> {}]
=============================================================================
