------------------------------ MODULE MCStages ------------------------------
(***************************************************************************)
(* The stages that compute and store nothing themselves, side by side:     *)
(* extraction of a file, resolution of a repository and the beginning of a *)
(* selection.  One behaviour takes one of them; the others rest in one of  *)
(* their initial states.                                                   *)
(***************************************************************************)
EXTENDS GoFiles, GoResolver, GoRepos, TaskSamples

VARIABLE stage

Init ==
  /\ stage \in {"extract", "resolve", "select"}
  /\ stage # "extract" => file = Trailing
  /\ stage # "resolve" => repo = EmptyRepo
  /\ stage # "select" => task = <<>>
  /\ ExtractInit /\ ResolverInit /\ SelectInit

Next ==
  \/ stage = "extract" /\ ExtractNext /\ UNCHANGED <<stage, resolverVars, selectVars>>
  \/ stage = "resolve" /\ ResolvePackage /\ UNCHANGED <<stage, extractVars, selectVars>>
  \/ stage = "select" /\ SelectNext /\ UNCHANGED <<stage, extractVars, resolverVars>>

Spec == Init /\ [][Next]_<<stage, extractVars, resolverVars, selectVars>>
=============================================================================
