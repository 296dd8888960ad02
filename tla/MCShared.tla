------------------------------ MODULE MCShared ------------------------------
(* Two processes over a file of two packages. *)
EXTENDS SharedIndex, TLC

ResetCommands == {"index", "reset"}
ReadCommands  == {"index", "select"}
IndexCommands == {"index"}

Symmetry == Permutations(Proc) \union Permutations(Pkg)
=============================================================================
