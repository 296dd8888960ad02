----------------------------- MODULE MCExtract -----------------------------
(* Extraction alone, on the files of GoFiles. *)
EXTENDS GoFiles

Spec == ExtractSpec
=============================================================================
