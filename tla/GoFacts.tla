------------------------------- MODULE GoFacts -------------------------------
(***************************************************************************)
(* What extraction says of a Go file and resolution reads (cs-extract      *)
(* lib.rs): definitions, references, imports and how completely the file   *)
(* was analysed.  A path or an import specifier is the sequence of its     *)
(* segments; spans are left out, except that a reference is told from      *)
(* another one by its position.                                            *)
(***************************************************************************)
EXTENDS Naturals, Sequences, FiniteSets

CONSTANT None          \* Option::None

TypeKind == {"struct", "interface", "type"}
DefKind  == TypeKind \union {"function", "method", "const", "var"}
RefKind  == {"name_ref", "field_ref", "call_ref", "type_ref"}

Def(name, kind, qualName, exported) ==
  [name |-> name, kind |-> kind, qual |-> qualName, exported |-> exported]

(* qualifier: the operand identifier of a selector, if it is one. *)
Ref(name, kind, qualifier) == [name |-> name, kind |-> kind, qualifier |-> qualifier]

(* alias: None, a name, or the forms "." and "_". *)
Import(raw, alias) == [raw |-> raw, alias |-> alias]

(* Everything extraction learned about one file; pkg is None when there is *)
(* no package clause.                                                      *)
ExtractedFile(status, pkg, defs, imports, refs) ==
  [status |-> status, pkg |-> pkg, defs |-> defs, imports |-> imports, refs |-> refs]

(* A file that was deliberately not parsed, or not in time. *)
Skipped(status) == ExtractedFile(status, None, {}, <<>>, <<>>)
=============================================================================
