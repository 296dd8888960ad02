----------------------------- MODULE GoExtract -----------------------------
(***************************************************************************)
(* Extraction of one Go file (cs-extract go/mod.rs and its three queries): *)
(* the tree tree-sitter built is scanned by the definition, the import and *)
(* the reference query in turn; every match is merged into what earlier    *)
(* matches of the same query left, and the filters the query language      *)
(* cannot express run at the end.  Within one query the matches arrive in  *)
(* any order: defs.scm claims that the merge does not depend on it.        *)
(*                                                                         *)
(* A file is its syntax tree: a sequence of nodes in source order, so that *)
(* a node's number is its first byte and EndOf its last.  Punctuation is   *)
(* left out, a comment takes one line, and a range clause has the text of  *)
(* its assignment token.  The texts of signatures are not modelled.        *)
(***************************************************************************)
EXTENDS GoFacts, SequencesExt

CONSTANTS
  Source,        \* the syntax trees extracted from
  Universe,      \* the predeclared identifiers (UNIVERSE_NAMES)
  Capital,       \* the names whose first rune is upper case
  Directive,     \* the comments that start with //go:
  NameRank       \* the order of names (str comparison)

VARIABLES
  file,          \* the tree being extracted
  phase,         \* which pass runs
  pending,       \* the matches of its query not delivered yet
  rawDefs,       \* raw: node -> the names and the doc candidate merged so far
  rawImports,    \* merged: node -> the alias seen so far, or None
  rawRefs,       \* raw: the references captured, before any filter
  operands,      \* qualifier_spans: identifiers that qualify a selector
  facts          \* the result, None before it is returned

extractVars == <<file, phase, pending, rawDefs, rawImports, rawRefs, operands, facts>>

-----------------------------------------------------------------------------
(* The tree. *)

Node(kind, parent, field, text, row) ==
  [kind |-> kind, parent |-> parent, field |-> field, text |-> text, row |-> row]

EndOf(t, i)     == Min({k \in (i + 1)..Len(t) : t[k].parent < i} \union {Len(t) + 1}) - 1
Subtree(t, i)   == i..EndOf(t, i)
Above(t, i)     == {a \in 1..i : i <= EndOf(t, a)}       \* i and its ancestors
Children(t, i)  == {k \in (i + 1)..Len(t) : t[k].parent = i}
Field(t, i, f)  == {k \in Children(t, i) : t[k].field = f}
FirstChild(t, i) == Min(Children(t, i))
ParentKind(t, i) == IF i = 1 THEN "" ELSE t[t[i].parent].kind
LeftOf(t, i)    == {k \in Children(t, t[i].parent) : k < i}
Comments(t)     == {i \in 1..Len(t) : t[i].kind = "comment"}
PrevComment(t, i) ==
  {c \in LeftOf(t, i) \intersect Comments(t) : \A k \in LeftOf(t, i) : k <= c}

(* Nodes in the order of the file, as the sorts by first byte leave them:  *)
(* the k-th is the one that has k nodes up to it.                          *)
InOrder(S) == [k \in 1..Cardinality(S) |-> CHOOSE x \in S : Cardinality({y \in S : y <= x}) = k]

HasError(t, i)        == \E k \in Subtree(t, i) : t[k].kind = "ERROR"
HasErrorAncestor(t, i) == \E a \in Above(t, i) : t[a].kind = "ERROR"

PackageName(t) ==
  LET clause == {i \in Children(t, 1) : t[i].kind = "package_clause"}
  IN  IF clause = {} THEN None ELSE t[FirstChild(t, Min(clause))].text

-----------------------------------------------------------------------------
(* Definitions: defs.scm, collect_defs and its helpers. *)

Callables == {"function_declaration", "method_declaration"}
Specs      == {"const_spec", "var_spec", "type_spec", "type_alias"}
Declarations == {"const_declaration", "var_declaration", "type_declaration"}
Group(t, i) == CHOOSE a \in Above(t, i) : t[a].parent = 1

(* The declarations the query captures: file-level ones only.  A file so    *)
(* broken that its root is an error has none.                               *)
IsDefNode(t, i) ==
  LET p == t[i].parent IN
  /\ i > 1 /\ t[1].kind = "source_file"
  /\ \/ t[i].kind \in Callables /\ p = 1
     \/ t[i].kind \in Specs /\ t[p].kind \in Declarations /\ t[p].parent = 1
     \/ /\ t[i].kind = "var_spec" /\ t[p].kind = "var_spec_list"
        /\ t[t[p].parent].kind = "var_declaration" /\ t[t[p].parent].parent = 1

NameNodes(t, i) ==
  IF t[i].kind \in {"const_spec", "var_spec"}
  THEN {k \in Children(t, i) : t[k].kind = "identifier"}
  ELSE Field(t, i, "name")

(* The comment right before the declaration in its list, and the one right *)
(* before the declaration the list belongs to; a var list has no pattern   *)
(* for the latter, nor a single var for the former.                        *)
DocNodes(t, i) ==
  (IF ParentKind(t, i) = "var_declaration" THEN {} ELSE PrevComment(t, i))
    \union (IF ParentKind(t, i) = "var_spec_list" THEN {} ELSE PrevComment(t, Group(t, i)))

DefMatch(node, name, doc) == [node |-> node, name |-> name, doc |-> doc]

DefMatches(t) ==
  UNION {{DefMatch(i, t[n].text, d) : n \in NameNodes(t, i), d \in DocNodes(t, i) \union {None}} :
           i \in {j \in 1..Len(t) : IsDefNode(t, j)}}

DirectiveLine(t, row) ==
  \E c \in Comments(t) : /\ t[c].row = row
                         /\ t[c].text \in Directive
                         /\ \A k \in 1..(c - 1) : t[k].row # row

(* only_directive_lines, with the row test both its callers make. *)
Adjacent(t, c, decl) ==
  /\ t[decl].row > t[c].row
  /\ \A row \in (t[c].row + 1)..(t[decl].row - 1) : DirectiveLine(t, row)

BetterDocAny(t, decl, old, new) ==     \* mutant: whatever came first
  IF old = None THEN new ELSE old
BetterDoc(t, decl, old, new) ==
  IF \/ old = None
     \/ new # None /\ Adjacent(t, new, decl) /\ ~Adjacent(t, old, decl)
  THEN new
  ELSE old

MergedDef(raw, t, m) ==
  LET old == IF m.node \in DOMAIN raw THEN raw[m.node] ELSE [names |-> {}, doc |-> None]
      new == [names |-> old.names \union {m.name}, doc |-> BetterDoc(t, m.node, old.doc, m.doc)]
  IN  [i \in DOMAIN raw \union {m.node} |-> IF i = m.node THEN new ELSE raw[i]]

(* comment_lines and the paragraph rule: a line is a text, "" a blank one. *)
FirstParagraph(lines) ==
  LET text == {i \in 1..Len(lines) : lines[i] # ""}
      from == Min(text)
      stop == Min({i \in from..Len(lines) : lines[i] = ""} \union {Len(lines) + 1})
  IN  IF text = {} THEN None ELSE SubSeq(lines, from, stop - 1)

(* The comments of a list that reach c without a gap in the lines. *)
CommentBlock(t, c) ==
  {b \in (LeftOf(t, c) \union {c}) \intersect Comments(t) :
     \A k \in LeftOf(t, c) \union {c} :
        k > b => \E p \in PrevComment(t, k) : t[p].row + 1 = t[k].row}

DocComment(t, c, decl) ==
  LET kept == {b \in CommentBlock(t, c) : t[b].text \notin Directive}
  IN  IF c = None \/ ~Adjacent(t, c, decl) \/ kept = {} \/ ~Adjacent(t, Max(kept), decl)
      THEN None
      ELSE FirstParagraph([k \in 1..Cardinality(kept) |->
                             t[InOrder(kept)[k]].text])

KindOf(t, i) ==
  CASE t[i].kind = "function_declaration" -> "function"
    [] t[i].kind = "method_declaration"   -> "method"
    [] t[i].kind = "const_spec"           -> "const"
    [] t[i].kind = "var_spec"             -> "var"
    [] t[i].kind = "type_alias"           -> "type"
    [] t[i].kind = "type_spec" ->
         LET shape == {t[k].kind : k \in Field(t, i, "type")}
         IN  CASE "struct_type" \in shape    -> "struct"
               [] "interface_type" \in shape -> "interface"
               [] OTHER                      -> "type"

(* receiver_type_name: one pointer and one generic wrapper are removed. *)
ReceiverVerbatim(t, i) ==              \* mutant: nothing is removed
  LET types == UNION {Field(t, p, "type") :
                        p \in UNION {Children(t, r) : r \in Field(t, i, "receiver")}}
      named == {n \in types : t[n].kind \in {"type_identifier", "identifier"}}
  IN  IF t[i].kind # "method_declaration" \/ named = {} THEN None
      ELSE t[CHOOSE n \in named : TRUE].text
Receiver(t, i) ==
  LET Unwrapped(n, kind) == IF t[n].kind = kind THEN FirstChild(t, n) ELSE n
      types == UNION {Field(t, p, "type") :
                        p \in UNION {Children(t, r) : r \in Field(t, i, "receiver")}}
      base  == {Unwrapped(Unwrapped(n, "pointer_type"), "generic_type") : n \in types}
      named == {n \in base : t[n].kind \in {"type_identifier", "identifier"}}
  IN  IF t[i].kind # "method_declaration" \/ named = {} THEN None
      ELSE t[CHOOSE n \in named : TRUE].text

DefAt(t, i, name, doc) ==
  LET owner == Receiver(t, i)
      qual  == IF owner = None THEN <<name>> ELSE <<owner, name>>
  IN  [def |-> Def(name, KindOf(t, i), qual, name \in Capital),
       node |-> i, container |-> owner, doc |-> DocComment(t, doc, i)]

DroppedNever(raw, t) == {}             \* mutant: broken declarations are kept
Dropped(raw, t) == {i \in DOMAIN raw : HasError(t, i)}

Defs(raw, t) ==
  UNION {{DefAt(t, i, name, raw[i].doc) : name \in raw[i].names \ {"_"}} :
           i \in DOMAIN raw \ Dropped(raw, t)}

-----------------------------------------------------------------------------
(* Imports: imports.scm and collect_imports. *)

ImportSpecs(t) == {i \in 1..Len(t) : t[i].kind = "import_spec"}

(* What tree-sitter and its grammar of Go give: the nodes in source order, *)
(* nothing below an identifier, a name for every declaration, a base for a *)
(* pointer and a generic type, at most one alias for an import and one     *)
(* operand for a selector.                                                 *)
ASSUME TreeShape ==
  \A t \in Source :
    /\ Len(t) >= 1
    /\ t \in Seq([kind : STRING, parent : Nat, field : STRING, text : STRING, row : Nat])
    /\ t[1].parent = 0 /\ \A k \in 2..Len(t) : t[k].parent \in 1..(k - 1)
    /\ \A k \in 2..Len(t) : k \in Subtree(t, t[k].parent)
    /\ \A j, k \in 1..Len(t) : j <= k => t[j].row <= t[k].row
    /\ \A i \in 1..Len(t) : IsDefNode(t, i) => NameNodes(t, i) # {}
    /\ \A i \in 1..Len(t) : t[i].kind \in {"pointer_type", "generic_type"} => Children(t, i) # {}
    /\ \A k \in 2..Len(t) : t[t[k].parent].kind # "identifier"
    /\ \A i \in ImportSpecs(t) : \A a, b \in Field(t, i, "name") : a = b
    /\ \A i \in 1..Len(t) : \A a, b \in Field(t, i, "operand") : a = b
ASSUME NoneIsNoNode == None \notin Nat /\ \A t \in Source : \A k \in 1..Len(t) : t[k].text # None
ASSUME NameRankShape ==
  \A t \in Source : \A i \in 1..Len(t) : IsDefNode(t, i) =>
    \A n \in NameNodes(t, i) : t[n].text = "_" \/ NameRank[t[n].text] \in Nat

(* Every spec matches the bare pattern, an aliased one an alias pattern too. *)
ImportMatches(t) ==
  {[node |-> i, alias |-> None] : i \in ImportSpecs(t)}
    \union UNION {{[node |-> i, alias |-> t[a].text] : a \in Field(t, i, "name")} :
                    i \in ImportSpecs(t)}

MergedImport(raw, m) ==
  [i \in DOMAIN raw \union {m.node} |->
     IF i = m.node /\ (i \notin DOMAIN raw \/ raw[i] = None) THEN m.alias ELSE raw[i]]

ImportsOf(raw, t) ==
  LET At(i) == Import(t[CHOOSE p \in Field(t, i, "path") : TRUE].text, raw[i])
      order == InOrder(DOMAIN raw)
  IN  [k \in 1..Len(order) |-> At(order[k])]

-----------------------------------------------------------------------------
(* References: refs.scm, collect_refs and its helpers. *)

Captures(t) ==
  {i \in 1..Len(t) : t[i].kind \in {"identifier", "field_identifier", "type_identifier"}}

(* in_call_position: only index expressions between the callee and the     *)
(* selector, which may be the index and not the indexed operand.           *)
InCallPosition(t, sel) ==
  \E f \in Above(t, sel) :
    /\ f > 1 /\ t[f].field = "function" /\ ParentKind(t, f) = "call_expression"
    /\ \A x \in Above(t, sel) : f <= x /\ x < sel => t[x].kind = "index_expression"

Operand(t, sel) == {o \in Field(t, sel, "operand") : t[o].kind = "identifier"}

RawRef(i, kind, qualifier) == [node |-> i, kind |-> kind, qualifier |-> qualifier]
TextOf(t, nodes) == IF nodes = {} THEN None ELSE t[CHOOSE n \in nodes : TRUE].text

(* What one capture adds: at most one reference. *)
Captured(t, i) ==
  CASE t[i].kind = "identifier" -> {RawRef(i, "name_ref", None)}
    [] t[i].kind = "field_identifier" ->
         IF ParentKind(t, i) # "selector_expression" THEN {}
         ELSE LET sel == t[i].parent
              IN  {RawRef(i, IF InCallPosition(t, sel) THEN "call_ref" ELSE "field_ref",
                          TextOf(t, Operand(t, sel)))}
    [] t[i].kind = "type_identifier" ->
         {RawRef(i, "type_ref", IF ParentKind(t, i) = "qualified_type"
                                THEN TextOf(t, Field(t, t[i].parent, "package")) ELSE None)}

CapturedOperand(t, i) ==
  IF t[i].kind = "field_identifier" /\ ParentKind(t, i) = "selector_expression"
  THEN Operand(t, t[i].parent) ELSE {}

(* collect_direct_identifiers *)
DirectIdentifiers(t, i) ==
  IF t[i].kind = "identifier" THEN {i}
  ELSE {k \in Children(t, i) : t[k].kind = "identifier"}

(* A chain of slices and pointers, each with its element first, down to a  *)
(* struct; the first child of an array type is its length.                 *)
StructShaped(t, ty) ==
  \E s \in Subtree(t, ty) :
    /\ t[s].kind \in {"type_identifier", "qualified_type", "struct_type", "generic_type"}
    /\ \A x \in ty..(s - 1) : t[x].kind \in {"slice_type", "array_type", "pointer_type"}

(* The composite literal a key belongs to, through untyped nested ones. *)
OwnerLiteral(t, key) ==
  {c \in Above(t, key) \ {key} :
     /\ t[c].kind = "composite_literal"
     /\ \A x \in Above(t, key) \ {key} :
          x > c => t[x].kind \in {"literal_value", "keyed_element", "literal_element"}}

(* declaration_spans, one node of the walk. *)
DeclaredBy(t, i) ==
  LET Direct(f) == UNION {DirectIdentifiers(t, l) : l \in Field(t, i, f)} IN
  CASE t[i].kind \in {"function_declaration", "parameter_declaration",
                      "variadic_parameter_declaration", "type_parameter_declaration"} ->
         DirectIdentifiers(t, i)
    [] t[i].kind \in {"var_spec", "const_spec"} ->
         {k \in Children(t, i) : \A j \in Children(t, i) : j <= k => t[j].kind = "identifier"}
    [] t[i].kind = "type_switch_statement" -> Direct("alias")
    [] t[i].kind = "keyed_element" ->
         IF \E c \in OwnerLiteral(t, i) : \E ty \in Field(t, c, "type") : StructShaped(t, ty)
         THEN Direct("key") ELSE {}
    [] t[i].kind = "short_var_declaration" -> Direct("left")
    [] t[i].kind = "range_clause" /\ t[i].text = ":=" -> Direct("left")
    [] OTHER -> {}

Declared(t) == UNION {DeclaredBy(t, i) : i \in 1..Len(t)}

OwnName(t, i) == ParentKind(t, i) \in {"type_spec", "type_alias"} /\ t[i].field = "name"

(* The filters of the second pass. *)
Kept(t, r, dropped, quals) ==
  LET i == r.node IN
  /\ ~HasErrorAncestor(t, i)
  /\ \A d \in dropped : i \notin Subtree(t, d)
  /\ r.kind = "name_ref" => /\ t[i].text \notin Universe \union {"_"}
                            /\ i \notin Declared(t) \union quals
  /\ r.kind = "type_ref" => t[i].text \notin Universe /\ ~OwnName(t, i)

(* defs are sorted by span and name; the last one to start at or before i. *)
LastDef(defs, i) ==
  LET upTo == {d \in defs : d.node <= i}
  IN  {d \in upTo : \A e \in upTo :
         \/ e.node < d.node
         \/ e.node = d.node /\ NameRank[e.def.name] <= NameRank[d.def.name]}

ContainerOpen(t, defs, i) ==          \* mutant: that it has ended is not seen
  IF LastDef(defs, i) = {} THEN None
  ELSE (CHOOSE d \in LastDef(defs, i) : TRUE).def.qual
Container(t, defs, i) ==
  IF \E d \in LastDef(defs, i) : EndOf(t, d.node) >= EndOf(t, i)
  THEN (CHOOSE d \in LastDef(defs, i) : TRUE).def.qual ELSE None

RefAt(t, r, defs) ==
  [ref |-> Ref(t[r.node].text, r.kind, r.qualifier), node |-> r.node,
   container |-> Container(t, defs, r.node)]

Status(t) == IF HasError(t, 1) THEN "partial" ELSE "ok"

Extracted(t) ==
  LET defs == Defs(rawDefs, t)
  IN  ExtractedFile(Status(t), PackageName(t), defs, ImportsOf(rawImports, t),
        {RefAt(t, r, defs) : r \in {q \in rawRefs : Kept(t, q, Dropped(rawDefs, t), operands)}})

-----------------------------------------------------------------------------
(* The passes. *)

ExtractInit ==
  /\ file \in Source
  /\ phase = "parse" /\ pending = {}
  /\ rawDefs = <<>> /\ rawImports = <<>> /\ rawRefs = {} /\ operands = {}
  /\ facts = None

(* The budget is spent before or during the parse: no tree, no facts. *)
ParseTimesOut ==
  /\ phase = "parse"
  /\ phase' = "done" /\ facts' = Skipped("timeout")
  /\ UNCHANGED <<file, pending, rawDefs, rawImports, rawRefs, operands>>

Parse ==
  /\ phase = "parse"
  /\ phase' = "defs" /\ pending' = DefMatches(file)
  /\ UNCHANGED <<file, rawDefs, rawImports, rawRefs, operands, facts>>

MatchDef ==
  /\ phase = "defs"
  /\ \E m \in pending : /\ rawDefs' = MergedDef(rawDefs, file, m)
                        /\ pending' = pending \ {m}
  /\ UNCHANGED <<file, phase, rawImports, rawRefs, operands, facts>>

DefsMatched ==
  /\ phase = "defs" /\ pending = {}
  /\ phase' = "imports" /\ pending' = ImportMatches(file)
  /\ UNCHANGED <<file, rawDefs, rawImports, rawRefs, operands, facts>>

MatchImport ==
  /\ phase = "imports"
  /\ \E m \in pending : /\ rawImports' = MergedImport(rawImports, m)
                        /\ pending' = pending \ {m}
  /\ UNCHANGED <<file, phase, rawDefs, rawRefs, operands, facts>>

ImportsMatched ==
  /\ phase = "imports" /\ pending = {}
  /\ phase' = "refs" /\ pending' = Captures(file)
  /\ UNCHANGED <<file, rawDefs, rawImports, rawRefs, operands, facts>>

(* mutant: an operand is struck off instead of filtered at the end *)
MatchRefStriking ==
  /\ phase = "refs"
  /\ \E i \in pending :
       /\ rawRefs' = {r \in rawRefs \union Captured(file, i) :
                        r.node \notin CapturedOperand(file, i)}
       /\ pending' = pending \ {i}
  /\ UNCHANGED <<file, phase, rawDefs, rawImports, operands, facts>>
MatchRef ==
  /\ phase = "refs"
  /\ \E i \in pending : /\ rawRefs' = rawRefs \union Captured(file, i)
                        /\ operands' = operands \union CapturedOperand(file, i)
                        /\ pending' = pending \ {i}
  /\ UNCHANGED <<file, phase, rawDefs, rawImports, facts>>

RefsMatched ==
  /\ phase = "refs" /\ pending = {}
  /\ phase' = "done" /\ facts' = Extracted(file)
  /\ UNCHANGED <<file, pending, rawDefs, rawImports, rawRefs, operands>>

ExtractNext ==
  \/ ParseTimesOut \/ Parse
  \/ MatchDef \/ DefsMatched
  \/ MatchImport \/ ImportsMatched
  \/ MatchRef \/ RefsMatched

ExtractSpec == ExtractInit /\ [][ExtractNext]_extractVars

-----------------------------------------------------------------------------
(* Properties of the facts. *)

Complete == phase = "done" /\ facts.status # "timeout"

(* A receiver of one of the forms Go allows: T, *T, T[P] and *T[P].        *)
GoReceiver(t, i) ==
  LET Inside(n, kind) == IF t[n].kind = kind THEN FirstChild(t, n) ELSE n
  IN  \E r \in Field(t, i, "receiver") : \E p \in Children(t, r) : \E n \in Field(t, p, "type") :
        t[Inside(Inside(n, "pointer_type"), "generic_type")].kind = "type_identifier"

(* The type of the result: a method is qualified by its receiver type, and *)
(* nothing but a method has a container.                                   *)
ExtractTypeOK ==
  /\ phase \in {"parse", "defs", "imports", "refs", "done"}
  /\ phase # "done" => facts = None
  /\ phase # "done" => operands \subseteq Captures(file)
  /\ Complete =>
       /\ \A d \in facts.defs : /\ d.def.kind \in DefKind
                                /\ d.container # None => d.def.kind = "method"
                                /\ d.def.kind = "method" /\ GoReceiver(file, d.node)
                                     => d.container # None
                                /\ Len(d.def.qual) = IF d.container = None THEN 1 ELSE 2
       /\ \A r \in facts.refs : r.ref.kind \in RefKind

(* Go's rule for a doc comment, on the lines of the file: the comments on  *)
(* the lines that end right above the declaration, directives apart, up to *)
(* a line without one.                                                     *)
GoDoc(t, i) ==
  LET Alone(c) == \A k \in 1..Len(t) : k # c /\ t[k].row = t[c].row => k = 1
      rows  == {t[c].row : c \in {c \in Comments(t) : Alone(c)}}
      last  == Max({r \in 0..(t[i].row - 1) : ~DirectiveLine(t, r)} \union {0})
      block == {c \in Comments(t) : /\ t[c].row <= last
                                    /\ t[c].row..last \subseteq rows
                                    /\ t[c].text \notin Directive}
      order == InOrder(block)
  IN  FirstParagraph([k \in 1..Len(order) |-> t[order[k]].text])

CommentsHaveLines(t) ==
  \A c \in Comments(t), k \in 2..Len(t) : t[k].row = t[c].row => k = c

(* A comment with a line of its own comes right before what is on the next *)
(* line: the comment there in its list, and the declaration there or the   *)
(* list it is alone in.                                                    *)
CommentsPrecede(t) ==
  \A c \in Comments(t) :
    /\ \A n \in Comments(t) : t[n].row = t[c].row + 1 => c \in PrevComment(t, n)
    /\ \A i \in 1..Len(t) : IsDefNode(t, i) /\ t[i].row = t[c].row + 1 => c \in DocNodes(t, i)

(* Whatever order the matches of a declaration came in, it has the doc the *)
(* Go convention gives it, in a file whose comments stand on their lines.  *)
DocsFollowGo ==
  Complete /\ CommentsHaveLines(file) /\ CommentsPrecede(file) =>
    \A d \in facts.defs : d.doc = GoDoc(file, d.node)

(* Violated: the comment at the end of a line of code documents nothing    *)
(* ("Go's rule, applied exactly", doc_comment).                            *)
DocsStandAlone == Complete => \A d \in facts.defs : d.doc = GoDoc(file, d.node)

(* The degradation policy: every file-level declaration without an error   *)
(* below it is a definition, once per name; nothing comes from an error    *)
(* region or from a declaration that was given up, whatever node the       *)
(* recovery put around it.                                                 *)
DegradationPolicy ==
  Complete =>
    LET Clean(i)  == ~HasError(file, i) /\ ~HasErrorAncestor(file, i)
        declared  == {i \in 1..Len(file) : IsDefNode(file, i)}
    IN  /\ {<<d.node, d.def.name>> : d \in facts.defs} =
             UNION {{<<i, file[n].text>> : n \in {n \in NameNodes(file, i) : file[n].text # "_"}} :
                      i \in {j \in declared : Clean(j)}}
        /\ \A r \in facts.refs :
             /\ ~HasErrorAncestor(file, r.node)
             /\ \A i \in declared : r.node \in Subtree(file, i) => Clean(i)

(* The places of a name that is given and not used, seen from the name:    *)
(* those LANGUAGES.md lists under "Declaration positions never become      *)
(* refs", as far as the walk knows them.  It is not Go's notion of a use:  *)
(* the README lists where they part.                                       *)
GivesName(t, i) ==
  \/ ParentKind(t, i) \in {"function_declaration", "parameter_declaration",
                           "variadic_parameter_declaration", "type_parameter_declaration"}
  \/ ParentKind(t, i) \in {"var_spec", "const_spec"}
     /\ \A j \in LeftOf(t, i) : t[j].kind = "identifier"
  \/ \E s \in {a \in Above(t, i) : a = i \/ a = t[i].parent} :
       \/ ParentKind(t, s) = "type_switch_statement" /\ t[s].field = "alias"
       \/ ParentKind(t, s) = "short_var_declaration" /\ t[s].field = "left"
       \/ /\ ParentKind(t, s) = "range_clause" /\ t[s].field = "left"
          /\ t[t[s].parent].text = ":="
       \/ /\ ParentKind(t, s) = "keyed_element" /\ t[s].field = "key"
          /\ \E c \in OwnerLiteral(t, t[s].parent) :
               \E ty \in Field(t, c, "type") : StructShaped(t, ty)

(* A name before the dot of a selector. *)
Qualifies(t, i) ==
  /\ t[i].field = "operand" /\ ParentKind(t, i) = "selector_expression"
  /\ \E f \in Children(t, t[i].parent) : t[f].kind = "field_identifier"

(* Whether a captured identifier is reported depends on its place in the   *)
(* tree and on nothing else, although collect_refs learns that it is an    *)
(* operand from another match, which may come later, and that its          *)
(* declaration was given up from another query: nothing an error touches,  *)
(* no predeclared name, no name being given, no operand; of the field      *)
(* identifiers the selected ones.  And no operand is lost by that: the     *)
(* reference of its selector has it as qualifier.                          *)
RefsByPlace ==
  Complete =>
    LET broken    == {i \in 1..Len(file) : IsDefNode(file, i) /\ HasError(file, i)}
        clean     == {i \in Captures(file) : /\ ~HasErrorAncestor(file, i)
                                             /\ \A b \in broken : i \notin Subtree(file, b)}
        ordinary  == {i \in clean : file[i].text \notin Universe}
        names     == {i \in ordinary : /\ file[i].kind = "identifier" /\ file[i].text # "_"
                                       /\ ~GivesName(file, i) /\ ~Qualifies(file, i)}
        types     == {i \in ordinary : /\ file[i].kind = "type_identifier"
                                       /\ ~OwnName(file, i)}
        selected  == {i \in clean : /\ file[i].kind = "field_identifier"
                                    /\ ParentKind(file, i) = "selector_expression"}
    IN  /\ {r.node : r \in facts.refs} = names \union types \union selected
        /\ \A o \in clean : file[o].kind = "identifier" /\ Qualifies(file, o) =>
             \E r \in facts.refs : /\ r.ref.qualifier = file[o].text
                                   /\ file[r.node].parent = file[o].parent

(* A reference is attributed to a definition that encloses it, and to none *)
(* only if none does: one search over the sorted definitions finds it.     *)
ContainersEnclose ==
  Complete =>
    \A r \in facts.refs :
      LET around == {d \in facts.defs : r.node \in Subtree(file, d.node)}
      IN  IF around = {} THEN r.container = None
          ELSE \E d \in around : r.container = d.def.qual

(* An import keeps the alias it is written with, named, dot or blank, in   *)
(* the order of the file, although two patterns match it.                  *)
AliasesKept ==
  Complete =>
    LET specs == InOrder(ImportSpecs(file))
    IN  /\ Len(facts.imports) = Len(specs)
        /\ \A k \in 1..Len(specs) :
             facts.imports[k].alias = TextOf(file, Field(file, specs[k], "name"))

(* What defs.scm claims of the merges: they do not depend on the order of  *)
(* the matches.                                                            *)
MatchOrderIsIrrelevant == DocsFollowGo /\ AliasesKept
=============================================================================
