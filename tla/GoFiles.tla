------------------------------ MODULE GoFiles ------------------------------
(***************************************************************************)
(* The Go files extraction is checked on, as trees (Node of GoExtract).    *)
(***************************************************************************)
EXTENDS GoExtract

LOCAL Row(kind, parent, row)      == Node(kind, parent, "", "", row)
LOCAL Id(parent, text, row)       == Node("identifier", parent, "", text, row)
LOCAL Named(parent, text, row)    == Node("identifier", parent, "name", text, row)
LOCAL Sel(parent, text, row)      == Node("field_identifier", parent, "field", text, row)
LOCAL Typ(parent, field, text, row) == Node("type_identifier", parent, field, text, row)
LOCAL As(kind, parent, field, row) == Node(kind, parent, field, "", row)
LOCAL Note(parent, text, row)     == Node("comment", parent, "", text, row)
LOCAL PackageP == <<Row("source_file", 0, 1), Row("package_clause", 1, 1),
                Node("package_identifier", 2, "name", "p", 1)>>

(* // old                       a floating comment                         *)
(* // modes                                                                *)
(* const (                                                                 *)
(*     // fast                                                             *)
(*     //go:x                                                              *)
(*     Fast = 1                                                            *)
(*     Slow, _ = 2, 3                                                      *)
(* )                                                                       *)
(* // both                                                                 *)
(* const ( Both = 4 )                                                      *)
DocGroups == PackageP \o <<
  Note(1, "old", 2), Note(1, "modes", 4), Row("const_declaration", 1, 5),
    Note(6, "fast", 6), Note(6, "go:x", 7),
    Row("const_spec", 6, 8), Id(9, "Fast", 8),
    Row("const_spec", 6, 9), Id(11, "Slow", 9), Id(11, "_", 9),
  Note(1, "both", 11), Row("const_declaration", 1, 12),
    Row("const_spec", 15, 12), Id(16, "Both", 12)>>

(* // first                                                                *)
(* //                                                                      *)
(* // second                                                               *)
(* type S struct{}                                                         *)
(* func (s *S) Go() { s.Run(x) }                                           *)
(* var A, B = f()                                                          *)
(* type T = io.Closer                                                      *)
(* var (                                                                   *)
(*     // c                                                                *)
(*     C = x                                                               *)
(* )                                                                       *)
Members == PackageP \o <<
  Note(1, "first", 2), Note(1, "", 3), Note(1, "second", 4),
  Row("type_declaration", 1, 5), Row("type_spec", 7, 5),
    Typ(8, "name", "S", 5), As("struct_type", 8, "type", 5),
  Row("method_declaration", 1, 7), As("parameter_list", 11, "receiver", 7),
    Row("parameter_declaration", 12, 7), Id(13, "s", 7),
    As("pointer_type", 13, "type", 7), Typ(15, "", "S", 7),
    Node("field_identifier", 11, "name", "Go", 7), Row("block", 11, 7),
    Row("call_expression", 18, 8), As("selector_expression", 19, "function", 8),
    Node("identifier", 20, "operand", "s", 8), Sel(20, "Run", 8),
    Id(19, "x", 8),
  Row("var_declaration", 1, 10), Row("var_spec", 24, 10), Id(25, "A", 10),
    Id(25, "B", 10), As("expression_list", 25, "value", 10),
    Row("call_expression", 28, 10), Node("identifier", 29, "function", "f", 10),
  Row("type_declaration", 1, 12), Row("type_alias", 31, 12),
    Typ(32, "name", "T", 12), As("qualified_type", 32, "type", 12),
    Node("package_identifier", 34, "package", "io", 12), Typ(34, "name", "Closer", 12),
  Row("var_declaration", 1, 14), Row("var_spec_list", 37, 14), Note(38, "c", 15),
    Row("var_spec", 38, 16), Id(40, "C", 16),
    As("expression_list", 40, "value", 16), Id(42, "x", 16)>>

(* func F(p T) { x := p.Name; for k := range x; switch y := x.(type) {} }  *)
Locals == PackageP \o <<
  Row("function_declaration", 1, 2), Named(4, "F", 2), As("parameter_list", 4, "parameters", 2),
    Row("parameter_declaration", 6, 2), Id(7, "p", 2), Typ(7, "type", "T", 2),
  Row("block", 4, 2), Row("short_var_declaration", 10, 3), As("expression_list", 11, "left", 3),
    Id(12, "x", 3), As("expression_list", 11, "right", 3),
    Row("selector_expression", 14, 3), Node("identifier", 15, "operand", "p", 3),
    Sel(15, "Name", 3),
  Node("range_clause", 10, "", ":=", 4), As("expression_list", 18, "left", 4),
    Id(19, "k", 4), Node("identifier", 18, "right", "x", 4),
  Row("type_switch_statement", 10, 5), As("expression_list", 22, "alias", 5),
    Id(23, "y", 5), Node("identifier", 22, "value", "x", 5),
  Row("short_var_declaration", 10, 6), As("expression_list", 26, "left", 6),
    Id(27, "z", 6), As("expression_list", 26, "right", 6), Id(29, "y", 6)>>

LOCAL Keyed(n, parent, key, value, row) == <<
  Row("keyed_element", parent, row), As("literal_element", n, "key", row),
    Id(n + 1, key, row), As("literal_element", n, "value", row), Id(n + 3, value, row)>>

(* var V = R{H: h}          a field key                                    *)
(* var Y = []*R{{H: h}}     a field key, through an untyped literal        *)
FieldKeys == PackageP \o <<
  Row("var_declaration", 1, 2), Row("var_spec", 4, 2), Id(5, "V", 2),
    As("expression_list", 5, "value", 2), Row("composite_literal", 7, 2),
    Typ(8, "type", "R", 2), As("literal_value", 8, "body", 2)>> \o
    Keyed(11, 10, "H", "h", 2) \o <<
  Row("var_declaration", 1, 3), Row("var_spec", 16, 3), Id(17, "Y", 3),
    As("expression_list", 17, "value", 3), Row("composite_literal", 19, 3),
    As("slice_type", 20, "type", 3), Row("pointer_type", 21, 3), Typ(22, "", "R", 3),
    As("literal_value", 20, "body", 3), Row("literal_element", 24, 3),
    Row("literal_value", 25, 3)>> \o
    Keyed(27, 26, "H", "h", 3)

(* var W = map[string]R{k: len}     the key is used                        *)
(* var Z = [2]R{{H: a}}             a field key, which the walk keeps      *)
OtherKeys == PackageP \o <<
  Row("var_declaration", 1, 2), Row("var_spec", 4, 2), Id(5, "W", 2),
    As("expression_list", 5, "value", 2), Row("composite_literal", 7, 2),
    As("map_type", 8, "type", 2), Typ(9, "key", "string", 2),
    Typ(9, "value", "R", 2), As("literal_value", 8, "body", 2),
    Row("keyed_element", 12, 2), As("literal_element", 13, "key", 2), Id(14, "k", 2),
    As("literal_element", 13, "value", 2), Id(16, "len", 2),
  Row("var_declaration", 1, 3), Row("var_spec", 18, 3), Id(19, "Z", 3),
    As("expression_list", 19, "value", 3), Row("composite_literal", 21, 3),
    As("array_type", 22, "type", 3), As("int_literal", 23, "length", 3),
    Typ(23, "element", "R", 3), As("literal_value", 22, "body", 3),
    Row("literal_element", 26, 3), Row("literal_value", 27, 3)>> \o
    Keyed(29, 28, "H", "a", 3)

(* var M = H{k: v}     a key of a map type under a name, which is dropped  *)
(* var N = map[string]R{"a": {F: h}}   a field key, which the walk keeps   *)
(* var O = []R{I: v}   an index, which is dropped                          *)
LiteralKeys == PackageP \o <<
  Row("var_declaration", 1, 2), Row("var_spec", 4, 2), Id(5, "M", 2),
    As("expression_list", 5, "value", 2), Row("composite_literal", 7, 2),
    Typ(8, "type", "H", 2), As("literal_value", 8, "body", 2)>> \o
    Keyed(11, 10, "k", "v", 2) \o <<
  Row("var_declaration", 1, 3), Row("var_spec", 16, 3), Id(17, "N", 3),
    As("expression_list", 17, "value", 3), Row("composite_literal", 19, 3),
    As("map_type", 20, "type", 3), Typ(21, "key", "string", 3), Typ(21, "value", "R", 3),
    As("literal_value", 20, "body", 3), Row("keyed_element", 24, 3),
    As("literal_element", 25, "key", 3), Row("interpreted_string_literal", 26, 3),
    As("literal_element", 25, "value", 3), Row("literal_value", 28, 3)>> \o
    Keyed(30, 29, "F", "h", 3) \o <<
  Row("var_declaration", 1, 4), Row("var_spec", 35, 4), Id(36, "O", 4),
    As("expression_list", 36, "value", 4), Row("composite_literal", 38, 4),
    As("slice_type", 39, "type", 4), Typ(40, "element", "R", 4),
    As("literal_value", 39, "body", 4)>> \o
    Keyed(43, 42, "I", "v", 4)

(* func L(ch T) { select { case v := <-ch: v }; for i = range ch {} }      *)
(* the variable a receive declares is kept                                 *)
Receives == PackageP \o <<
  Row("function_declaration", 1, 2), Named(4, "L", 2), As("parameter_list", 4, "parameters", 2),
    Row("parameter_declaration", 6, 2), Id(7, "ch", 2), Typ(7, "type", "T", 2),
  Row("block", 4, 2), Row("select_statement", 10, 3), Row("communication_case", 11, 3),
    As("receive_statement", 12, "communication", 3), As("expression_list", 13, "left", 3),
    Id(14, "v", 3), As("unary_expression", 13, "right", 3),
    Node("identifier", 16, "operand", "ch", 3),
    Row("expression_statement", 12, 3), Id(18, "v", 3),
  Node("range_clause", 10, "", "=", 4), As("expression_list", 20, "left", 4),
    Id(21, "i", 4), Node("identifier", 20, "right", "ch", 4)>>

(* var C = lib.Make[int]()                                                 *)
(* var D = hs[cfg.Mode](x)     the selector indexes the callee             *)
(* func G() { w.Header().Add(x) }                                          *)
Calls == PackageP \o <<
  Row("var_declaration", 1, 2), Row("var_spec", 4, 2), Id(5, "C", 2),
    As("expression_list", 5, "value", 2), Row("call_expression", 7, 2),
    As("index_expression", 8, "function", 2), As("selector_expression", 9, "operand", 2),
    Node("identifier", 10, "operand", "lib", 2), Sel(10, "Make", 2),
    Node("identifier", 9, "", "int", 2),
  Row("var_declaration", 1, 3), Row("var_spec", 14, 3), Id(15, "D", 3),
    As("expression_list", 15, "value", 3), Row("call_expression", 17, 3),
    As("index_expression", 18, "function", 3), Node("identifier", 19, "operand", "hs", 3),
    As("selector_expression", 19, "index", 3),
    Node("identifier", 21, "operand", "cfg", 3), Sel(21, "Mode", 3),
  Row("function_declaration", 1, 4), Named(24, "G", 4), Row("block", 24, 4),
    Row("call_expression", 26, 4), As("selector_expression", 27, "function", 4),
    As("call_expression", 28, "operand", 4), As("selector_expression", 29, "function", 4),
    Node("identifier", 30, "operand", "w", 4), Sel(30, "Header", 4),
    Sel(28, "Add", 4), Id(27, "x", 4)>>

(* import "fmt"; import f "fmt"; import . "math"                           *)
(* func Good() { u }                                                       *)
(* func Bad() { ?e? z }        the error is inside the declaration         *)
(* ?func Lost() { q }?         the declaration is inside the error         *)
(* var V = u                                                               *)
(* ?stray?                                                                 *)
Broken == PackageP \o <<
  Row("import_declaration", 1, 2), Row("import_spec", 4, 2),
    Node("interpreted_string_literal", 5, "path", "fmt", 2),
  Row("import_declaration", 1, 3), Row("import_spec", 7, 3),
    Node("package_identifier", 8, "name", "f", 3),
    Node("interpreted_string_literal", 8, "path", "fmt", 3),
  Row("import_declaration", 1, 4), Row("import_spec", 11, 4), Node("dot", 12, "name", ".", 4),
    Node("raw_string_literal", 12, "path", "math", 4),
  Row("function_declaration", 1, 5), Named(15, "Good", 5), Row("block", 15, 5), Id(17, "u", 5),
  Row("function_declaration", 1, 6), Named(19, "Bad", 6), Row("block", 19, 6),
    Row("ERROR", 21, 6), Id(22, "e", 6), Id(21, "z", 6),
  Row("ERROR", 1, 7), Row("function_declaration", 25, 7), Named(26, "Lost", 7),
    Row("block", 26, 7), Id(28, "q", 7),
  Row("var_declaration", 1, 8), Row("var_spec", 30, 8), Id(31, "V", 8),
    As("expression_list", 31, "value", 8), Id(33, "u", 8),
  Row("ERROR", 1, 9), Id(35, "stray", 9),
  Row("expression_statement", 1, 10), Id(37, "loose", 10)>>

(* const (                                                                 *)
(*     X = 1 // ten                                                        *)
(*     Y = 2                                                               *)
(* )                                                                       *)
Trailing == PackageP \o <<
  Row("const_declaration", 1, 2), Row("const_spec", 4, 3), Id(5, "X", 3),
    Note(4, "ten", 3), Row("const_spec", 4, 4), Id(8, "Y", 4)>>

MCSource       == {DocGroups, Members, Locals, FieldKeys, OtherKeys, LiteralKeys, Receives,
                   Calls, Broken, Trailing}
TrailingSource == {Trailing}
MCUniverse     == {"string", "len", "int"}
MCDirective    == {"go:x"}
MCCapital      == {"Fast", "Slow", "Both", "S", "Go", "A", "B", "T", "C", "F", "V", "Y", "W",
                   "Z", "D", "G", "Good", "Bad", "Lost", "X", "L", "M", "N", "O"}
DefNames == <<"A", "B", "Bad", "Both", "C", "D", "F", "Fast", "G", "Go", "Good", "L", "Lost", "M",
              "N", "O", "S", "Slow", "T", "V", "W", "X", "Y", "Z">>
MCNameRank     == [n \in MCCapital |-> CHOOSE i \in 1..Len(DefNames) : DefNames[i] = n]
=============================================================================
