------------------------------ MODULE GoRepos ------------------------------
(***************************************************************************)
(* Repositories for model checking GoResolver: a root package, a package   *)
(* with a second file and a test, a sibling, an internal directory, a      *)
(* nested module and a vendored package.  One file of the repository (the  *)
(* importer) has up to two imports and one reference of every sort.        *)
(***************************************************************************)
EXTENDS GoFacts, SequencesExt

At(dir, base, test) == [dir |-> dir, base |-> base, test |-> test]

RootFile  == At(<<>>, "main", FALSE)
AFile     == At(<<"a">>, "one", FALSE)
AFile2    == At(<<"a">>, "two", FALSE)
ATest     == At(<<"a">>, "two", TRUE)
BFile     == At(<<"b">>, "b", FALSE)
CFile     == At(<<"a", "internal", "c">>, "c", FALSE)
SubFile   == At(<<"sub">>, "s", FALSE)
VendorFile == At(<<"vendor", "x">>, "x", FALSE)
VersionFile == At(<<"v2">>, "v", FALSE)

RepoDirRank ==
  LET order == <<<<>>, <<"a">>, <<"a", "internal", "c">>, <<"b">>, <<"sub">>, <<"v2">>,
               <<"vendor", "x">>>>
  IN  [d \in ToSet(order) |-> CHOOSE i \in DOMAIN order : order[i] = d]

RepoRank ==
  LET order == <<"a", "a_test", "b", "c", "main", "s", "x">>
  IN  [n \in ToSet(order) |-> CHOOSE i \in DOMAIN order : order[i] = n]

Func(name)   == Def(name, "function", name, TRUE)
Type(name)   == Def(name, "struct", name, TRUE)
Method(t, n) == Def(n, "method", t \o "." \o n, TRUE)
Var(name)    == Def(name, "var", name, FALSE)

DefsOf ==
  RootFile   :> {Func("F")}
  @@ AFile   :> {Func("F"), Type("T"), Method("T", "F"), Method("T", "Do"), Method("T", "Close"),
                 Var("v")}
  @@ AFile2  :> {Func("F"), Method("U", "Get")}
  @@ ATest   :> {Func("Helper"), Func("F"), Method("W", "Get")}
  @@ BFile   :> {Func("F"), Type("T"), Method("T", "Do"), Method("U", "Do")}
  @@ CFile   :> {Def("K", "const", "K", TRUE)}
  @@ SubFile :> {Func("F")}
  @@ VendorFile :> {Func("F"), Type("T")}

AllRefs ==
  <<Ref("F", "name_ref", None), Ref("F", "name_ref", None), Ref("v", "name_ref", None),
    Ref("Helper", "name_ref", None), Ref("T", "type_ref", None), Ref("T", "type_ref", "a"),
    Ref("T", "type_ref", "b"), Ref("T", "type_ref", "w"), Ref("F", "call_ref", "a"),
    Ref("v", "call_ref", "a"), Ref("F", "call_ref", "b"), Ref("F", "call_ref", "x"),
    Ref("F", "call_ref", "y"), Ref("Do", "call_ref", "w"), Ref("Get", "call_ref", "w"),
    Ref("Close", "call_ref", "w"), Ref("Do", "call_ref", None), Ref("K", "field_ref", "c"),
    Ref("T", "field_ref", "w")>>

PlainImport ==
  {Import(raw, None) :
     raw \in {<<"m", "a">>, <<"m", "b">>, <<"m", "a", "internal", "c">>, <<"m", "sub">>, <<"m">>,
              <<"x">>, <<"y", "v2">>, <<".", "a">>, <<"..", "b">>, <<"..", "..">>, <<"m", "gone">>,
              <<"s">>}}
AliasedImport ==
  {Import(<<"m", "a">>, "."), Import(<<"m", "b">>, "."), Import(<<"m", "b">>, "_"),
   Import(<<"m", "a">>, "b"), Import(<<"x">>, "a")}

ImportLists ==
  {<<i>> : i \in PlainImport \union AliasedImport}
    \union {<<Import(<<"m", "a">>, None), i>> : i \in AliasedImport}
    \union {<<i, Import(<<"m", "b">>, None)>> : i \in AliasedImport}

(* The package clauses, and how they vary. *)
Clauses ==
  RootFile   :> "main"
  @@ AFile   :> "a"
  @@ AFile2  :> "a"
  @@ ATest   :> "a"
  @@ BFile   :> "b"
  @@ CFile   :> "c"
  @@ SubFile :> "s"
  @@ VendorFile :> "x"

ClauseVariants ==
  {Clauses,
   [Clauses EXCEPT ![ATest] = "a_test", ![BFile] = None],
   [Clauses EXCEPT ![AFile2] = "main", ![BFile] = "main"],
   [Clauses EXCEPT ![AFile] = "main", ![AFile2] = "main", ![ATest] = "a"]}

ModuleVariants ==
  LET root == [dir |-> <<>>, path |-> <<"m">>]
      sub  == [dir |-> <<"sub">>, path |-> <<"s">>]
  IN  {{root}, {root, sub}, {sub}}

Importers == {RootFile, AFile, ATest, BFile, SubFile}

(* The name an import of m/v2 gets depends on what is known of v2, which   *)
(* has a file and no package clause: v2 in memory, m in the pass.          *)
VersionRepo ==
  LET refs == <<Ref("Do", "call_ref", "m"), Ref("Do", "call_ref", "v2")>>
  IN  [modules |-> {[dir |-> <<>>, path |-> <<"m">>]},
       files |->
         AFile :> ExtractedFile("ok", "a", DefsOf[AFile], <<>>, <<>>)
         @@ AFile2 :> ExtractedFile("ok", "a", DefsOf[AFile2], <<Import(<<"m", "v2">>, None)>>,
                                    SubSeq(refs, 1, 1))
         @@ ATest :> ExtractedFile("ok", "a", DefsOf[ATest], <<Import(<<"m", "v2">>, None)>>,
                                   SubSeq(refs, 2, 2))
         @@ VersionFile :> ExtractedFile("partial", None, {}, <<>>, <<>>)]

EmptyRepo == [modules |-> {}, files |-> <<>>]

MCRepo ==
  {EmptyRepo, VersionRepo} \union
  {[modules |-> modules,
    files |-> [f \in DOMAIN clauses |->
      ExtractedFile("ok", clauses[f], DefsOf[f], IF f = importer THEN imports ELSE <<>>,
                    IF f = importer THEN AllRefs ELSE <<>>)]] :
     modules \in ModuleVariants, clauses \in ClauseVariants, importer \in Importers,
     imports \in ImportLists}
=============================================================================
