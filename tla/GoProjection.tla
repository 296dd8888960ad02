---------------------------- MODULE GoProjection ----------------------------
(***************************************************************************)
(* The derived projection of the index as a function of its fact tables:   *)
(* which directory an import resolves to, which files a reference binds    *)
(* to, and which edges the resolver emits for a file (cs-resolve/go.rs,    *)
(* fed by cs-index/index_pass.rs).                                         *)
(*                                                                         *)
(* Paths, texts and package names are records, so that everything the      *)
(* resolver asks of a path (its directory, whether it is a _test.go file)  *)
(* or of a text (its package clause, imports, references, definitions) is  *)
(* a field.  A text stands for the content of a file AND for its blake3    *)
(* hash: the hash is injective on the texts of the model.                  *)
(***************************************************************************)
EXTENDS Naturals

CONSTANTS
  Path,         \* the repo-relative paths of the tree
  Text,         \* the contents a file can have
  PackageName,  \* the names of package clauses
  None          \* SQL NULL, a missing row, a missing file

PathKind == {"source", "test", "manifest", "other"}
NameKind == {"plain", "main", "test"}
Band     == {"parse", "hash_only", "too_large"}

(***************************************************************************)
(* rank is the position in the lexicographic order the BTreeMaps iterate   *)
(* in; kind "test" of a name is the "_test" suffix and of a path the       *)
(* "_test.go" suffix; a "manifest" is the root go.mod; an import is the    *)
(* module path and the directory its raw string spells; a reference goes   *)
(* through one of the file's (aliased) imports, or through none.           *)
(***************************************************************************)
ASSUME PathShape ==
  /\ Path \subseteq [rank : Nat, dir : Nat, kind : PathKind]
  /\ \A p, q \in Path : p.rank = q.rank => p = q
ASSUME NameShape ==
  /\ PackageName \subseteq [rank : Nat, kind : NameKind]
  /\ \A m, n \in PackageName : m.rank = n.rank => m = n
ASSUME TextShape ==
  \A t \in Text :
    /\ DOMAIN t = {"pkg", "imports", "refs", "defs", "module", "band", "slow"}
    /\ t.pkg \in PackageName \union {None}
    /\ t.band \in Band
    /\ t.slow \in BOOLEAN
    /\ \A i \in t.imports : DOMAIN i = {"module", "dir"}
    /\ \A r \in t.refs : /\ DOMAIN r = {"via", "name"}
                         /\ r.via \in t.imports \union {None}
ASSUME NoneShape == None \notin Path \union Text \union PackageName

----------------------------------------------------------------------------
(***************************************************************************)
(* The fact tables a DeriveEngine reads, as one record:                    *)
(*   files    [Path -> row or None], a row having fields pkg and facts     *)
(*            (the text whose symbols/refs/imports rows are stored)        *)
(*   packages the set of package keys [dir, name]                          *)
(*   manifest the stored text of the root go.mod, or None                  *)
(***************************************************************************)
HasPackage(db, p) == db.files[p] # None /\ db.files[p].pkg # None

KeyOf(db, p) == [dir |-> p.dir, name |-> db.files[p].pkg]

FilesOf(db, k) == {p \in Path : HasPackage(db, p) /\ KeyOf(db, p) = k}

(* package_dirs: the package names a directory is known to hold. *)
NamesIn(db, d) == {k.name : k \in {x \in db.packages : x.dir = d}}

(* The package an import of directory d binds: never a _test package, main *)
(* only when nothing else is there, the first name otherwise.              *)
NonTestPackage(db, d) ==
  LET eligible == {n \in NamesIn(db, d) : n.kind # "test"}
      library  == {n \in eligible : n.kind # "main"}
      best     == IF library # {} THEN library ELSE eligible
  IN  IF best = {} THEN None
      ELSE CHOOSE n \in best : \A m \in best : n.rank <= m.rank

ModulePath(db) == IF db.manifest = None THEN None ELSE db.manifest.module

(* The classification of one import: own-module paths map to a directory,  *)
(* which must hold a package; every other path is external.                *)
ResolveImport(db, i) ==
  IF ModulePath(db) = None \/ ModulePath(db) # i.module
  THEN [outcome |-> "external", dir |-> None]
  ELSE IF NamesIn(db, i.dir) = {}
       THEN [outcome |-> "not_found", dir |-> None]
       ELSE [outcome |-> "resolved", dir |-> i.dir]

(* The non-test files an import brings in: an import binds the package.    *)
ImportedFiles(db, i) ==
  LET name == NonTestPackage(db, i.dir)
  IN  IF ResolveImport(db, i).outcome # "resolved" \/ name = None THEN {}
      ELSE {q \in FilesOf(db, [dir |-> i.dir, name |-> name]) : q.kind # "test"}

(* Own-package definitions visible to p: a _test.go definition only to a   *)
(* _test.go file.                                                          *)
OwnHits(db, p, name) ==
  {q \in FilesOf(db, KeyOf(db, p)) :
     /\ name \in db.files[q].facts.defs
     /\ p.kind = "test" \/ q.kind # "test"}

(* Exported definitions in the non-test files of the imported package. *)
QualifiedHits(db, i, name) ==
  {q \in ImportedFiles(db, i) : name \in db.files[q].facts.defs}

BindTargets(db, p, r) ==
  IF r.via = None THEN OwnHits(db, p, r.name) ELSE QualifiedHits(db, r.via, r.name)

(* The rows resolve_package writes for the imports and refs of one file.   *)
ProjectFile(db, p) ==
  LET facts == db.files[p].facts
  IN  [resolved |-> [i \in facts.imports |-> ResolveImport(db, i)],
       targets  |-> UNION {{[ref |-> r, file |-> q] : q \in BindTargets(db, p, r)} :
                             r \in facts.refs}]

Edge(s, d, kind) == [src |-> s, dst |-> d, kind |-> kind]

(* import_out and ref_def edges: determined by the file's own resolution.  *)
OwnEdges(db, p) ==
  LET facts    == db.files[p].facts
      imported == (UNION {ImportedFiles(db, i) : i \in facts.imports}) \ {p}
      bound    == (UNION {BindTargets(db, p, r) : r \in facts.refs}) \ {p}
  IN  {Edge(p, q, "import_out") : q \in imported}
        \union {Edge(p, q, "ref_def") : q \in bound}

(* A test file pairs with every non-test file of its directory that is in  *)
(* some package, whatever the package's name.                              *)
AffinityTargets(db, p) ==
  IF p.kind # "test" THEN {}
  ELSE {q \in Path : q.dir = p.dir /\ q.kind # "test" /\ HasPackage(db, q)}

(* Both directions, written when the TEST file is resolved. *)
AffinityEdges(db, p) ==
  UNION {{Edge(p, q, "test_affinity"), Edge(q, p, "test_affinity")} :
           q \in AffinityTargets(db, p)}
----------------------------------------------------------------------------
(***************************************************************************)
(* The reference projection: what a resolve pass over every package in     *)
(* (dir, name) order leaves.  Resolving a package first deletes the edges  *)
(* leaving its files, so the reverse affinity edge of a source file is     *)
(* kept only when the test file's package is not resolved before its own.  *)
(***************************************************************************)
Packaged(db) == {p \in Path : HasPackage(db, p)}

FreshDerived(db) == [p \in Path |-> IF HasPackage(db, p) THEN ProjectFile(db, p) ELSE None]

FreshOwnEdges(db) == UNION {OwnEdges(db, p) : p \in Packaged(db)}

FreshAffinity(db) ==
  UNION {LET tests == {t \in Packaged(db) : q \in AffinityTargets(db, t)}
         IN  {Edge(t, q, "test_affinity") : t \in tests} \union
             {Edge(q, t, "test_affinity") :
                t \in {u \in tests : db.files[q].pkg.rank <= db.files[u].pkg.rank}} :
         q \in Packaged(db)}

FreshEdges(db) == FreshOwnEdges(db) \union FreshAffinity(db)
=============================================================================
