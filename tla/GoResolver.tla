----------------------------- MODULE GoResolver -----------------------------
(***************************************************************************)
(* Resolution of a whole Go repository: what an import means, what a       *)
(* reference binds to, which files are related (cs-resolve go.rs), as one  *)
(* pure function of the extracted files and as the pass of the index, one  *)
(* package at a time, with the definitions of that package only in memory  *)
(* (cs-index index_pass.rs and resolve_pass.rs).                           *)
(*                                                                         *)
(* GoProjection is the part of this that an update can leave stale; here   *)
(* the facts do not move and the rules are complete.  Only .go files are   *)
(* modelled: a repository is its modules and the facts of its files.       *)
(***************************************************************************)
EXTENDS GoFacts, SequencesExt

CONSTANTS
  Repo,            \* the repositories: [modules, files]
  Rank,            \* [package name -> Nat]: the order of the names
  DirRank,         \* [directory -> Nat]: the order of the directories
  TestName,        \* the package names that end in _test
  UniverseMethod,  \* UNIVERSE_METHOD_NAMES
  MajorVersion,    \* the segments v<N>
  MaxCandidates    \* MAX_CANDIDATES_PER_NAME

ASSUME MaxCandidatesShape == MaxCandidates \in Nat \ {0}
ASSUME RankShape ==
  /\ Rank \in [DOMAIN Rank -> Nat]
  /\ \A m, n \in DOMAIN Rank : Rank[m] = Rank[n] => m = n
ASSUME RepoShape ==
  \A r \in Repo :
    /\ \A m \in r.modules : DOMAIN m = {"dir", "path"}
    /\ \A l, m \in r.modules : l.dir = m.dir => l = m
    /\ IsFiniteSet(DOMAIN r.files)
    /\ \A f \in DOMAIN r.files : /\ DOMAIN f = {"dir", "base", "test"}
                                 /\ f.dir \in DOMAIN DirRank
                                 /\ r.files[f].pkg \in DOMAIN Rank \union {None}
                                 /\ DOMAIN r.files[f].imports \subseteq Nat
                                 /\ IsFiniteSet(DOMAIN r.files[f].imports)
                                 /\ IsFiniteSet(DOMAIN r.files[f].refs)
                                 /\ \A j \in DOMAIN r.files[f].refs : r.files[f].refs[j].kind \in RefKind
ASSUME DirShape ==
  /\ DOMAIN DirRank \subseteq Seq(STRING)
  /\ DirRank \in [DOMAIN DirRank -> Nat]
  /\ \A c, d \in DOMAIN DirRank : DirRank[c] = DirRank[d] => c = d
ASSUME SegmentShape ==
  \A r \in Repo :
    /\ \A m \in r.modules : m.dir \in Seq(STRING) /\ m.path \in Seq(STRING)
    /\ \A f \in DOMAIN r.files : \A i \in DOMAIN r.files[f].imports :
         r.files[f].imports[i].raw \in Seq(STRING) \ {<<>>}
ASSUME NoneIsNoPath == None \notin Seq(STRING)

VARIABLES
  repo,      \* the facts
  todo,      \* the packages the pass has not resolved
  rows,      \* per file, the resolved imports and bindings it has stored
  edges,     \* the edges table
  stats      \* the ResolutionStats of the pass

resolverVars == <<repo, todo, rows, edges, stats>>

File == DOMAIN repo.files
----------------------------------------------------------------------------
(***************************************************************************)
(* Packages.  Both indexes hold the same packages; they differ in the      *)
(* directories they know to hold one.                                      *)
(***************************************************************************)
Packaged == {f \in File : repo.files[f].pkg # None}
Key(f)   == [dir |-> f.dir, name |-> repo.files[f].pkg]
Keys     == {Key(f) : f \in Packaged}

FilesIn(k) == {f \in Packaged : Key(f) = k}

(* GoResolver::prepare: a file without a package clause is a package of    *)
(* its own, which nothing binds to, in a directory that has a package.     *)
PreparedDirs == {f.dir : f \in File}

(* build_exported_index: the rows of the packages table.                   *)
StoredDirs == {k.dir : k \in Keys}

(* The package an import of dir binds: never a test package, main when     *)
(* there is no other, the first one when there are several.                *)
NonTestPackage(dir) ==
  LET eligible == {k.name : k \in {x \in Keys : x.dir = dir}} \ TestName
      best     == IF eligible \subseteq {"main"} THEN eligible ELSE eligible \ {"main"}
  IN  IF best = {} THEN None
      ELSE [dir |-> dir, name |-> CHOOSE n \in best : \A m \in best : Rank[n] <= Rank[m]]

(* Exported definitions of the non-test files, and every definition. *)
Locations(f, ds) == {[file |-> f, def |-> d] : d \in ds}

Exported(k) ==
  UNION {Locations(f, {d \in repo.files[f].defs : d.exported}) :
           f \in {g \in FilesIn(k) : ~g.test}}

OwnDefs(k) == UNION {Locations(f, repo.files[f].defs) : f \in FilesIn(k)}
----------------------------------------------------------------------------
(***************************************************************************)
(* Imports.                                                                *)
(***************************************************************************)
Resolved(dir)      == [outcome |-> "resolved", dir |-> dir]
External           == [outcome |-> "external", dir |-> None]
Unresolved(reason) == [outcome |-> reason, dir |-> None]

RootModule == [dir |-> <<>>, path |-> <<>>]

(* The deepest module dir is in; a tree without a root go.mod has a        *)
(* synthetic root module, of no path.                                      *)
NearestModule(dir) ==
  LET around == {m \in repo.modules : IsPrefix(m.dir, dir)}
  IN  IF around = {} THEN RootModule
      ELSE CHOOSE m \in around : \A n \in around : Len(n.dir) <= Len(m.dir)

After(prefix, s) == SubSeq(s, Len(prefix) + 1, Len(s))

(* ./x and ../y, None when the path leaves the repository. *)
ResolveRelative(from, raw) ==
  LET Walk(parts, segment) ==
        IF parts = None THEN None
        ELSE IF segment = "." THEN parts
        ELSE IF segment # ".." THEN Append(parts, segment)
        ELSE IF parts = <<>> THEN None
        ELSE Front(parts)
  IN  FoldLeft(Walk, from, raw)

(* The first `internal` element of candidate is visible from the tree of   *)
(* its parent, or everywhere at the root of the module.                    *)
InternalViolation(candidate, from) ==
  LET pos == SelectInSeq(candidate, LAMBDA s : s = "internal")
  IN  pos > 1 /\ ~IsPrefix(SubSeq(candidate, 1, pos - 1), from)

(* Mutant: a module's directory is any directory below its root. *)
DirResolutionAcross(dirs, dir, from, own) ==
  IF InternalViolation(After(own.dir, dir), After(own.dir, from)) THEN Unresolved("internal")
  ELSE IF dir \in dirs THEN Resolved(dir)
  ELSE Unresolved("not_found")

(* Mutant: whatever is named is there. *)
DirResolutionBlind(dirs, dir, from, own) ==
  IF NearestModule(dir) # own THEN External
  ELSE IF InternalViolation(After(own.dir, dir), After(own.dir, from)) THEN Unresolved("internal")
  ELSE Resolved(dir)

DirResolution(dirs, dir, from, own) ==
  IF NearestModule(dir) # own THEN External
  ELSE IF InternalViolation(After(own.dir, dir), After(own.dir, from)) THEN Unresolved("internal")
  ELSE IF dir \in dirs THEN Resolved(dir)
  ELSE Unresolved("not_found")

(* vendor/ is looked at for what is neither relative nor of this module.   *)
ResolveImport(dirs, f, raw) ==
  LET own     == NearestModule(f.dir)
      dir     == ResolveRelative(f.dir, raw)
      vendor  == <<"vendor">> \o raw
  IN  IF Head(raw) \in {".", ".."}
      THEN IF dir = None THEN Unresolved("escapes_root")
                         ELSE DirResolution(dirs, dir, f.dir, own)
      ELSE IF own.path # <<>> /\ IsPrefix(own.path, raw)
      THEN DirResolution(dirs, own.dir \o After(own.path, raw), f.dir, own)
      ELSE IF vendor \in dirs THEN Resolved(vendor)
      ELSE External

(* The name code uses for an import that has no alias: the name in the     *)
(* package clause, or the last segment that is not a major version.        *)
DefaultExternalQualifier(raw) ==
  IF Last(raw) \in MajorVersion /\ Len(raw) > 1 THEN raw[Len(raw) - 1] ELSE Last(raw)

Imports(f) == repo.files[f].imports

Resolution(dirs, f, i) == ResolveImport(dirs, f, Imports(f)[i].raw)

(* The package import i of f brings into scope. *)
ImportedPackage(dirs, f, i) ==
  LET res == Resolution(dirs, f, i)
  IN  IF res.outcome = "resolved" THEN NonTestPackage(res.dir) ELSE None

QualifierName(dirs, f, i) ==
  LET imp == Imports(f)[i]
      pkg == ImportedPackage(dirs, f, i)
  IN  IF imp.alias # None THEN imp.alias
      ELSE IF Resolution(dirs, f, i).outcome # "resolved" THEN DefaultExternalQualifier(imp.raw)
      ELSE IF pkg # None THEN pkg.name
      ELSE Last(imp.raw)

(* The imports with a qualifier, under its name, and the first of a name.  *)
QualifierNames(dirs, f) ==
  [i \in {j \in DOMAIN Imports(f) : Imports(f)[j].alias \notin {".", "_"}} |->
     QualifierName(dirs, f, i)]

FirstNamed(names, q) ==
  CHOOSE i \in DOMAIN names : names[i] = q /\ \A j \in DOMAIN names : names[j] = q => i <= j

(* The qualifiers in scope, and what the first import of that name binds:  *)
(* a package, or None outside the repository.                              *)
Qualifiers(dirs, f) ==
  LET names == QualifierNames(dirs, f)
  IN  [q \in Range(names) |-> ImportedPackage(dirs, f, FirstNamed(names, q))]

DotPackages(dirs, f) ==
  {ImportedPackage(dirs, f, i) : i \in {j \in DOMAIN Imports(f) : Imports(f)[j].alias = "."}}
    \ {None}

(* Mutant: a dot import is done with once its names are in scope. *)
ImportTargetsNamed(dirs, f) ==
  UNION {{g \in FilesIn(ImportedPackage(dirs, f, i)) : ~g.test /\ g # f} :
           i \in {j \in DOMAIN Imports(f) : /\ Imports(f)[j].alias # "."
                                            /\ ImportedPackage(dirs, f, j) # None}}

(* An import binds the package: its non-test files. *)
ImportTargets(dirs, f) ==
  UNION {{g \in FilesIn(ImportedPackage(dirs, f, i)) : ~g.test /\ g # f} :
           i \in {j \in DOMAIN Imports(f) : ImportedPackage(dirs, f, j) # None}}
----------------------------------------------------------------------------
(***************************************************************************)
(* References.                                                             *)
(***************************************************************************)
Bound(hits)     == [targets |-> hits, reason |-> None, skipped |-> FALSE]
Unbound(reason) == [targets |-> {}, reason |-> reason, skipped |-> FALSE]

(* Mutant: a name past the cap binds nothing and says nothing. *)
CappedSilently(hits) ==
  IF hits = {} THEN Unbound("no_candidate")
  ELSE IF Cardinality(hits) > MaxCandidates
  THEN [targets |-> {}, reason |-> None, skipped |-> TRUE]
  ELSE Bound(hits)

(* More candidates than the cap make the name uninformative. *)
Capped(hits) ==
  IF hits = {} THEN Unbound("no_candidate")
  ELSE IF Cardinality(hits) > MaxCandidates
  THEN [targets |-> {}, reason |-> "no_candidate", skipped |-> TRUE]
  ELSE Bound(hits)

(* Mutant: every file of the package sees its tests' definitions. *)
VisibleEverywhere(f, hits) == hits

(* Test files are compiled into test binaries only. *)
VisibleFrom(f, hits) == {h \in hits : f.test \/ ~h.file.test}

OwnHits(f, name, kinds) ==
  IF f \notin Packaged THEN {}
  ELSE {h \in OwnDefs(Key(f)) : h.def.name = name /\ h.def.kind \in kinds}

QualifiedHits(k, name, kinds) ==
  {h \in Exported(k) : h.def.name = name /\ h.def.kind \in kinds}

DotHits(dirs, f, name, kinds) ==
  UNION {QualifiedHits(k, name, kinds) : k \in DotPackages(dirs, f)}

(* An unqualified name: the package's or a dot import's, not both. *)
BindUnqualified(dirs, f, r, kinds) ==
  LET own == VisibleFrom(f, OwnHits(f, r.name, kinds))
      dot == DotHits(dirs, f, r.name, kinds)
  IN  IF own # {} /\ dot # {} THEN Unbound("ambiguous_dot_import")
      ELSE Capped(own \union dot)

(* A call through an operand that is no import: the package's only method  *)
(* of that name, unless half the standard library has one too.             *)
BindMethod(f, r) ==
  LET methods == VisibleFrom(f, OwnHits(f, r.name, {"method"}))
  IN  IF r.name \in UniverseMethod THEN Unbound("universe_method")
      ELSE IF methods = {} THEN Unbound("no_candidate")
      ELSE IF Cardinality(methods) > 1 THEN Unbound("method_ambiguous")
      ELSE Bound(methods)

(* What a selector on a package can name, by the kind of the reference. *)
SelectableKind(refKind) ==
  CASE refKind = "type_ref"  -> TypeKind
    [] refKind = "call_ref"  -> {"function", "var"}
    [] refKind = "field_ref" -> TypeKind \union {"var", "const"}

BindRef(dirs, f, scope, r) ==
  CASE r.kind = "name_ref" -> BindUnqualified(dirs, f, r, DefKind)
    [] r.kind # "name_ref" /\ r.qualifier \in DOMAIN scope ->
         IF scope[r.qualifier] = None THEN Unbound("external_scope")
         ELSE Capped(QualifiedHits(scope[r.qualifier], r.name, SelectableKind(r.kind)))
    [] r.kind = "type_ref" /\ r.qualifier \notin DOMAIN scope ->
         IF r.qualifier # None THEN Unbound("no_scope")
         ELSE BindUnqualified(dirs, f, r, TypeKind)
    [] r.kind = "call_ref" /\ r.qualifier \notin DOMAIN scope ->
         IF r.qualifier = None THEN Unbound("no_scope") ELSE BindMethod(f, r)
    [] r.kind = "field_ref" /\ r.qualifier \notin DOMAIN scope -> Unbound("needs_type_info")
----------------------------------------------------------------------------
(***************************************************************************)
(* One file: its rows, its edges and what it adds to the statistics.       *)
(***************************************************************************)
Refs(f) == repo.files[f].refs

ResolveFile(dirs, f) ==
  LET scope == Qualifiers(dirs, f)
  IN  [imports |-> [i \in DOMAIN Imports(f) |-> Resolution(dirs, f, i)],
       refs    |-> [j \in DOMAIN Refs(f) |-> BindRef(dirs, f, scope, Refs(f)[j])]]

(* refs counts the bound targets behind a ref_def edge: its weight grows   *)
(* with them; the other kinds have one weight.                             *)
Edge(src, dst, kind, refs) == [src |-> src, dst |-> dst, kind |-> kind, refs |-> refs]

RefEdges(row, f) ==
  LET hits == UNION {{<<j, h>> : h \in row.refs[j].targets} : j \in DOMAIN row.refs}
  IN  {Edge(f, g, "ref_def", Cardinality({x \in hits : x[2].file = g})) :
         g \in {x[2].file : x \in hits} \ {f}}

OwnEdges(dirs, f) ==
  {Edge(f, g, "import_out", 0) : g \in ImportTargets(dirs, f)}
    \union RefEdges(ResolveFile(dirs, f), f)

(* A test file pairs, both ways, with the non-test files of its directory. *)
AffinityEdges(f) ==
  IF ~f.test THEN {}
  ELSE UNION {{Edge(f, g, "test_affinity", 0), Edge(g, f, "test_affinity", 0)} :
                g \in {x \in Packaged : x.dir = f.dir /\ ~x.test}}

Outcome       == {"resolved", "external", "escapes_root", "internal", "not_found"}
UnboundReason == {"no_candidate", "external_scope", "no_scope", "method_ambiguous",
                  "ambiguous_dot_import", "needs_type_info", "universe_method"}

ASSUME NoneIsNoReason == None \notin UnboundReason

NoStats ==
  [imports |-> [o \in Outcome |-> 0], bound |-> 0, unbound |-> 0, skipped |-> 0, scoped |-> 0,
   reasons |-> [u \in UnboundReason |-> 0]]

(* The statistics after one more file, of what was stored for it. *)
Tallied(dirs, table, f, s) ==
  LET row  == table[f]
      used == DOMAIN Qualifiers(dirs, f)
      I    == DOMAIN row.imports
      J    == DOMAIN row.refs
      free == Quantify(J, LAMBDA j : row.refs[j].targets = {})
  IN  [imports |-> [o \in Outcome |->
                      s.imports[o] + Quantify(I, LAMBDA i : row.imports[i].outcome = o)],
       bound   |-> s.bound + Cardinality(J) - free,
       unbound |-> s.unbound + free,
       skipped |-> s.skipped + Quantify(J, LAMBDA j : row.refs[j].skipped),
       scoped  |-> s.scoped + Quantify(J, LAMBDA j : Refs(f)[j].qualifier \in used),
       reasons |-> [u \in UnboundReason |->
                      s.reasons[u] + Quantify(J, LAMBDA j : row.refs[j].reason = u)]]

TalliedAll(dirs, table, fs, s) ==
  FoldSet(LAMBDA f, acc : Tallied(dirs, table, f, acc), s, fs)
----------------------------------------------------------------------------
(***************************************************************************)
(* The resolver over a snapshot in memory (prepare and resolve).           *)
(***************************************************************************)
SnapshotRows  == [f \in File |-> ResolveFile(PreparedDirs, f)]

SnapshotEdges(fs) == UNION {OwnEdges(PreparedDirs, f) \union AffinityEdges(f) : f \in fs}
----------------------------------------------------------------------------
(***************************************************************************)
(* The pass of the index: packages in (dir, name) order, each rewritten in *)
(* one transaction.                                                        *)
(***************************************************************************)
Before(j, k) ==
  \/ DirRank[j.dir] < DirRank[k.dir]
  \/ j.dir = k.dir /\ Rank[j.name] < Rank[k.name]

First(keys) == CHOOSE k \in keys : \A j \in keys : j = k \/ Before(k, j)

ResolverInit ==
  /\ repo \in Repo
  /\ todo = Keys
  /\ rows = [f \in File |-> None]
  /\ edges = {}
  /\ stats = NoStats

(* Mutant: the package's edges are added to what is there. *)
EdgesOnTop(k, mine) == edges \union mine

(* The edges leaving the package's files are cleared first. *)
EdgesRewritten(k, mine) == {e \in edges : e.src \notin FilesIn(k)} \union mine

ResolvePackage ==
  /\ todo # {}
  /\ LET k == First(todo)
     IN  /\ todo' = todo \ {k}
         /\ rows' = [f \in File |-> IF f \in FilesIn(k) THEN ResolveFile(StoredDirs, f)
                                                        ELSE rows[f]]
         /\ edges' = EdgesRewritten(k, UNION {OwnEdges(StoredDirs, f) \union AffinityEdges(f) :
                                                f \in FilesIn(k)})
         /\ stats' = TalliedAll(StoredDirs, rows', FilesIn(k), stats)
  /\ UNCHANGED repo

Done == todo = {}

ResolverSpec == ResolverInit /\ [][ResolvePackage]_resolverVars
----------------------------------------------------------------------------
ImportRow  == [outcome : Outcome, dir : DOMAIN DirRank \union {None}]

ResolverTypeOK ==
  /\ todo \subseteq Keys
  /\ DOMAIN rows = File
  /\ \A f \in File : rows[f] # None =>
       /\ \A i \in DOMAIN rows[f].imports : rows[f].imports[i] \in ImportRow
       /\ \A j \in DOMAIN rows[f].refs : rows[f].refs[j].reason \in UnboundReason \union {None}
  /\ \A e \in edges : {e.src, e.dst} \subseteq File

Stored == {f \in File : rows[f] # None}

Targets(f) == UNION {rows[f].refs[j].targets : j \in DOMAIN rows[f].refs}

(* Whatever a repository looks like, a binding names a definition the Go   *)
(* compiler would let the file see: of its own package, in a test file     *)
(* only for a test file; or an exported one of an imported package, never  *)
(* of its tests (bind_one_ref, build_exported_index).                      *)
BindingsAreVisible ==
  \A f \in Stored : \A t \in Targets(f) :
    \/ Key(t.file) = Key(f) /\ (f.test \/ ~t.file.test)
    \/ /\ t.def.exported /\ ~t.file.test
       /\ \E i \in DOMAIN rows[f].imports :
            /\ rows[f].imports[i] = Resolved(t.file.dir)
            /\ repo.files[t.file].pkg \notin TestName

BoundOrExplained ==
  \A f \in Stored : \A j \in DOMAIN rows[f].refs :
    (rows[f].refs[j].targets = {}) <=> (rows[f].refs[j].reason # None)

(* A reference has targets or a reason for having none, never both, and    *)
(* the statistics are those of the rows: nothing is dropped on the way     *)
(* from the resolver to the tables ("the honesty contract", lib.rs).       *)
NothingIsDropped ==
  /\ BoundOrExplained
  /\ Done => stats = TalliedAll(StoredDirs, rows, Packaged, NoStats)

(* Reading through an import into another package leaves the import_out    *)
(* edge as well: no ref_def edge crosses packages without one.             *)
RefsFollowImports ==
  \A e \in edges : e.kind = "ref_def" /\ Key(e.src) # Key(e.dst) =>
    \E g \in edges : g.kind = "import_out" /\ g.src = e.src /\ g.dst = e.dst

(* No import leaves the importer's module except into vendor/, and none    *)
(* reaches what is below an `internal` directory (the first one of its     *)
(* path) from outside the tree of that directory's parent.                 *)
ModuleBoundaries ==
  \A f \in Stored : \A i \in DOMAIN rows[f].imports :
    LET dir      == rows[f].imports[i].dir
        own      == NearestModule(f.dir)
        internal == {n \in Len(own.dir) + 1..Len(dir) : dir[n] = "internal"}
    IN  rows[f].imports[i].outcome = "resolved" =>
          \/ IsPrefix(<<"vendor">>, dir)
          \/ /\ NearestModule(dir) = own
             /\ internal # {} => IsPrefix(SubSeq(dir, 1, Min(internal) - 1), f.dir)

(* Imports a directory none of whose files has a package clause. *)
NamesNoPackage(f) ==
  \E i \in DOMAIN Imports(f) :
    Resolution(PreparedDirs, f, i).dir \in PreparedDirs \ StoredDirs

(* The edge from a source file back to its test is written with the test's *)
(* package and cleared with its own, if that comes later.                  *)
LostWithOwnPackage(e) ==
  e.kind = "test_affinity" /\ e.dst.test /\ ~e.src.test /\ Before(Key(e.dst), Key(e.src))

(* The pass that holds one package in memory stores what the resolver says *)
(* of the whole snapshot: of every file with a package clause (it resolves *)
(* no other), the row and the edges of its references, unless the file     *)
(* imports a directory where every file lacks the clause, and all other    *)
(* edges, but for the way back of a test pair whose source package comes   *)
(* later ("edge count in SQLite must match in-memory resolver",            *)
(* resolve_pass.rs).                                                       *)
Comparable(E) == {e \in E : e.kind = "ref_def" => ~NamesNoPackage(e.src)}

StreamedAgrees ==
  Done =>
    /\ \A f \in Packaged : ~NamesNoPackage(f) => rows[f] = SnapshotRows[f]
    /\ Comparable(edges) = Comparable({e \in SnapshotEdges(Packaged) : ~LostWithOwnPackage(e)})
=============================================================================
