------------------------- MODULE GoResolver_proofs -------------------------
(***************************************************************************)
(* What a binding may name, in every repository; that the pass of the      *)
(* index leaves what the resolver says of the whole snapshot; and where an *)
(* import may lead.                                                        *)
(***************************************************************************)
EXTENDS GoResolver, FiniteSetTheorems, SequenceTheorems, WellFoundedInduction, TLAPS

LEMMA LeastNatural ==
  ASSUME NEW S \in SUBSET Nat, S # {}
  PROVE  \E n \in S : \A m \in S : n <= m
<1>1. PICK n \in S : \A m \in S : ~(<<m, n>> \in OpToRel(<, Nat))
  BY WFMin, NatLessThanWellFounded, Zenon
<1>2. \A m \in S : ~(m < n)
  BY <1>1 DEF OpToRel
<1> QED
  BY <1>2

(* A nonempty set of numbers an expression maps to has a least one. *)
LEMMA LeastPackage ==
  ASSUME NEW best \in SUBSET DOMAIN Rank, best # {}
  PROVE  \E n \in best : \A m \in best : Rank[n] <= Rank[m]
<1> DEFINE ranks == {Rank[n] : n \in best}
<1>1. ranks \in SUBSET Nat /\ ranks # {}
  <2>1. \A n \in best : Rank[n] \in Nat
    BY RankShape
  <2> QED
    BY <2>1
<1>2. PICK r \in ranks : \A q \in ranks : r <= q
  <2> HIDE DEF ranks
  <2> QED
    BY <1>1, LeastNatural
<1>3. PICK n \in best : r = Rank[n]
  OBVIOUS
<1>4. \A m \in best : Rank[n] <= Rank[m]
  BY <1>2, <1>3
<1> QED
  BY <1>4

(* The package an import of a directory binds is in it and is no test.     *)
LEMMA NonTestPackageIs ==
  ASSUME repo \in Repo, NEW dir, NEW k, k = NonTestPackage(dir), k # None
  PROVE  k.dir = dir /\ k.name \notin TestName
<1> DEFINE eligible == {x.name : x \in {y \in Keys : y.dir = dir}} \ TestName
           best     == IF eligible \subseteq {"main"} THEN eligible ELSE eligible \ {"main"}
<1>1. best # {} /\ k = [dir |-> dir, name |-> CHOOSE n \in best : \A m \in best : Rank[n] <= Rank[m]]
  BY DEF NonTestPackage
<1>2. best \subseteq eligible
  OBVIOUS
<1>3. eligible \subseteq DOMAIN Rank
  BY RepoShape DEF Keys, Key, Packaged, File
<1> HIDE DEF best
<1>4. \E n \in best : \A m \in best : Rank[n] <= Rank[m]
  BY <1>1, <1>2, <1>3, LeastPackage
<1>5. k.dir = dir /\ k.name \in best
  BY <1>1, <1>4
<1> QED
  BY <1>2, <1>5

(* The first import of a name is one of the imports of that name.          *)
LEMMA ScopeIsImported ==
  ASSUME repo \in Repo, NEW dirs, NEW f \in File, NEW q \in DOMAIN Qualifiers(dirs, f)
  PROVE  \E i \in DOMAIN Imports(f) : Qualifiers(dirs, f)[q] = ImportedPackage(dirs, f, i)
<1> DEFINE names == QualifierNames(dirs, f)
           these == {i \in DOMAIN names : names[i] = q}
<1>1. Qualifiers(dirs, f) = [x \in Range(names) |-> ImportedPackage(dirs, f, FirstNamed(names, x))]
  BY DEF Qualifiers
<1>2. DOMAIN names \subseteq DOMAIN Imports(f)
  BY DEF QualifierNames
<1>3. DOMAIN Imports(f) \subseteq Nat
  BY RepoShape DEF Imports, File
<1> HIDE DEF names
<1>4. these \in SUBSET Nat /\ these # {}
  <2>1. q \in Range(names)
    BY <1>1
  <2> QED
    BY <1>2, <1>3, <2>1 DEF Range
<1>5. \E i \in these : \A j \in these : i <= j
  <2> HIDE DEF these
  <2> QED
    BY <1>4, LeastNatural
<1>6. FirstNamed(names, q) \in DOMAIN names
  <2>1. \E i \in DOMAIN names : names[i] = q /\ \A j \in DOMAIN names : names[j] = q => i <= j
    BY <1>5
  <2> QED
    BY <2>1 DEF FirstNamed
<1> QED
  BY <1>1, <1>2, <1>4, <1>6

(* What binds through import i of f. *)
ThroughImport(f, i, t) ==
  /\ i \in DOMAIN Imports(f)
  /\ t.def.exported /\ ~t.file.test
  /\ t.file \in FilesIn(ImportedPackage(StoredDirs, f, i))
  /\ ImportedPackage(StoredDirs, f, i) # None
  /\ Resolution(StoredDirs, f, i) = Resolved(t.file.dir)
  /\ repo.files[t.file].pkg \notin TestName

Own(f, t) == t.file \in Packaged /\ Key(t.file) = Key(f) /\ (f.test \/ ~t.file.test)

Visible(f, t) == Own(f, t) \/ \E i \in DOMAIN Imports(f) : ThroughImport(f, i, t)

LEMMA ResolutionShape ==
  ASSUME NEW dirs, NEW f, NEW i, Resolution(dirs, f, i).outcome = "resolved"
  PROVE  Resolution(dirs, f, i) = Resolved(Resolution(dirs, f, i).dir)
<1>1. ASSUME NEW d, NEW from, NEW own, DirResolution(dirs, d, from, own).outcome = "resolved"
      PROVE  DirResolution(dirs, d, from, own) = Resolved(d)
  BY <1>1 DEF DirResolution, Resolved, External, Unresolved
<1>2. ASSUME NEW raw, ResolveImport(dirs, f, raw).outcome = "resolved"
      PROVE  \E d : ResolveImport(dirs, f, raw) = Resolved(d)
  BY <1>1, <1>2 DEF ResolveImport, Resolved, External, Unresolved
<1> QED
  BY <1>2 DEF Resolution, Resolved

LEMMA QualifiedVisible ==
  ASSUME repo \in Repo, NEW f \in File, NEW i \in DOMAIN Imports(f), NEW name, NEW kinds,
         ImportedPackage(StoredDirs, f, i) # None,
         NEW t \in QualifiedHits(ImportedPackage(StoredDirs, f, i), name, kinds)
  PROVE  ThroughImport(f, i, t)
<1> DEFINE k == ImportedPackage(StoredDirs, f, i)
<1>1. /\ Resolution(StoredDirs, f, i).outcome = "resolved"
      /\ k = NonTestPackage(Resolution(StoredDirs, f, i).dir)
  BY DEF ImportedPackage
<1>2. k.dir = Resolution(StoredDirs, f, i).dir /\ k.name \notin TestName
  BY <1>1, NonTestPackageIs
<1>3. t.def.exported /\ ~t.file.test /\ t.file \in FilesIn(k)
  BY DEF QualifiedHits, Exported, Locations
<1>4. t.file.dir = k.dir /\ repo.files[t.file].pkg = k.name
  BY <1>3 DEF FilesIn, Key
<1> QED
  BY <1>1, <1>2, <1>3, <1>4, ResolutionShape DEF ThroughImport

LEMMA OwnVisible ==
  ASSUME NEW f, NEW name, NEW kinds, NEW t \in VisibleFrom(f, OwnHits(f, name, kinds))
  PROVE  Own(f, t)
  BY DEF VisibleFrom, OwnHits, OwnDefs, Locations, FilesIn, Own

LEMMA UnqualifiedVisible ==
  ASSUME repo \in Repo, NEW f \in File, NEW r, NEW kinds,
         NEW t \in BindUnqualified(StoredDirs, f, r, kinds).targets
  PROVE  Visible(f, t)
<1>1. t \in VisibleFrom(f, OwnHits(f, r.name, kinds)) \union DotHits(StoredDirs, f, r.name, kinds)
  BY DEF BindUnqualified, Capped, Bound, Unbound
<1>2. CASE t \in DotHits(StoredDirs, f, r.name, kinds)
  <2>1. PICK i \in DOMAIN Imports(f) :
          /\ ImportedPackage(StoredDirs, f, i) # None
          /\ t \in QualifiedHits(ImportedPackage(StoredDirs, f, i), r.name, kinds)
    BY <1>2 DEF DotHits, DotPackages
  <2> QED
    BY <2>1, QualifiedVisible DEF Visible
<1> QED
  BY <1>1, <1>2, OwnVisible DEF Visible

LEMMA BindRefVisible ==
  ASSUME repo \in Repo, NEW f \in File, NEW j \in DOMAIN Refs(f),
         NEW t \in BindRef(StoredDirs, f, Qualifiers(StoredDirs, f), Refs(f)[j]).targets
  PROVE  Visible(f, t)
<1> DEFINE r     == Refs(f)[j]
           scope == Qualifiers(StoredDirs, f)
<1>1. r.kind \in RefKind
  BY RepoShape DEF Refs, File
<1> HIDE DEF r, scope
<1>2. CASE r.kind = "name_ref"
  <2>1. t \in BindUnqualified(StoredDirs, f, r, DefKind).targets
    BY <1>2 DEF BindRef, r, scope
  <2> QED
    BY <2>1, UnqualifiedVisible
<1>3. CASE r.kind # "name_ref" /\ r.qualifier \in DOMAIN scope
  <2>1. /\ scope[r.qualifier] # None
        /\ t \in Capped(QualifiedHits(scope[r.qualifier], r.name, SelectableKind(r.kind))).targets
    BY <1>3 DEF BindRef, Unbound, r, scope
  <2>2. t \in QualifiedHits(scope[r.qualifier], r.name, SelectableKind(r.kind))
    BY <2>1 DEF Capped, Bound, Unbound
  <2>3. PICK i \in DOMAIN Imports(f) : scope[r.qualifier] = ImportedPackage(StoredDirs, f, i)
    BY <1>3, ScopeIsImported DEF scope
  <2> QED
    BY <2>1, <2>2, <2>3, QualifiedVisible DEF Visible
<1>4. CASE r.kind = "type_ref" /\ r.qualifier \notin DOMAIN scope
  <2>1. t \in BindUnqualified(StoredDirs, f, r, TypeKind).targets
    BY <1>4 DEF BindRef, Unbound, r, scope
  <2> QED
    BY <2>1, UnqualifiedVisible
<1>5. CASE r.kind = "call_ref" /\ r.qualifier \notin DOMAIN scope
  <2>1. t \in BindMethod(f, r).targets
    BY <1>5 DEF BindRef, Unbound, r, scope
  <2>2. t \in VisibleFrom(f, OwnHits(f, r.name, {"method"}))
    BY <2>1 DEF BindMethod, Bound, Unbound
  <2> QED
    BY <2>2, OwnVisible DEF Visible
<1>6. CASE r.kind = "field_ref" /\ r.qualifier \notin DOMAIN scope
  BY <1>6 DEF BindRef, Unbound, r, scope
<1> QED
  BY <1>1, <1>2, <1>3, <1>4, <1>5, <1>6 DEF RefKind

----------------------------------------------------------------------------
(***************************************************************************)
(* Stored rows.                                                            *)
(***************************************************************************)
RowIsVisible(row, f) ==
  \A j \in DOMAIN row.refs : \A t \in row.refs[j].targets :
    \/ Key(t.file) = Key(f) /\ (f.test \/ ~t.file.test)
    \/ /\ t.def.exported /\ ~t.file.test
       /\ \E i \in DOMAIN row.imports : /\ row.imports[i] = Resolved(t.file.dir)
                                        /\ repo.files[t.file].pkg \notin TestName

VisibleInv == repo \in Repo /\ \A f \in Stored : RowIsVisible(rows[f], f)

LEMMA ResolveFileVisible ==
  ASSUME repo \in Repo, NEW f \in File
  PROVE  RowIsVisible(ResolveFile(StoredDirs, f), f)
<1> DEFINE row == ResolveFile(StoredDirs, f)
           bound == [j \in DOMAIN Refs(f) |->
                       BindRef(StoredDirs, f, Qualifiers(StoredDirs, f), Refs(f)[j])]
           resolved == [i \in DOMAIN Imports(f) |-> Resolution(StoredDirs, f, i)]
<1>1. row = [imports |-> resolved, refs |-> bound]
  BY DEF ResolveFile
<1>2. row.refs = bound /\ row.imports = resolved
  <2> HIDE DEF row, bound, resolved
  <2> QED
    BY <1>1
<1>3. ASSUME NEW j \in DOMAIN Refs(f), NEW t \in bound[j].targets
      PROVE  Visible(f, t)
  BY <1>3, BindRefVisible
<1>4. DOMAIN bound = DOMAIN Refs(f) /\ DOMAIN resolved = DOMAIN Imports(f)
  OBVIOUS
<1>5. \A i \in DOMAIN Imports(f) : resolved[i] = Resolution(StoredDirs, f, i)
  OBVIOUS
<1> HIDE DEF row, bound, resolved
<1>6. ASSUME NEW j \in DOMAIN row.refs, NEW t \in row.refs[j].targets
      PROVE  \/ Key(t.file) = Key(f) /\ (f.test \/ ~t.file.test)
             \/ /\ t.def.exported /\ ~t.file.test
                /\ \E i \in DOMAIN row.imports : /\ row.imports[i] = Resolved(t.file.dir)
                                                 /\ repo.files[t.file].pkg \notin TestName
  <2>1. Visible(f, t)
    BY <1>2, <1>3, <1>4, <1>6
  <2>2. CASE Own(f, t)
    BY <2>2 DEF Own
  <2>3. ASSUME NEW i \in DOMAIN Imports(f), ThroughImport(f, i, t)
        PROVE  /\ t.def.exported /\ ~t.file.test
               /\ i \in DOMAIN row.imports /\ row.imports[i] = Resolved(t.file.dir)
               /\ repo.files[t.file].pkg \notin TestName
    BY <1>2, <1>4, <1>5, <2>3 DEF ThroughImport
  <2> QED
    BY <2>1, <2>2, <2>3 DEF Visible
<1>7. RowIsVisible(row, f)
  BY <1>6 DEF RowIsVisible
<1> QED
  BY <1>7 DEF row

LEMMA StepVisible == VisibleInv /\ [ResolvePackage]_resolverVars => VisibleInv'
<1> SUFFICES ASSUME VisibleInv, [ResolvePackage]_resolverVars PROVE VisibleInv'
  OBVIOUS
<1>1. repo' = repo
  BY DEF ResolvePackage, resolverVars
<1>2. ASSUME NEW row, NEW f, RowIsVisible(row, f)
      PROVE  RowIsVisible(row, f)'
  BY <1>1, <1>2 DEF RowIsVisible, Key
<1>3. CASE ResolvePackage
  <2>1. PICK k : rows' = [f \in File |-> IF f \in FilesIn(k) THEN ResolveFile(StoredDirs, f)
                                                           ELSE rows[f]]
    BY <1>3 DEF ResolvePackage
  <2>2. ASSUME NEW f \in File, rows'[f] # None
        PROVE  RowIsVisible(rows'[f], f)
    <3>1. CASE f \in FilesIn(k)
      BY <2>1, <3>1, ResolveFileVisible DEF VisibleInv
    <3>2. CASE f \notin FilesIn(k)
      BY <2>1, <2>2, <3>2 DEF VisibleInv, Stored
    <3> QED
      BY <3>1, <3>2
  <2>3. \A f \in Stored' : f \in File /\ rows'[f] # None
    BY <1>1 DEF Stored, File
  <2>4. \A f \in Stored' : RowIsVisible(rows'[f], f)
    BY <2>2, <2>3
  <2>5. \A f \in Stored' : (RowIsVisible(rows[f], f))'
    BY <1>1, <2>4 DEF RowIsVisible, Key
  <2> QED
    BY <1>1, <2>5 DEF VisibleInv
<1>4. CASE UNCHANGED resolverVars
  <2>1. rows' = rows /\ Stored' = Stored
    BY <1>4 DEF resolverVars, Stored, File
  <2>2. \A f \in Stored' : RowIsVisible(rows'[f], f)
    BY <2>1 DEF VisibleInv
  <2>3. \A f \in Stored' : (RowIsVisible(rows[f], f))'
    BY <1>1, <2>2 DEF RowIsVisible, Key
  <2> QED
    BY <1>1, <2>3 DEF VisibleInv
<1> QED
  BY <1>3, <1>4

(* In every repository, a stored binding names a definition Go lets the    *)
(* file see: its own package's, a test file's only from a test file, or an *)
(* exported one of an imported package, never of its tests.                *)
THEOREM VisibleBindings == ResolverSpec => []BindingsAreVisible
<1>1. ResolverInit => VisibleInv
  BY DEF ResolverInit, VisibleInv, Stored
<1>2. VisibleInv => BindingsAreVisible
  BY DEF VisibleInv, RowIsVisible, BindingsAreVisible, Targets
<1> QED
  BY <1>1, <1>2, StepVisible, PTL DEF ResolverSpec

----------------------------------------------------------------------------
(***************************************************************************)
(* Edges.                                                                  *)
(***************************************************************************)
Followed(E) ==
  \A e \in E : e.kind = "ref_def" /\ Key(e.src) # Key(e.dst) =>
    \E g \in E : g.kind = "import_out" /\ g.src = e.src /\ g.dst = e.dst

LEMMA RefEdgeTarget ==
  ASSUME repo \in Repo, NEW f \in File, NEW e \in RefEdges(ResolveFile(StoredDirs, f), f)
  PROVE  /\ e.src = f /\ e.dst # f
         /\ \E t : e.dst = t.file /\ Visible(f, t)
<1> DEFINE row == ResolveFile(StoredDirs, f)
           bound == [j \in DOMAIN Refs(f) |->
                       BindRef(StoredDirs, f, Qualifiers(StoredDirs, f), Refs(f)[j])]
           hits == UNION {{<<j, h>> : h \in row.refs[j].targets} : j \in DOMAIN row.refs}
           into == {x[2].file : x \in hits} \ {f}
           count(g) == Cardinality({x \in hits : x[2].file = g})
<1>1. row.refs = bound
  BY DEF ResolveFile
<1>2. \A j \in DOMAIN Refs(f) : \A t \in bound[j].targets : Visible(f, t)
  BY BindRefVisible
<1>3. DOMAIN bound = DOMAIN Refs(f)
  OBVIOUS
<1>4. RefEdges(row, f) = {Edge(f, g, "ref_def", count(g)) : g \in into}
  BY DEF RefEdges
<1> HIDE DEF row, bound
<1>5. \A x \in hits : Visible(f, x[2])
  BY <1>1, <1>2, <1>3
<1> HIDE DEF hits, count
<1>6. PICK g \in into : e = Edge(f, g, "ref_def", count(g))
  BY <1>4 DEF row
<1>7. PICK x \in hits : g = x[2].file
  BY <1>6
<1> QED
  BY <1>5, <1>6, <1>7 DEF Edge

LEMMA OwnEdgesFollowed ==
  ASSUME repo \in Repo, NEW f \in File, NEW e \in OwnEdges(StoredDirs, f), e.kind = "ref_def",
         Key(e.src) # Key(e.dst)
  PROVE  Edge(e.src, e.dst, "import_out", 0) \in OwnEdges(StoredDirs, f)
<1>1. e \in RefEdges(ResolveFile(StoredDirs, f), f)
  BY DEF OwnEdges, Edge
<1>2. e.src = f /\ e.dst # f
  BY <1>1, RefEdgeTarget
<1>3. PICK t : e.dst = t.file /\ Visible(f, t)
  BY <1>1, RefEdgeTarget
<1>4. PICK i \in DOMAIN Imports(f) : ThroughImport(f, i, t)
  BY <1>2, <1>3 DEF Visible, Own
<1>5. e.dst \in ImportTargets(StoredDirs, f)
  BY <1>2, <1>3, <1>4 DEF ThroughImport, ImportTargets
<1> QED
  BY <1>2, <1>5 DEF OwnEdges

FollowedInv == repo \in Repo /\ Followed(edges)

LEMMA StepFollowed == FollowedInv /\ [ResolvePackage]_resolverVars => FollowedInv'
<1> SUFFICES ASSUME repo \in Repo, Followed(edges), [ResolvePackage]_resolverVars
             PROVE  FollowedInv'
  BY DEF FollowedInv
<1>1. repo' = repo
  BY DEF ResolvePackage, resolverVars
<1>2. Followed(edges')
  <2>1. CASE ResolvePackage
    <3>1. PICK k : edges' = {e \in edges : e.src \notin FilesIn(k)}
                              \union UNION {OwnEdges(StoredDirs, f) \union AffinityEdges(f) : f \in FilesIn(k)}
      BY <2>1 DEF ResolvePackage, EdgesRewritten
    <3> SUFFICES ASSUME NEW e \in edges', e.kind = "ref_def", Key(e.src) # Key(e.dst)
                 PROVE  \E g \in edges' : g.kind = "import_out" /\ g.src = e.src /\ g.dst = e.dst
      BY DEF Followed
    <3>2. CASE e \in edges /\ e.src \notin FilesIn(k)
      <4>1. PICK g \in edges : g.kind = "import_out" /\ g.src = e.src /\ g.dst = e.dst
        BY <3>2 DEF Followed
      <4> QED
        BY <3>1, <3>2, <4>1
    <3>3. ASSUME NEW f \in FilesIn(k), e \in OwnEdges(StoredDirs, f)
          PROVE  \E g \in edges' : g.kind = "import_out" /\ g.src = e.src /\ g.dst = e.dst
      <4>1. f \in File
        BY DEF FilesIn, Packaged
      <4>2. Edge(e.src, e.dst, "import_out", 0) \in OwnEdges(StoredDirs, f)
        BY <3>3, <4>1, OwnEdgesFollowed
      <4> QED
        BY <3>1, <4>2 DEF Edge
    <3>4. ASSUME NEW f \in FilesIn(k)
          PROVE  e \notin AffinityEdges(f)
      BY DEF AffinityEdges, Edge
    <3> QED
      BY <3>1, <3>2, <3>3, <3>4
  <2>2. CASE UNCHANGED resolverVars
    BY <2>2 DEF resolverVars
  <2> QED
    BY <2>1, <2>2
<1>3. \A f : Key(f)' = Key(f)
  BY <1>1 DEF Key
<1> QED
  BY <1>1, <1>2, <1>3 DEF Followed, FollowedInv

(* In every repository, no ref_def edge crosses packages without the       *)
(* import_out edge the import leaves (go.rs, resolve_file).                *)
THEOREM FollowedRefs == ResolverSpec => []RefsFollowImports
<1>1. ResolverInit => FollowedInv
  BY DEF ResolverInit, Followed, FollowedInv
<1>2. FollowedInv => RefsFollowImports
  BY DEF Followed, FollowedInv, RefsFollowImports
<1> QED
  BY <1>1, <1>2, StepFollowed, PTL DEF ResolverSpec

----------------------------------------------------------------------------
(***************************************************************************)
(* The facts do not move: what is said of them is said of them after a     *)
(* step.                                                                   *)
(***************************************************************************)
LEMMA SameFiles ==
  ASSUME repo' = repo
  PROVE  /\ File' = File /\ Packaged' = Packaged /\ Keys' = Keys
         /\ StoredDirs' = StoredDirs /\ PreparedDirs' = PreparedDirs
         /\ \A k : FilesIn(k)' = FilesIn(k)
         /\ \A f : Key(f)' = Key(f)
BY DEF File, Packaged, Keys, Key, StoredDirs, PreparedDirs, FilesIn

LEMMA SameModule ==
  ASSUME repo' = repo, NEW d
  PROVE  NearestModule(d)' = NearestModule(d)
BY DEF NearestModule

LEMMA SamePackage ==
  ASSUME repo' = repo, NEW d
  PROVE  NonTestPackage(d)' = NonTestPackage(d)
BY DEF NonTestPackage, Keys, Key, Packaged, File

LEMMA SameImports ==
  ASSUME repo' = repo, NEW dirs, NEW f, NEW i
  PROVE  /\ Imports(f)' = Imports(f)
         /\ Resolution(dirs, f, i)' = Resolution(dirs, f, i)
         /\ ImportedPackage(dirs, f, i)' = ImportedPackage(dirs, f, i)
<1>1. Imports(f)' = Imports(f)
  BY DEF Imports
<1>2. Resolution(dirs, f, i)' = Resolution(dirs, f, i)
  BY SameModule DEF Resolution, ResolveImport, DirResolution, Imports
<1> QED
  BY <1>1, <1>2, SamePackage DEF ImportedPackage

LEMMA SameName ==
  ASSUME repo' = repo, NEW dirs, NEW f, NEW i
  PROVE  QualifierName(dirs, f, i)' = QualifierName(dirs, f, i)
BY SameImports DEF QualifierName

LEMMA SameScope ==
  ASSUME repo' = repo, NEW dirs, NEW f
  PROVE  Qualifiers(dirs, f)' = Qualifiers(dirs, f)
<1>1. Imports(f)' = Imports(f)
  BY SameImports
<1>2. \A i : ImportedPackage(dirs, f, i)' = ImportedPackage(dirs, f, i)
  BY SameImports
<1>3. \A i : QualifierName(dirs, f, i)' = QualifierName(dirs, f, i)
  BY SameName
<1>4. QualifierNames(dirs, f)' = QualifierNames(dirs, f)
  BY <1>1, <1>3 DEF QualifierNames
<1> QED
  BY <1>2, <1>4 DEF Qualifiers

LEMMA SameHits ==
  ASSUME repo' = repo, NEW dirs, NEW f, NEW name, NEW kinds, NEW k
  PROVE  /\ OwnHits(f, name, kinds)' = OwnHits(f, name, kinds)
         /\ QualifiedHits(k, name, kinds)' = QualifiedHits(k, name, kinds)
         /\ DotHits(dirs, f, name, kinds)' = DotHits(dirs, f, name, kinds)
<1>1. \A x : OwnDefs(x)' = OwnDefs(x) /\ Exported(x)' = Exported(x)
  BY DEF OwnDefs, Exported, FilesIn, Key, Packaged, File
<1>2. OwnHits(f, name, kinds)' = OwnHits(f, name, kinds)
  BY <1>1, SameFiles DEF OwnHits
<1>3. \A x : QualifiedHits(x, name, kinds)' = QualifiedHits(x, name, kinds)
  BY <1>1 DEF QualifiedHits
<1>4. DotPackages(dirs, f)' = DotPackages(dirs, f)
  BY SameImports DEF DotPackages
<1>5. DotHits(dirs, f, name, kinds)' = DotHits(dirs, f, name, kinds)
  BY <1>3, <1>4 DEF DotHits
<1> QED
  BY <1>2, <1>3, <1>5

LEMMA SameBinding ==
  ASSUME repo' = repo, NEW dirs, NEW f, NEW scope, NEW r, r.kind \in RefKind
  PROVE  BindRef(dirs, f, scope, r)' = BindRef(dirs, f, scope, r)
<1>1. /\ \A kinds : BindUnqualified(dirs, f, r, kinds)' = BindUnqualified(dirs, f, r, kinds)
      /\ BindMethod(f, r)' = BindMethod(f, r)
  BY SameHits DEF BindUnqualified, BindMethod
<1>2. \A k, kinds : QualifiedHits(k, r.name, kinds)' = QualifiedHits(k, r.name, kinds)
  BY SameHits
<1> QED
  BY <1>1, <1>2 DEF BindRef, RefKind

LEMMA SameRow ==
  ASSUME repo \in Repo, repo' = repo, NEW dirs, NEW f \in File
  PROVE  ResolveFile(dirs, f)' = ResolveFile(dirs, f)
<1>1. Imports(f)' = Imports(f) /\ Refs(f)' = Refs(f)
  BY SameImports DEF Refs
<1>2. \A i : Resolution(dirs, f, i)' = Resolution(dirs, f, i)
  BY SameImports
<1>3. ASSUME NEW scope, NEW j \in DOMAIN Refs(f)
      PROVE  BindRef(dirs, f, scope, Refs(f)[j])' = BindRef(dirs, f, scope, Refs(f)[j])
  <2>1. Refs(f)[j].kind \in RefKind
    BY RepoShape DEF Refs, File
  <2>2. PICK r : r = Refs(f)[j]
    OBVIOUS
  <2>3. BindRef(dirs, f, scope, r)' = BindRef(dirs, f, scope, r)
    BY <2>1, <2>2, SameBinding
  <2> QED
    BY <1>1, <2>2, <2>3
<1> QED
  BY <1>1, <1>2, <1>3, SameScope DEF ResolveFile

LEMMA SameEdges ==
  ASSUME repo \in Repo, repo' = repo, NEW dirs, NEW f \in File
  PROVE  /\ OwnEdges(dirs, f)' = OwnEdges(dirs, f)
         /\ AffinityEdges(f)' = AffinityEdges(f)
<1>1. AffinityEdges(f)' = AffinityEdges(f)
  BY DEF AffinityEdges, Packaged, File
<1>2. ImportTargets(dirs, f)' = ImportTargets(dirs, f)
  BY SameImports, SameFiles DEF ImportTargets
<1> QED
  BY <1>1, <1>2, SameRow DEF OwnEdges

----------------------------------------------------------------------------
(***************************************************************************)
(* One package in memory and the whole snapshot.                           *)
(***************************************************************************)
LEMMA NoPackageThere ==
  ASSUME NEW d, d \notin StoredDirs
  PROVE  NonTestPackage(d) = None
<1>1. {x \in Keys : x.dir = d} = {}
  BY DEF StoredDirs
<1> QED
  BY <1>1 DEF NonTestPackage

(* The two differ where a directory has files and none of them a package.  *)
LEMMA ResolutionsDiffer ==
  ASSUME NEW f, NEW i, Resolution(StoredDirs, f, i) # Resolution(PreparedDirs, f, i)
  PROVE  /\ Resolution(StoredDirs, f, i).outcome # "resolved"
         /\ Resolution(PreparedDirs, f, i).dir \in PreparedDirs \ StoredDirs
<1>1. StoredDirs \subseteq PreparedDirs
  BY DEF StoredDirs, PreparedDirs, Keys, Key, Packaged
<1>2. ASSUME NEW dir, NEW from, NEW own,
             DirResolution(StoredDirs, dir, from, own) # DirResolution(PreparedDirs, dir, from, own)
      PROVE  /\ DirResolution(StoredDirs, dir, from, own).outcome # "resolved"
             /\ DirResolution(PreparedDirs, dir, from, own).dir \in PreparedDirs \ StoredDirs
  BY <1>1, <1>2 DEF DirResolution, Resolved, Unresolved
<1>3. ASSUME NEW raw, ResolveImport(StoredDirs, f, raw) # ResolveImport(PreparedDirs, f, raw)
      PROVE  /\ ResolveImport(StoredDirs, f, raw).outcome # "resolved"
             /\ ResolveImport(PreparedDirs, f, raw).dir \in PreparedDirs \ StoredDirs
  BY <1>1, <1>2, <1>3 DEF ResolveImport, Resolved, External
<1> QED
  BY <1>3 DEF Resolution

(* Every import brings in the same package. *)
LEMMA PackagesAgree ==
  ASSUME NEW f, NEW i
  PROVE  ImportedPackage(StoredDirs, f, i) = ImportedPackage(PreparedDirs, f, i)
<1>1. CASE Resolution(StoredDirs, f, i) # Resolution(PreparedDirs, f, i)
  BY <1>1, ResolutionsDiffer, NoPackageThere DEF ImportedPackage
<1> QED
  BY <1>1 DEF ImportedPackage

LEMMA ResolutionsAgree ==
  ASSUME NEW f, ~NamesNoPackage(f), NEW i \in DOMAIN Imports(f)
  PROVE  Resolution(StoredDirs, f, i) = Resolution(PreparedDirs, f, i)
BY ResolutionsDiffer DEF NamesNoPackage

LEMMA ScopesAgree ==
  ASSUME NEW f, ~NamesNoPackage(f)
  PROVE  Qualifiers(StoredDirs, f) = Qualifiers(PreparedDirs, f)
<1>1. \A i \in DOMAIN Imports(f) : QualifierName(StoredDirs, f, i) = QualifierName(PreparedDirs, f, i)
  BY PackagesAgree, ResolutionsAgree DEF QualifierName
<1>2. QualifierNames(StoredDirs, f) = QualifierNames(PreparedDirs, f)
  BY <1>1 DEF QualifierNames
<1> QED
  BY <1>2, PackagesAgree DEF Qualifiers

LEMMA BindingsAgree ==
  ASSUME NEW f, NEW scope, NEW r, r.kind \in RefKind
  PROVE  BindRef(StoredDirs, f, scope, r) = BindRef(PreparedDirs, f, scope, r)
<1>1. DotPackages(StoredDirs, f) = DotPackages(PreparedDirs, f)
  BY PackagesAgree DEF DotPackages
<1>2. \A kinds : BindUnqualified(StoredDirs, f, r, kinds) = BindUnqualified(PreparedDirs, f, r, kinds)
  BY <1>1 DEF BindUnqualified, DotHits
<1> QED
  BY <1>2 DEF BindRef, RefKind

LEMMA RowsAgree ==
  ASSUME repo \in Repo, NEW f \in File, ~NamesNoPackage(f)
  PROVE  ResolveFile(StoredDirs, f) = ResolveFile(PreparedDirs, f)
<1>1. \A j \in DOMAIN Refs(f) : Refs(f)[j].kind \in RefKind
  BY RepoShape DEF Refs, File
<1>2. PICK scope : scope = Qualifiers(StoredDirs, f) /\ scope = Qualifiers(PreparedDirs, f)
  BY ScopesAgree
<1>3. [j \in DOMAIN Refs(f) |-> BindRef(StoredDirs, f, scope, Refs(f)[j])]
        = [j \in DOMAIN Refs(f) |-> BindRef(PreparedDirs, f, scope, Refs(f)[j])]
  <2>1. ASSUME NEW j \in DOMAIN Refs(f)
        PROVE  BindRef(StoredDirs, f, scope, Refs(f)[j]) = BindRef(PreparedDirs, f, scope, Refs(f)[j])
    <3>1. PICK r : r = Refs(f)[j]
      OBVIOUS
    <3> QED
      BY <1>1, <3>1, BindingsAgree
  <2> QED
    BY <2>1
<1>4. [i \in DOMAIN Imports(f) |-> Resolution(StoredDirs, f, i)]
        = [i \in DOMAIN Imports(f) |-> Resolution(PreparedDirs, f, i)]
  BY ResolutionsAgree
<1> QED
  BY <1>2, <1>3, <1>4 DEF ResolveFile

LEMMA ImportTargetsAgree ==
  ASSUME NEW f
  PROVE  ImportTargets(StoredDirs, f) = ImportTargets(PreparedDirs, f)
BY PackagesAgree DEF ImportTargets

LEMMA RefEdgeShape ==
  ASSUME NEW row, NEW f, NEW e \in RefEdges(row, f)
  PROVE  e.kind = "ref_def" /\ e.src = f
<1> DEFINE hits == UNION {{<<j, h>> : h \in row.refs[j].targets} : j \in DOMAIN row.refs}
           into == {x[2].file : x \in hits} \ {f}
           count(g) == Cardinality({x \in hits : x[2].file = g})
<1>1. RefEdges(row, f) = {Edge(f, g, "ref_def", count(g)) : g \in into}
  BY DEF RefEdges
<1> HIDE DEF into, count
<1> QED
  BY <1>1 DEF Edge

(* Every edge of a file's imports, and of references that are comparable.  *)
LEMMA EdgesAgree ==
  ASSUME repo \in Repo, NEW f \in File, NEW e, e.kind = "ref_def" => ~NamesNoPackage(e.src)
  PROVE  e \in OwnEdges(StoredDirs, f) <=> e \in OwnEdges(PreparedDirs, f)
<1>1. CASE NamesNoPackage(f)
  BY <1>1, RefEdgeShape, ImportTargetsAgree DEF OwnEdges
<1>2. CASE ~NamesNoPackage(f)
  BY <1>2, RowsAgree, ImportTargetsAgree DEF OwnEdges
<1> QED
  BY <1>1, <1>2

----------------------------------------------------------------------------
(***************************************************************************)
(* The order of the packages.                                              *)
(***************************************************************************)
LEMMA KeyShape ==
  ASSUME repo \in Repo, NEW k \in Keys
  PROVE  /\ k = [dir |-> k.dir, name |-> k.name]
         /\ k.dir \in DOMAIN DirRank /\ k.name \in DOMAIN Rank
         /\ DirRank[k.dir] \in Nat /\ Rank[k.name] \in Nat
BY RepoShape, DirShape, RankShape DEF Keys, Key, Packaged, File

LEMMA OrderOfKeys ==
  ASSUME repo \in Repo, NEW j \in Keys, NEW k \in Keys
  PROVE  /\ j = k \/ Before(j, k) \/ Before(k, j)
         /\ ~(Before(j, k) /\ Before(k, j))
         /\ j = k => ~Before(j, k)
<1>1. j.dir = k.dir /\ j.name = k.name => j = k
  BY KeyShape
<1>2. /\ DirRank[j.dir] = DirRank[k.dir] => j.dir = k.dir
      /\ Rank[j.name] = Rank[k.name] => j.name = k.name
  BY KeyShape, DirShape, RankShape
<1>3. /\ DirRank[j.dir] \in Nat /\ DirRank[k.dir] \in Nat
      /\ Rank[j.name] \in Nat /\ Rank[k.name] \in Nat
  BY KeyShape
<1> QED
  BY <1>1, <1>2, <1>3 DEF Before

LEMMA FirstKey ==
  ASSUME repo \in Repo, NEW keys \in SUBSET Keys, keys # {}
  PROVE  /\ First(keys) \in keys
         /\ \A j \in keys : j = First(keys) \/ Before(First(keys), j)
<1> DEFINE dirs == {DirRank[k.dir] : k \in keys}
<1>1. dirs \in SUBSET Nat /\ dirs # {}
  BY KeyShape
<1>2. PICK d \in dirs : \A c \in dirs : d <= c
  <2> HIDE DEF dirs
  <2> QED
    BY <1>1, LeastNatural
<1>3. PICK l \in keys : DirRank[l.dir] = d
  OBVIOUS
<1> DEFINE names == {k.name : k \in {x \in keys : x.dir = l.dir}}
<1>4. names \in SUBSET DOMAIN Rank /\ names # {}
  BY KeyShape
<1>5. PICK n \in names : \A m \in names : Rank[n] <= Rank[m]
  <2> HIDE DEF names
  <2> QED
    BY <1>4, LeastPackage
<1>6. PICK k \in keys : k.dir = l.dir /\ k.name = n
  OBVIOUS
<1>7. ASSUME NEW j \in keys
      PROVE  j = k \/ Before(k, j)
  <2>1. DirRank[k.dir] <= DirRank[j.dir]
    BY <1>2, <1>3, <1>6
  <2>2. j.dir = k.dir => Rank[k.name] <= Rank[j.name]
    BY <1>5, <1>6
  <2>3. DirRank[k.dir] = DirRank[j.dir] => j.dir = k.dir
    BY KeyShape, DirShape
  <2>4. Rank[j.name] = Rank[k.name] => j.name = k.name
    BY KeyShape, RankShape
  <2>5. j.dir = k.dir /\ j.name = k.name => j = k
    BY KeyShape
  <2>6. /\ DirRank[j.dir] \in Nat /\ DirRank[k.dir] \in Nat
        /\ Rank[j.name] \in Nat /\ Rank[k.name] \in Nat
    BY KeyShape
  <2> QED
    BY <2>1, <2>2, <2>3, <2>4, <2>5, <2>6 DEF Before
<1> QED
  BY <1>6, <1>7 DEF First

----------------------------------------------------------------------------
(***************************************************************************)
(* The pass.                                                               *)
(***************************************************************************)
Streamed(f)  == OwnEdges(StoredDirs, f) \union AffinityEdges(f)
Processed    == {f \in Packaged : Key(f) \notin todo}
LostByNow(e) == LostWithOwnPackage(e) /\ Key(e.src) \notin todo

(* The packages are taken in their order; what is stored of them, and      *)
(* which of their edges a later package has cleared.                       *)
PassInv ==
  /\ repo \in Repo
  /\ todo \subseteq Keys
  /\ \A k \in Keys \ todo : \A j \in todo : Before(k, j)
  /\ rows = [f \in File |-> IF f \in Processed THEN ResolveFile(StoredDirs, f) ELSE None]
  /\ edges = {e \in UNION {Streamed(f) : f \in Processed} : ~LostByNow(e)}

(* The two ends of an edge that resolving f writes. *)
LEMMA EndsOfEdge ==
  ASSUME repo \in Repo, NEW f \in Packaged, NEW e \in Streamed(f)
  PROVE  /\ e.src \in Packaged
         /\ \/ e.src = f /\ (e.kind = "test_affinity" => ~e.dst.test)
            \/ e.kind = "test_affinity" /\ e.dst = f /\ f.test /\ ~e.src.test
<1>1. CASE e \in AffinityEdges(f)
  BY <1>1 DEF AffinityEdges, Edge
<1>2. CASE e \in {Edge(f, g, "import_out", 0) : g \in ImportTargets(StoredDirs, f)}
  BY <1>2 DEF Edge
<1>3. ASSUME NEW row, e \in RefEdges(row, f)
      PROVE  e.kind = "ref_def" /\ e.src = f
  BY <1>3, RefEdgeShape
<1> QED
  BY <1>1, <1>2, <1>3 DEF Streamed, OwnEdges

LEMMA StepPass == PassInv /\ [ResolvePackage]_resolverVars => PassInv'
<1> SUFFICES ASSUME PassInv, [ResolvePackage]_resolverVars PROVE PassInv'
  OBVIOUS
<1> USE DEF PassInv
<1>1. repo' = repo
  BY DEF ResolvePackage, resolverVars
<1>2. /\ File' = File /\ Packaged' = Packaged /\ Keys' = Keys /\ StoredDirs' = StoredDirs
      /\ \A f : Key(f)' = Key(f)
  BY <1>1, SameFiles
<1>3. \A f \in File : /\ ResolveFile(StoredDirs, f)' = ResolveFile(StoredDirs, f)
                      /\ Streamed(f)' = Streamed(f)
  <2>1. ASSUME NEW f \in File
        PROVE  /\ ResolveFile(StoredDirs, f)' = ResolveFile(StoredDirs, f)
               /\ Streamed(f)' = Streamed(f)
    <3>1. \A dirs : /\ ResolveFile(dirs, f)' = ResolveFile(dirs, f)
                    /\ OwnEdges(dirs, f)' = OwnEdges(dirs, f)
                    /\ AffinityEdges(f)' = AffinityEdges(f)
      BY <1>1, SameRow, SameEdges
    <3> QED
      BY <1>2, <3>1 DEF Streamed
  <2> QED
    BY <2>1
<1>4. CASE UNCHANGED resolverVars
  <2>1. todo' = todo /\ rows' = rows /\ edges' = edges
    BY <1>4 DEF resolverVars
  <2>2. Processed' = Processed /\ Processed \subseteq File
    BY <1>2, <2>1 DEF Processed, Packaged
  <2>3. \A e : LostByNow(e)' = LostByNow(e)
    BY <1>2, <2>1 DEF LostByNow, LostWithOwnPackage
  <2> QED
    BY <1>1, <1>2, <1>3, <2>1, <2>2, <2>3
<1>5. CASE ResolvePackage
  <2>1. PICK k : /\ k = First(todo)
                 /\ todo' = todo \ {k}
                 /\ rows' = [f \in File |-> IF f \in FilesIn(k) THEN ResolveFile(StoredDirs, f)
                                                                ELSE rows[f]]
                 /\ edges' = {e \in edges : e.src \notin FilesIn(k)}
                               \union UNION {Streamed(f) : f \in FilesIn(k)}
    BY <1>5 DEF ResolvePackage, EdgesRewritten, Streamed
  <2>2. k \in todo /\ \A j \in todo : j = k \/ Before(k, j)
    BY <1>5, <2>1, FirstKey DEF ResolvePackage
  <2>3. Processed' = Processed \union FilesIn(k) /\ FilesIn(k) \intersect Processed = {}
    BY <1>2, <2>1, <2>2 DEF Processed, FilesIn, Keys
  <2>4. \A f : f \in Processed \/ f \in FilesIn(k) => f \in File /\ f \in Packaged /\ Key(f) \in Keys
    BY DEF Processed, FilesIn, Packaged, Keys
  <2>5. \A j \in (Keys \ todo)' : \A i \in todo' : Before(j, i)
    BY <1>2, <2>1, <2>2
  <2>6. rows' = [f \in File |-> IF f \in Processed' THEN ResolveFile(StoredDirs, f) ELSE None]
    BY <2>1, <2>3
  <2>7. \A e : LostByNow(e)' <=> LostWithOwnPackage(e) /\ (Key(e.src) \notin todo \/ Key(e.src) = k)
    BY <1>2, <2>1 DEF LostByNow, LostWithOwnPackage
  <2>8. ASSUME NEW e \in edges'
        PROVE  e \in UNION {Streamed(f) : f \in Processed'} /\ ~LostByNow(e)'
    <3>1. CASE e \in edges /\ e.src \notin FilesIn(k)
      <4>1. PICK f \in Processed : e \in Streamed(f)
        BY <3>1
      <4>2. e.src \in Packaged
        BY <2>4, <4>1, EndsOfEdge
      <4>3. Key(e.src) # k
        BY <3>1, <4>2 DEF FilesIn
      <4>4. ~LostByNow(e)
        BY <3>1
      <4> QED
        BY <2>3, <2>7, <4>1, <4>3, <4>4 DEF LostByNow
    <3>2. ASSUME NEW f \in FilesIn(k), e \in Streamed(f)
          PROVE  e \in UNION {Streamed(x) : x \in Processed'} /\ ~LostByNow(e)'
      <4>1. e.src \in Packaged /\ Key(e.src) \in Keys /\ Key(f) = k
        BY <2>4, <3>2, EndsOfEdge DEF Keys, FilesIn
      <4>2. CASE LostWithOwnPackage(e)
        <5>1. e.dst = f
          BY <2>4, <3>2, <4>2, EndsOfEdge DEF LostWithOwnPackage
        <5>2. Before(k, Key(e.src))
          BY <4>1, <4>2, <5>1 DEF LostWithOwnPackage
        <5>3. Key(e.src) # k /\ Key(e.src) \in todo
          BY <2>2, <4>1, <5>2, OrderOfKeys
        <5> QED
          BY <2>3, <2>7, <3>2, <5>3
      <4> QED
        BY <2>3, <2>7, <3>2, <4>2
    <3> QED
      BY <2>1, <3>1, <3>2
  <2>9. ASSUME NEW f \in Processed', NEW e \in Streamed(f), ~LostByNow(e)'
        PROVE  e \in edges'
    <3>1. CASE f \in FilesIn(k)
      BY <2>1, <3>1
    <3>2. CASE f \in Processed
      <4>1. e \in edges
        BY <2>7, <2>9, <3>2 DEF LostByNow
      <4>2. ASSUME e.src \in FilesIn(k) PROVE FALSE
        <5>1. f \notin FilesIn(k) /\ f \in Packaged
          BY <2>3, <2>4, <3>2
        <5>2. e.kind = "test_affinity" /\ e.dst = f /\ f.test /\ ~e.src.test
          BY <4>2, <5>1, EndsOfEdge
        <5>3. Key(e.src) = k /\ Key(f) \in Keys \ todo
          BY <2>4, <3>2, <4>2 DEF FilesIn, Processed
        <5>4. Before(Key(e.dst), Key(e.src))
          BY <2>2, <5>2, <5>3
        <5> QED
          BY <2>7, <2>9, <5>2, <5>3, <5>4 DEF LostWithOwnPackage
      <4> QED
        BY <2>1, <4>1, <4>2
    <3> QED
      BY <2>3, <3>1, <3>2
  <2>10. edges' = {e \in UNION {Streamed(f) : f \in Processed'} : ~LostByNow(e)'}
    <3> DEFINE all == UNION {Streamed(f) : f \in Processed'}
    <3>1. \A e : e \in all <=> \E f \in Processed' : e \in Streamed(f)
      OBVIOUS
    <3> HIDE DEF all
    <3> QED
      BY <2>8, <2>9, <3>1 DEF all
  <2>11. todo' \subseteq Keys'
    BY <1>2, <2>1
  <2>12. \A f \in Processed' : Streamed(f)' = Streamed(f)
    BY <1>3, <2>3, <2>4
  <2> QED
    BY <1>1, <1>2, <1>3, <2>5, <2>6, <2>10, <2>11, <2>12
<1> QED
  BY <1>4, <1>5

LEMMA InitPass == ResolverInit => PassInv
<1> SUFFICES ASSUME ResolverInit PROVE PassInv
  OBVIOUS
<1>1. Processed = {}
  BY DEF ResolverInit, Processed, Keys
<1> QED
  BY <1>1 DEF ResolverInit, PassInv

(* In every repository, the pass leaves what the resolver says of the      *)
(* whole snapshot, but for what a directory without a package clause and a *)
(* test pair across packages make of it (resolve_pass.rs).                 *)
THEOREM StreamedCorrect == ResolverSpec => []StreamedAgrees
<1>1. PassInv => StreamedAgrees
  <2> SUFFICES ASSUME PassInv, Done PROVE StreamedAgrees
    BY DEF StreamedAgrees
  <2>1. Processed = Packaged /\ todo = {} /\ Packaged \subseteq File
    BY DEF Done, Processed, Packaged
  <2>2. ASSUME NEW f \in Packaged, ~NamesNoPackage(f)
        PROVE  rows[f] = SnapshotRows[f]
    BY <2>1, <2>2, RowsAgree DEF PassInv, SnapshotRows
  <2>3. edges = {e \in UNION {Streamed(f) : f \in Packaged} : ~LostWithOwnPackage(e)}
    BY <2>1 DEF PassInv, LostByNow
  <2>4. ASSUME NEW e, e.kind = "ref_def" => ~NamesNoPackage(e.src)
        PROVE  e \in UNION {Streamed(f) : f \in Packaged} <=> e \in SnapshotEdges(Packaged)
    <3>1. \A f \in Packaged : e \in OwnEdges(StoredDirs, f) <=> e \in OwnEdges(PreparedDirs, f)
      BY <2>1, <2>4, EdgesAgree DEF PassInv
    <3> QED
      BY <3>1 DEF Streamed, SnapshotEdges
  <2>5. Comparable(edges) = Comparable({e \in SnapshotEdges(Packaged) : ~LostWithOwnPackage(e)})
    <3> DEFINE streamed == UNION {Streamed(f) : f \in Packaged}
               snapped  == SnapshotEdges(Packaged)
    <3>1. \A e : (e.kind = "ref_def" => ~NamesNoPackage(e.src)) => (e \in streamed <=> e \in snapped)
      BY <2>4
    <3>2. edges = {e \in streamed : ~LostWithOwnPackage(e)}
      BY <2>3
    <3> HIDE DEF streamed, snapped
    <3>3. Comparable(edges) = Comparable({e \in snapped : ~LostWithOwnPackage(e)})
      BY <3>1, <3>2 DEF Comparable
    <3> QED
      BY <3>3 DEF snapped
  <2> QED
    BY <2>2, <2>5 DEF StreamedAgrees
<1> QED
  BY <1>1, InitPass, StepPass, PTL DEF ResolverSpec

----------------------------------------------------------------------------
(***************************************************************************)
(* The rows.                                                               *)
(***************************************************************************)
LEMMA ResolutionIsRow ==
  ASSUME repo \in Repo, NEW f, NEW i
  PROVE  Resolution(StoredDirs, f, i) \in ImportRow
<1>1. StoredDirs \subseteq DOMAIN DirRank
  BY KeyShape DEF StoredDirs
<1>2. ASSUME NEW d, NEW from, NEW own
      PROVE  DirResolution(StoredDirs, d, from, own) \in ImportRow
  BY <1>1 DEF DirResolution, ImportRow, Resolved, External, Unresolved, Outcome
<1>3. ASSUME NEW raw
      PROVE  ResolveImport(StoredDirs, f, raw) \in ImportRow
  <2>1. \A d : d \in StoredDirs => Resolved(d) \in ImportRow
    BY <1>1 DEF ImportRow, Resolved, Outcome
  <2>2. External \in ImportRow /\ Unresolved("escapes_root") \in ImportRow
    BY DEF ImportRow, External, Unresolved, Outcome
  <2> QED
    BY <1>2, <2>1, <2>2 DEF ResolveImport
<1> QED
  BY <1>3 DEF Resolution

(* A binding has targets or one of the reasons. *)
Explained(b) ==
  /\ b.reason \in UnboundReason \union {None}
  /\ (b.targets = {}) <=> (b.reason # None)

LEMMA BindingIsExplained ==
  ASSUME NEW dirs, NEW f, NEW scope, NEW r, r.kind \in RefKind
  PROVE  Explained(BindRef(dirs, f, scope, r))
<1>1. /\ \A hits : hits # {} => Explained(Bound(hits))
      /\ \A reason \in UnboundReason : Explained(Unbound(reason))
  BY NoneIsNoReason DEF Explained, Bound, Unbound
<1>2. ASSUME NEW hits PROVE Explained(Capped(hits))
  <2>1. Explained([targets |-> {}, reason |-> "no_candidate", skipped |-> TRUE])
    BY NoneIsNoReason DEF Explained, UnboundReason
  <2>2. "no_candidate" \in UnboundReason
    BY DEF UnboundReason
  <2> QED
    BY <1>1, <2>1, <2>2 DEF Capped
<1>3. \A kinds : Explained(BindUnqualified(dirs, f, r, kinds))
  BY <1>1, <1>2 DEF BindUnqualified, UnboundReason
<1>4. Explained(BindMethod(f, r))
  BY <1>1 DEF BindMethod, UnboundReason
<1>5. \A reason \in {"external_scope", "no_scope", "needs_type_info"} : Explained(Unbound(reason))
  BY <1>1 DEF UnboundReason
<1> HIDE DEF Explained
<1> QED
  BY <1>2, <1>3, <1>4, <1>5 DEF BindRef, RefKind

LEMMA RowOfFile ==
  ASSUME repo \in Repo, NEW f \in File
  PROVE  LET row == ResolveFile(StoredDirs, f)
         IN  /\ DOMAIN row.imports = DOMAIN Imports(f)
             /\ \A i \in DOMAIN row.imports : /\ row.imports[i] = Resolution(StoredDirs, f, i)
                                              /\ row.imports[i] \in ImportRow
             /\ \A j \in DOMAIN row.refs : Explained(row.refs[j])
<1> DEFINE row   == ResolveFile(StoredDirs, f)
           scope == Qualifiers(StoredDirs, f)
           bound == [j \in DOMAIN Refs(f) |-> BindRef(StoredDirs, f, scope, Refs(f)[j])]
<1>1. row = [imports |-> [i \in DOMAIN Imports(f) |-> Resolution(StoredDirs, f, i)], refs |-> bound]
  BY DEF ResolveFile
<1>2. \A j \in DOMAIN Refs(f) : Refs(f)[j].kind \in RefKind
  BY RepoShape DEF Refs, File
<1>3. ASSUME NEW j \in DOMAIN Refs(f)
      PROVE  Explained(bound[j])
  <2>1. PICK r : r = Refs(f)[j]
    OBVIOUS
  <2>2. Explained(BindRef(StoredDirs, f, scope, r))
    BY <1>2, <2>1, BindingIsExplained
  <2> QED
    BY <2>1, <2>2
<1>4. DOMAIN bound = DOMAIN Refs(f)
  OBVIOUS
<1> HIDE DEF bound, row
<1>5. row.refs = bound /\ row.imports = [i \in DOMAIN Imports(f) |-> Resolution(StoredDirs, f, i)]
  BY <1>1
<1> QED
  BY <1>3, <1>4, <1>5, ResolutionIsRow DEF row

LEMMA EndsAreFiles ==
  ASSUME repo \in Repo, NEW f \in Packaged, NEW e \in Streamed(f)
  PROVE  e.src \in File /\ e.dst \in File
<1>1. f \in File
  BY DEF Packaged
<1>2. CASE e \in AffinityEdges(f)
  BY <1>1, <1>2 DEF AffinityEdges, Edge, Packaged
<1>3. CASE e \in {Edge(f, g, "import_out", 0) : g \in ImportTargets(StoredDirs, f)}
  BY <1>1, <1>3 DEF Edge, ImportTargets, FilesIn, Packaged
<1>4. CASE e \in RefEdges(ResolveFile(StoredDirs, f), f)
  <2>1. PICK t : e.src = f /\ e.dst = t.file /\ Visible(f, t)
    BY <1>1, <1>4, RefEdgeTarget
  <2> QED
    BY <1>1, <2>1 DEF Visible, Own, ThroughImport, FilesIn, Packaged
<1> QED
  BY <1>2, <1>3, <1>4 DEF Streamed, OwnEdges

(* Every row the pass stores has the shape the schema gives it, and every  *)
(* edge has its ends in the repository.                                    *)
THEOREM TypeCorrect == ResolverSpec => []ResolverTypeOK
<1>1. PassInv => ResolverTypeOK
  <2> SUFFICES ASSUME PassInv PROVE ResolverTypeOK
    OBVIOUS
  <2>1. \A f \in File : rows[f] # None => rows[f] = ResolveFile(StoredDirs, f)
    BY DEF PassInv
  <2>2. ASSUME NEW f \in File, rows[f] # None
        PROVE  /\ \A i \in DOMAIN rows[f].imports : rows[f].imports[i] \in ImportRow
               /\ \A j \in DOMAIN rows[f].refs :
                    rows[f].refs[j].reason \in UnboundReason \union {None}
    BY <2>1, <2>2, RowOfFile DEF PassInv, Explained
  <2>3. ASSUME NEW e \in edges PROVE {e.src, e.dst} \subseteq File
    BY EndsAreFiles DEF PassInv, Processed
  <2> QED
    BY <2>2, <2>3 DEF PassInv, ResolverTypeOK
<1> QED
  BY <1>1, InitPass, StepPass, PTL DEF ResolverSpec

(* No stored reference is without a target and without a reason for it, or *)
(* has both.                                                               *)
LEMMA PassExplained == PassInv => BoundOrExplained
<1> SUFFICES ASSUME PassInv, NEW f \in File, rows[f] # None
             PROVE  \A j \in DOMAIN rows[f].refs :
                      (rows[f].refs[j].targets = {}) <=> (rows[f].refs[j].reason # None)
  BY DEF BoundOrExplained, Stored
<1>1. rows[f] = ResolveFile(StoredDirs, f)
  BY DEF PassInv
<1> QED
  BY <1>1, RowOfFile DEF PassInv, Explained

----------------------------------------------------------------------------
(***************************************************************************)
(* The statistics.  What they come to over a set of files is proved from a *)
(* least counterexample: the induction theorems of the library take an     *)
(* operator, which no prover here can instantiate.                         *)
(***************************************************************************)
Statistics ==
  [imports : [Outcome -> Int], bound : Int, unbound : Int, skipped : Int, scoped : Int,
   reasons : [UnboundReason -> Int]]

Plus(s, d) ==
  [imports |-> [o \in Outcome |-> s.imports[o] + d.imports[o]],
   bound   |-> s.bound + d.bound,
   unbound |-> s.unbound + d.unbound,
   skipped |-> s.skipped + d.skipped,
   scoped  |-> s.scoped + d.scoped,
   reasons |-> [u \in UnboundReason |-> s.reasons[u] + d.reasons[u]]]

LEMMA PlusType == \A s, d \in Statistics : Plus(s, d) \in Statistics
BY DEF Plus, Statistics

LEMMA PlusCommutes ==
  ASSUME NEW s \in Statistics, NEW c \in Statistics, NEW d \in Statistics
  PROVE  Plus(Plus(s, c), d) = Plus(Plus(s, d), c)
<1>1. \A o \in Outcome : Plus(Plus(s, c), d).imports[o] = Plus(Plus(s, d), c).imports[o]
  BY DEF Plus, Statistics
<1>2. \A u \in UnboundReason : Plus(Plus(s, c), d).reasons[u] = Plus(Plus(s, d), c).reasons[u]
  BY DEF Plus, Statistics
<1>3. /\ Plus(Plus(s, c), d).bound = Plus(Plus(s, d), c).bound
      /\ Plus(Plus(s, c), d).unbound = Plus(Plus(s, d), c).unbound
      /\ Plus(Plus(s, c), d).skipped = Plus(Plus(s, d), c).skipped
      /\ Plus(Plus(s, c), d).scoped = Plus(Plus(s, d), c).scoped
  BY DEF Plus, Statistics
<1> QED
  BY <1>1, <1>2, <1>3 DEF Plus

Pick(S) == CHOOSE x \in S : TRUE

TotalEquation(g, tally, S) ==
  g[S] = IF S = {} THEN NoStats ELSE Plus(g[S \ {Pick(S)}], tally[Pick(S)])

Totals(g, tally, D) == \A S \in SUBSET D : TotalEquation(g, tally, S)

TotalAdds(g, tally, D) ==
  \A S \in SUBSET D : \A q \in D \ S : g[S \union {q}] = Plus(g[S], tally[q])

LEMMA LeastNumber ==
  ASSUME NEW B \in SUBSET Nat, B # {}
  PROVE  \E n \in B : \A m \in Nat : m < n => m \notin B
<1>1. PICK n \in B : \A m \in B : n <= m
  BY LeastNatural
<1>2. \A m \in Nat : m < n => ~(n <= m)
  OBVIOUS
<1> QED
  BY <1>1, <1>2

(* A set of a finite one, and what is left of it without one element. *)
LEMMA Smaller ==
  ASSUME NEW D, IsFiniteSet(D), NEW S \in SUBSET D
  PROVE  /\ Cardinality(S) \in Nat /\ Cardinality(S) <= Cardinality(D)
         /\ Cardinality(S) = 0 <=> S = {}
         /\ \A p \in S : Cardinality(S \ {p}) = Cardinality(S) - 1 /\ S \ {p} \in SUBSET D
         /\ S # {} => Pick(S) \in S
<1>1. IsFiniteSet(S) /\ Cardinality(S) <= Cardinality(D)
  BY FS_Subset
<1>2. Cardinality(S) \in Nat /\ (Cardinality(S) = 0 <=> S = {})
  BY <1>1, FS_CardinalityType, FS_EmptySet
<1>3. \A p \in S : Cardinality(S \ {p}) = Cardinality(S) - 1
  BY <1>1, FS_RemoveElement
<1> QED
  BY <1>1, <1>2, <1>3 DEF Pick

LEMMA NothingCounted == NoStats \in Statistics
BY DEF NoStats, Statistics

LEMMA TotalsExist ==
  ASSUME NEW D, IsFiniteSet(D), NEW tally \in [D -> Statistics]
  PROVE  \E g \in [SUBSET D -> Statistics] : Totals(g, tally, D)
<1> DEFINE Upto(g, n) == \A S \in SUBSET D : Cardinality(S) <= n => TotalEquation(g, tally, S)
           B == {n \in Nat : ~ \E g \in [SUBSET D -> Statistics] : Upto(g, n)}
<1>1. \A S \in SUBSET D : /\ Cardinality(S) \in Nat /\ Cardinality(S) <= Cardinality(D)
                          /\ Cardinality(S) = 0 <=> S = {}
                          /\ \A p \in S : /\ Cardinality(S \ {p}) = Cardinality(S) - 1
                                          /\ S \ {p} \in SUBSET D
                          /\ S # {} => Pick(S) \in S
  BY Smaller
<1>2. B = {}
  <2> SUFFICES ASSUME B # {} PROVE FALSE
    OBVIOUS
  <2>1. PICK n \in B : \A m \in Nat : m < n => m \notin B
    <3> HIDE DEF B
    <3>1. B \in SUBSET Nat
      BY DEF B
    <3> QED
      BY <3>1, LeastNumber
  <2>2. n # 0
    <3> DEFINE zero == [S \in SUBSET D |-> NoStats]
    <3>1. zero \in [SUBSET D -> Statistics]
      BY NothingCounted
    <3>2. Upto(zero, 0)
      BY <1>1 DEF TotalEquation
    <3> QED
      BY <3>1, <3>2
  <2>3. n - 1 \in Nat /\ n - 1 \notin B
    <3>1. n \in Nat
      OBVIOUS
    <3>2. n - 1 \in Nat /\ n - 1 < n
      BY <2>2, <3>1
    <3> HIDE DEF B
    <3> QED
      BY <2>1, <3>2
  <2>4. PICK g \in [SUBSET D -> Statistics] : Upto(g, n - 1)
    BY <2>3
  <2> DEFINE More(S) == IF S = {} THEN NoStats ELSE Plus(g[S \ {Pick(S)}], tally[Pick(S)])
             h == [S \in SUBSET D |-> More(S)]
  <2>5. \A S \in SUBSET D : More(S) \in Statistics
    BY <1>1, PlusType, NothingCounted
  <2>6. h \in [SUBSET D -> Statistics]
    BY <2>5
  <2>7. \A S \in SUBSET D : Cardinality(S) <= n - 1 => h[S] = g[S]
    BY <2>4 DEF TotalEquation
  <2>8. Upto(h, n)
    <3> SUFFICES ASSUME NEW S \in SUBSET D, Cardinality(S) <= n
                 PROVE  TotalEquation(h, tally, S)
      OBVIOUS
    <3>1. CASE S = {}
      BY <3>1 DEF TotalEquation
    <3>2. CASE S # {}
      <4>1. /\ S \ {Pick(S)} \in SUBSET D
            /\ Cardinality(S \ {Pick(S)}) <= n - 1
        BY <1>1, <3>2
      <4>2. h[S \ {Pick(S)}] = g[S \ {Pick(S)}]
        BY <2>7, <4>1
      <4>3. h[S] = Plus(g[S \ {Pick(S)}], tally[Pick(S)])
        BY <3>2
      <4> QED
        BY <3>2, <4>2, <4>3 DEF TotalEquation
    <3> QED
      BY <3>1, <3>2
  <2> QED
    BY <2>6, <2>8
<1>3. Cardinality(D) \in Nat
  BY FS_CardinalityType
<1>4. PICK g \in [SUBSET D -> Statistics] : Upto(g, Cardinality(D))
  BY <1>2, <1>3
<1> QED
  BY <1>1, <1>4 DEF Totals

(* The order in which the files are counted does not matter. *)
LEMMA TotalOfMore ==
  ASSUME NEW D, IsFiniteSet(D), NEW tally \in [D -> Statistics],
         NEW g \in [SUBSET D -> Statistics], Totals(g, tally, D)
  PROVE  TotalAdds(g, tally, D)
<1> DEFINE Adds(S) == \A x \in D \ S : g[S \union {x}] = Plus(g[S], tally[x])
           B == {n \in Nat : \E S \in SUBSET D : Cardinality(S) = n /\ ~Adds(S)}
<1>1. \A S \in SUBSET D : /\ Cardinality(S) \in Nat
                          /\ \A p \in S : /\ Cardinality(S \ {p}) = Cardinality(S) - 1
                                          /\ S \ {p} \in SUBSET D
                          /\ S # {} => Pick(S) \in S
  BY Smaller
<1>2. B = {}
  <2> SUFFICES ASSUME B # {} PROVE FALSE
    OBVIOUS
  <2>1. PICK n \in B : \A m \in Nat : m < n => m \notin B
    <3>1. B \in SUBSET Nat
      OBVIOUS
    <3> HIDE DEF B
    <3> QED
      BY <3>1, LeastNumber
  <2>2. PICK S \in SUBSET D : Cardinality(S) = n /\ ~Adds(S)
    BY <2>1
  <2>3. PICK x \in D \ S : g[S \union {x}] # Plus(g[S], tally[x])
    BY <2>2
  <2>4. PICK p : p = Pick(S \union {x})
    OBVIOUS
  <2>5. S \union {x} \in SUBSET D /\ p \in S \union {x}
    BY <1>1, <2>3, <2>4
  <2>6. g[S \union {x}] = Plus(g[(S \union {x}) \ {p}], tally[p])
    BY <2>4, <2>5 DEF Totals, TotalEquation
  <2>7. CASE p = x
    <3>1. (S \union {x}) \ {p} = S
      BY <2>3, <2>7
    <3> QED
      BY <2>3, <2>6, <2>7, <3>1
  <2>8. CASE p # x
    <3>1. p \in S /\ p \in D /\ x \in D
      BY <2>5, <2>8, <2>3
    <3>2. PICK R \in SUBSET D : R = S \ {p}
      BY <1>1, <3>1
    <3>3. Cardinality(R) \in Nat /\ Cardinality(R) < n
      BY <1>1, <2>2, <3>1, <3>2
    <3>4. Adds(R)
      BY <2>1, <3>3
    <3>5. /\ g[R \union {x}] = Plus(g[R], tally[x])
          /\ g[R \union {p}] = Plus(g[R], tally[p])
      BY <2>3, <3>1, <3>2, <3>4
    <3>6. R \union {p} = S /\ R \union {x} = (S \union {x}) \ {p}
      BY <2>8, <3>1, <3>2
    <3>7. g[R] \in Statistics /\ tally[p] \in Statistics /\ tally[x] \in Statistics
      BY <3>1, <3>2
    <3>8. /\ g[S \union {x}] = Plus(Plus(g[R], tally[x]), tally[p])
          /\ Plus(g[S], tally[x]) = Plus(Plus(g[R], tally[p]), tally[x])
      BY <2>6, <3>5, <3>6
    <3> QED
      BY <2>3, <3>7, <3>8, PlusCommutes
  <2> QED
    BY <2>7, <2>8
<1> QED
  BY <1>1, <1>2 DEF TotalAdds

(* Counting more files on top of what is counted. *)
TallyOnto(dirs, table, s, h, D) ==
  [S \in SUBSET D |-> IF S = {} THEN s ELSE Tallied(dirs, table, Pick(S), h[S \ {Pick(S)}])]

LEMMA TalliedAllIs ==
  ASSUME NEW dirs, NEW table, NEW s, NEW B, NEW g, g = TallyOnto(dirs, table, s, g, B)
  PROVE  \E h : h = TallyOnto(dirs, table, s, h, B) /\ TalliedAll(dirs, table, B, s) = h[B]
<1> DEFINE h == CHOOSE it : it = [S \in SUBSET B |->
                  IF S = {} THEN s
                  ELSE Tallied(dirs, table, CHOOSE x \in S : TRUE, it[S \ {CHOOSE x \in S : TRUE}])]
<1>1. TalliedAll(dirs, table, B, s) = h[B]
  BY DEF TalliedAll, FoldSet, MapThenFoldSet
<1>2. h = TallyOnto(dirs, table, s, h, B)
  BY DEF TallyOnto, Pick
<1> HIDE DEF h
<1> QED
  BY <1>1, <1>2

TallyIs(dirs, table, tally, B) ==
  \A f \in B : \A s \in Statistics : Tallied(dirs, table, f, s) = Plus(s, tally[f])

LEMMA TotalSplits ==
  ASSUME NEW D, IsFiniteSet(D), NEW tally \in [D -> Statistics],
         NEW g \in [SUBSET D -> Statistics], Totals(g, tally, D),
         NEW A \in SUBSET D, NEW B \in SUBSET D, A \intersect B = {},
         NEW dirs, NEW table, TallyIs(dirs, table, tally, B)
  PROVE  TalliedAll(dirs, table, B, g[A]) = g[A \union B]
<1>1. \A S \in SUBSET B : /\ Cardinality(S) \in Nat
                          /\ \A p \in S : /\ Cardinality(S \ {p}) = Cardinality(S) - 1
                                          /\ S \ {p} \in SUBSET B
                          /\ S # {} => Pick(S) \in S
  <2>1. IsFiniteSet(B)
    BY FS_Subset
  <2> QED
    BY <2>1, Smaller
<1>2. TotalAdds(g, tally, D)
  BY TotalOfMore
<1>3. ASSUME NEW S \in SUBSET B, S # {}
      PROVE  g[A \union S] = Tallied(dirs, table, Pick(S), g[A \union (S \ {Pick(S)})])
  <2>1. PICK p \in S : p = Pick(S)
    BY <1>1, <1>3
  <2>2. PICK R \in SUBSET D : R = A \union (S \ {p})
    OBVIOUS
  <2>3. p \in D \ R /\ R \union {p} = A \union S /\ p \in B
    BY <2>1, <2>2
  <2>4. g[R \union {p}] = Plus(g[R], tally[p])
    BY <1>2, <2>2, <2>3 DEF TotalAdds
  <2>5. g[R] \in Statistics
    BY <2>2
  <2> QED
    BY <2>1, <2>2, <2>3, <2>4, <2>5 DEF TallyIs
<1>4. \E k : k = TallyOnto(dirs, table, g[A], k, B)
  <2> DEFINE k == [S \in SUBSET B |-> g[A \union S]]
  <2>1. \A S \in SUBSET B : k[S] = IF S = {} THEN g[A]
                                   ELSE Tallied(dirs, table, Pick(S), k[S \ {Pick(S)}])
    <3> SUFFICES ASSUME NEW S \in SUBSET B, S # {}
                 PROVE  k[S] = Tallied(dirs, table, Pick(S), k[S \ {Pick(S)}])
      <4>1. A \union {} = A
        OBVIOUS
      <4> QED
        BY <4>1
    <3>1. k[S \ {Pick(S)}] = g[A \union (S \ {Pick(S)})]
      BY <1>1
    <3> QED
      BY <1>3, <3>1
  <2>2. k = TallyOnto(dirs, table, g[A], k, B)
    BY <2>1 DEF TallyOnto
  <2> HIDE DEF k
  <2> QED
    BY <2>2
<1>5. PICK h : h = TallyOnto(dirs, table, g[A], h, B) /\ TalliedAll(dirs, table, B, g[A]) = h[B]
  BY <1>4, TalliedAllIs
<1>6. \A S \in SUBSET B : h[S] = IF S = {} THEN g[A]
                                 ELSE Tallied(dirs, table, Pick(S), h[S \ {Pick(S)}])
  <2>1. \A S \in SUBSET B : h[S] = TallyOnto(dirs, table, g[A], h, B)[S]
    BY <1>5, Zenon
  <2> QED
    BY <2>1 DEF TallyOnto
<1> DEFINE Bad == {n \in Nat : \E S \in SUBSET B : Cardinality(S) = n /\ h[S] # g[A \union S]}
<1>7. Bad = {}
  <2> SUFFICES ASSUME Bad # {} PROVE FALSE
    OBVIOUS
  <2>1. PICK n \in Bad : \A m \in Nat : m < n => m \notin Bad
    <3>1. Bad \in SUBSET Nat
      OBVIOUS
    <3> HIDE DEF Bad
    <3> QED
      BY <3>1, LeastNumber
  <2>2. PICK S \in SUBSET B : Cardinality(S) = n /\ h[S] # g[A \union S]
    BY <2>1
  <2>3. S # {}
    <3>1. A \union {} = A
      OBVIOUS
    <3> QED
      BY <1>6, <2>2, <3>1
  <2>4. PICK R \in SUBSET B : R = S \ {Pick(S)} /\ Cardinality(R) = Cardinality(S) - 1
    BY <1>1, <2>3
  <2>5. Cardinality(R) \in Nat /\ Cardinality(R) < n
    BY <1>1, <2>2, <2>4
  <2>6. h[R] = g[A \union R]
    BY <2>1, <2>5
  <2> QED
    BY <1>3, <1>6, <2>2, <2>3, <2>4, <2>6
<1>8. h[B] = g[A \union B]
  <2>1. Cardinality(B) \in Nat /\ B \in SUBSET B
    BY <1>1
  <2> QED
    BY <1>7, <2>1
<1> QED
  BY <1>5, <1>8

(* What one file adds. *)
TallyOf(row, refs, used) ==
  LET I    == DOMAIN row.imports
      J    == DOMAIN row.refs
      free == Quantify(J, LAMBDA j : row.refs[j].targets = {})
  IN  [imports |-> [o \in Outcome |-> Quantify(I, LAMBDA i : row.imports[i].outcome = o)],
       bound   |-> Cardinality(J) - free,
       unbound |-> free,
       skipped |-> Quantify(J, LAMBDA j : row.refs[j].skipped),
       scoped  |-> Quantify(J, LAMBDA j : refs[j].qualifier \in used),
       reasons |-> [u \in UnboundReason |-> Quantify(J, LAMBDA j : row.refs[j].reason = u)]]

Tally == [f \in Packaged |-> TallyOf(ResolveFile(StoredDirs, f), Refs(f),
                                      DOMAIN Qualifiers(StoredDirs, f))]

LEMMA CountOf ==
  ASSUME NEW S, IsFiniteSet(S), NEW T \in SUBSET S
  PROVE  Cardinality(T) \in Int
BY FS_Subset, FS_CardinalityType

LEMMA TallyType ==
  ASSUME NEW row, NEW f, NEW refs, NEW used, refs = Refs(f),
         used = DOMAIN Qualifiers(StoredDirs, f),
         IsFiniteSet(DOMAIN row.imports), IsFiniteSet(DOMAIN row.refs)
  PROVE  /\ TallyOf(row, refs, used) \in Statistics
         /\ \A table, s : table[f] = row /\ s \in Statistics =>
              Tallied(StoredDirs, table, f, s) = Plus(s, TallyOf(row, refs, used))
<1> DEFINE I == DOMAIN row.imports
           J == DOMAIN row.refs
           free == {j \in J : row.refs[j].targets = {}}
           skipped == {j \in J : row.refs[j].skipped}
           scoped == {j \in J : refs[j].qualifier \in used}
           Went(o) == {i \in I : row.imports[i].outcome = o}
           Because(u) == {j \in J : row.refs[j].reason = u}
<1>1. \A S \in SUBSET I : Cardinality(S) \in Int
  BY CountOf
<1>2. \A S \in SUBSET J : Cardinality(S) \in Int
  BY CountOf
<1>3. /\ Cardinality(J) \in Int /\ Cardinality(free) \in Int
      /\ Cardinality(skipped) \in Int /\ Cardinality(scoped) \in Int
      /\ \A o : Cardinality(Went(o)) \in Int
      /\ \A u : Cardinality(Because(u)) \in Int
  BY <1>1, <1>2
<1>4. TallyOf(row, refs, used) =
        [imports |-> [o \in Outcome |-> Cardinality(Went(o))],
         bound   |-> Cardinality(J) - Cardinality(free), unbound |-> Cardinality(free),
         skipped |-> Cardinality(skipped), scoped |-> Cardinality(scoped),
         reasons |-> [u \in UnboundReason |-> Cardinality(Because(u))]]
  BY DEF TallyOf, Quantify
<1>5. ASSUME NEW table, NEW s, table[f] = row
      PROVE  Tallied(StoredDirs, table, f, s) =
               [imports |-> [o \in Outcome |-> s.imports[o] + Cardinality(Went(o))],
                bound   |-> s.bound + Cardinality(J) - Cardinality(free),
                unbound |-> s.unbound + Cardinality(free),
                skipped |-> s.skipped + Cardinality(skipped),
                scoped  |-> s.scoped + Cardinality(scoped),
                reasons |-> [u \in UnboundReason |-> s.reasons[u] + Cardinality(Because(u))]]
  BY <1>5 DEF Tallied, Quantify
<1> HIDE DEF I, J, free, skipped, scoped, Went, Because
<1>6. TallyOf(row, refs, used) \in Statistics
  BY <1>3, <1>4 DEF Statistics
<1>7. ASSUME NEW table, NEW s \in Statistics, table[f] = row
      PROVE  Tallied(StoredDirs, table, f, s) = Plus(s, TallyOf(row, refs, used))
  <2>1. s.bound + Cardinality(J) - Cardinality(free)
          = s.bound + (Cardinality(J) - Cardinality(free))
    BY <1>3 DEF Statistics
  <2> QED
    BY <1>4, <1>5, <1>7, <2>1 DEF Plus
<1> QED
  BY <1>6, <1>7

LEMMA RowIsFinite ==
  ASSUME repo \in Repo, NEW f \in File
  PROVE  LET row == ResolveFile(StoredDirs, f)
         IN  IsFiniteSet(DOMAIN row.imports) /\ IsFiniteSet(DOMAIN row.refs)
<1>1. IsFiniteSet(DOMAIN Imports(f)) /\ IsFiniteSet(DOMAIN Refs(f))
  BY RepoShape DEF File, Imports, Refs
<1>2. /\ DOMAIN ResolveFile(StoredDirs, f).imports = DOMAIN Imports(f)
      /\ DOMAIN ResolveFile(StoredDirs, f).refs = DOMAIN Refs(f)
  BY DEF ResolveFile
<1> QED
  BY <1>1, <1>2

LEMMA TallyIsStatistics ==
  ASSUME repo \in Repo
  PROVE  /\ IsFiniteSet(Packaged) /\ Tally \in [Packaged -> Statistics]
         /\ \A table, B : B \subseteq Packaged
              /\ (\A f \in B : table[f] = ResolveFile(StoredDirs, f))
              => TallyIs(StoredDirs, table, Tally, B)
<1>1. IsFiniteSet(Packaged)
  <2>1. Packaged \in SUBSET File /\ IsFiniteSet(File)
    BY RepoShape DEF Packaged, File
  <2> QED
    BY <2>1, FS_Subset
<1>2. ASSUME NEW f \in Packaged
      PROVE  /\ Tally[f] \in Statistics
             /\ \A table, s : table[f] = ResolveFile(StoredDirs, f) /\ s \in Statistics =>
                  Tallied(StoredDirs, table, f, s) = Plus(s, Tally[f])
  <2>1. f \in File
    BY DEF Packaged
  <2>2. PICK row : row = ResolveFile(StoredDirs, f)
    OBVIOUS
  <2>3. IsFiniteSet(DOMAIN row.imports) /\ IsFiniteSet(DOMAIN row.refs)
    BY <2>1, <2>2, RowIsFinite
  <2>4. PICK refs, used : refs = Refs(f) /\ used = DOMAIN Qualifiers(StoredDirs, f)
    OBVIOUS
  <2>5. Tally[f] = TallyOf(row, refs, used)
    BY <2>2, <2>4 DEF Tally
  <2> QED
    BY <2>2, <2>3, <2>4, <2>5, TallyType
<1>3. Tally \in [Packaged -> Statistics]
  BY <1>2 DEF Tally
<1> QED
  BY <1>1, <1>2, <1>3 DEF TallyIs

(* The statistics are those of the packages done. *)
CountedInv ==
  /\ PassInv
  /\ \A g \in [SUBSET Packaged -> Statistics] :
       Totals(g, Tally, Packaged) => stats = g[Processed]

LEMMA StepCounted == CountedInv /\ [ResolvePackage]_resolverVars => CountedInv'
<1> SUFFICES ASSUME CountedInv, [ResolvePackage]_resolverVars PROVE CountedInv'
  OBVIOUS
<1>0. PassInv /\ PassInv' /\ repo \in Repo
  BY StepPass DEF CountedInv, PassInv
<1>1. repo' = repo
  BY DEF ResolvePackage, resolverVars
<1>2. /\ Packaged' = Packaged /\ StoredDirs' = StoredDirs /\ \A f : Key(f)' = Key(f)
      /\ Packaged \subseteq File
  BY <1>1, SameFiles DEF Packaged
<1>3. Tally' = Tally
  <2>1. ASSUME NEW f \in Packaged
        PROVE  /\ ResolveFile(StoredDirs, f)' = ResolveFile(StoredDirs, f)
               /\ Refs(f)' = Refs(f)
               /\ (DOMAIN Qualifiers(StoredDirs, f))' = DOMAIN Qualifiers(StoredDirs, f)
    <3>1. \A dirs : /\ ResolveFile(dirs, f)' = ResolveFile(dirs, f)
                    /\ Qualifiers(dirs, f)' = Qualifiers(dirs, f)
      BY <1>0, <1>1, <1>2, SameRow, SameScope
    <3>2. Refs(f)' = Refs(f)
      BY <1>1 DEF Refs
    <3> QED
      BY <1>2, <3>1, <3>2
  <2> QED
    BY <1>2, <2>1 DEF Tally
<1> SUFFICES ASSUME NEW g \in [SUBSET Packaged -> Statistics], Totals(g, Tally, Packaged)
             PROVE  stats' = g[Processed']
  BY <1>0, <1>2, <1>3 DEF CountedInv
<1>4. stats = g[Processed]
  BY DEF CountedInv
<1>5. CASE UNCHANGED resolverVars
  BY <1>2, <1>4, <1>5 DEF resolverVars, Processed
<1>6. CASE ResolvePackage
  <2>1. PICK k : /\ k = First(todo) /\ todo' = todo \ {k}
                 /\ rows' = [f \in File |-> IF f \in FilesIn(k) THEN ResolveFile(StoredDirs, f)
                                                                ELSE rows[f]]
                 /\ stats' = TalliedAll(StoredDirs, rows', FilesIn(k), stats)
    BY <1>6 DEF ResolvePackage
  <2>2. k \in todo
    BY <1>0, <1>6, <2>1, FirstKey DEF ResolvePackage, PassInv
  <2>3. Processed' = Processed \union FilesIn(k) /\ FilesIn(k) \intersect Processed = {}
    BY <1>2, <2>1, <2>2 DEF Processed, FilesIn, Keys
  <2>4. PICK B \in SUBSET Packaged : B = FilesIn(k)
    BY DEF FilesIn
  <2>5. PICK table : table = rows'
    OBVIOUS
  <2>6. \A f \in B : table[f] = ResolveFile(StoredDirs, f)
    BY <1>2, <2>1, <2>4, <2>5
  <2>7. TallyIs(StoredDirs, table, Tally, B)
    BY <1>0, <2>6, TallyIsStatistics
  <2>8. IsFiniteSet(Packaged) /\ Tally \in [Packaged -> Statistics]
    BY <1>0, TallyIsStatistics
  <2>9. PICK A \in SUBSET Packaged : A = Processed /\ A \intersect B = {}
    BY <2>3, <2>4 DEF Processed
  <2>10. TalliedAll(StoredDirs, table, B, g[A]) = g[A \union B]
    BY <2>7, <2>8, <2>9, TotalSplits
  <2> QED
    BY <1>4, <2>1, <2>3, <2>4, <2>5, <2>9, <2>10
<1> QED
  BY <1>5, <1>6

(* A reference has targets or a reason for having none, never both, and    *)
(* the statistics the pass returns, added up package by package, are those *)
(* of all its rows (resolve_facts, ResolutionStats).                       *)
THEOREM NothingDropped == ResolverSpec => []NothingIsDropped
<1>1. ResolverInit => CountedInv
  <2> SUFFICES ASSUME ResolverInit, NEW g \in [SUBSET Packaged -> Statistics],
                      Totals(g, Tally, Packaged)
               PROVE  stats = g[Processed]
    BY InitPass DEF CountedInv
  <2>1. Processed = {} /\ stats = NoStats
    BY DEF ResolverInit, Processed, Keys
  <2> QED
    BY <2>1 DEF Totals, TotalEquation
<1>2. CountedInv => NothingIsDropped
  <2> SUFFICES ASSUME CountedInv PROVE NothingIsDropped
    OBVIOUS
  <2>1. PassInv /\ repo \in Repo
    BY DEF CountedInv, PassInv
  <2>2. ASSUME Done
        PROVE  stats = TalliedAll(StoredDirs, rows, Packaged, NoStats)
    <3>1. Processed = Packaged /\ Packaged \subseteq File
      BY <2>2 DEF Done, Processed, Packaged
    <3>2. \A f \in Packaged : rows[f] = ResolveFile(StoredDirs, f)
      BY <2>1, <3>1 DEF PassInv
    <3>3. /\ TallyIs(StoredDirs, rows, Tally, Packaged)
          /\ IsFiniteSet(Packaged) /\ Tally \in [Packaged -> Statistics]
      BY <2>1, <3>2, TallyIsStatistics
    <3>4. PICK g \in [SUBSET Packaged -> Statistics] : Totals(g, Tally, Packaged)
      BY <3>3, TotalsExist
    <3>5. g[{}] = NoStats /\ stats = g[Packaged]
      BY <3>1, <3>4 DEF CountedInv, Totals, TotalEquation
    <3>6. PICK A \in SUBSET Packaged : A = {}
      OBVIOUS
    <3>7. TalliedAll(StoredDirs, rows, Packaged, g[A]) = g[A \union Packaged]
      BY <3>3, <3>4, <3>6, TotalSplits
    <3> QED
      BY <3>5, <3>6, <3>7
  <2> QED
    BY <2>1, <2>2, PassExplained DEF NothingIsDropped
<1> QED
  BY <1>1, <1>2, StepCounted, PTL DEF ResolverSpec

----------------------------------------------------------------------------
(***************************************************************************)
(* Modules and internal directories.                                       *)
(***************************************************************************)
LEMMA PrefixIs ==
  ASSUME NEW S, NEW s \in Seq(S), NEW t \in Seq(S)
  PROVE  IsPrefix(s, t) <=> Len(s) <= Len(t) /\ \A i \in 1..Len(s) : s[i] = t[i]
<1>1. Len(s) \in Nat /\ Len(t) \in Nat
  OBVIOUS
<1> SUFFICES ASSUME Len(s) <= Len(t)
             PROVE  SubSeq(s, 1, Len(s)) = SubSeq(t, 1, Len(s)) <=> \A i \in 1..Len(s) : s[i] = t[i]
  BY <1>1 DEF IsPrefix
<1> DEFINE a == SubSeq(s, 1, Len(s))
           b == SubSeq(t, 1, Len(s))
<1>2. /\ \A i \in 1..Len(s) : s[i] \in S
      /\ \A i \in 1..Len(s) : t[i] \in S
  BY <1>1
<1>3. /\ a \in Seq(S) /\ Len(a) = Len(s)
      /\ \A i \in 1..Len(s) : a[i] = s[i]
  BY <1>1, <1>2, SubSeqProperties
<1>4. /\ b \in Seq(S) /\ Len(b) = Len(s)
      /\ \A i \in 1..Len(s) : b[i] = t[i]
  BY <1>1, <1>2, SubSeqProperties
<1> HIDE DEF a, b
<1>5. a = b <=> \A i \in 1..Len(s) : a[i] = b[i]
  BY <1>1, <1>3, <1>4
<1> QED
  BY <1>3, <1>4, <1>5 DEF a, b

(* The nearest module of a directory has the directory in it. *)
LEMMA NearestIs ==
  ASSUME repo \in Repo, NEW d \in Seq(STRING)
  PROVE  /\ NearestModule(d).dir \in Seq(STRING)
         /\ IsPrefix(NearestModule(d).dir, d)
<1> DEFINE around == {m \in repo.modules : IsPrefix(m.dir, d)}
<1>1. CASE around = {}
  <2>1. NearestModule(d).dir = <<>>
    BY <1>1 DEF NearestModule, RootModule
  <2>2. <<>> \in Seq(STRING) /\ Len(<<>>) = 0 /\ Len(d) \in Nat
    OBVIOUS
  <2>3. ASSUME NEW s \in Seq(STRING), Len(s) = 0 PROVE IsPrefix(s, d)
    <3>1. Len(s) <= Len(d) /\ \A i \in 1..Len(s) : s[i] = d[i]
      BY <2>2, <2>3
    <3> QED
      BY <3>1, PrefixIs
  <2> QED
    BY <2>1, <2>2, <2>3
<1>2. CASE around # {}
  <2>1. \A m \in around : m.dir \in Seq(STRING) /\ Len(m.dir) <= Len(d)
    BY SegmentShape DEF IsPrefix
  <2> DEFINE above == {Len(d) - Len(m.dir) : m \in around}
  <2>2. above \in SUBSET Nat /\ above # {}
    <3>1. \A m \in around : Len(d) - Len(m.dir) \in Nat
      BY <2>1
    <3> QED
      BY <1>2, <3>1
  <2>3. PICK n \in above : \A m \in above : n <= m
    <3> HIDE DEF above
    <3> QED
      BY <2>2, LeastNatural
  <2>4. PICK m \in around : n = Len(d) - Len(m.dir)
    OBVIOUS
  <2>5. ASSUME NEW l \in around PROVE Len(l.dir) <= Len(m.dir)
    <3>1. Len(d) \in Nat /\ Len(l.dir) \in Nat /\ Len(m.dir) \in Nat
      BY <2>1
    <3>2. Len(d) - Len(m.dir) <= Len(d) - Len(l.dir)
      BY <2>3, <2>4
    <3> QED
      BY <3>1, <3>2
  <2>6. NearestModule(d) = CHOOSE l \in around : \A x \in around : Len(x.dir) <= Len(l.dir)
    BY <1>2 DEF NearestModule
  <2> HIDE DEF around
  <2>7. NearestModule(d) \in around
    BY <2>5, <2>6
  <2> QED
    BY <2>1, <2>7 DEF around
<1> QED
  BY <1>1, <1>2

LEMMA LeastIs ==
  ASSUME NEW S \in SUBSET Nat, S # {}
  PROVE  Min(S) \in S /\ \A n \in S : Min(S) <= n
<1>1. \E n \in S : \A m \in S : n <= m
  BY LeastNatural
<1> QED
  BY <1>1 DEF Min

LEMMA AfterIs ==
  ASSUME NEW p \in Seq(STRING), NEW s \in Seq(STRING), Len(p) <= Len(s)
  PROVE  /\ After(p, s) \in Seq(STRING)
         /\ Len(After(p, s)) = Len(s) - Len(p)
         /\ \A i \in 1..Len(s) - Len(p) : After(p, s)[i] = s[Len(p) + i]
<1>1. Len(p) \in Nat /\ Len(s) \in Nat
  OBVIOUS
<1>2. \A i \in Len(p) + 1..Len(s) : s[i] \in STRING
  BY <1>1
<1>3. PICK m \in Nat, n \in Nat : m = Len(p) + 1 /\ n = Len(s)
  BY <1>1
<1>4. /\ SubSeq(s, m, n) \in Seq(STRING)
      /\ Len(SubSeq(s, m, n)) = IF m <= n THEN n - m + 1 ELSE 0
      /\ \A i \in 1..n - m + 1 : SubSeq(s, m, n)[i] = s[m + i - 1]
  BY <1>2, <1>3, SubSeqProperties
<1>5. n - m + 1 = Len(s) - Len(p)
  BY <1>1, <1>3
<1>6. \A i \in 1..n - m + 1 : m + i - 1 = Len(p) + i
  BY <1>1, <1>3
<1>7. After(p, s) = SubSeq(s, m, n)
  BY <1>3 DEF After
<1> HIDE DEF After
<1>8. Len(After(p, s)) = Len(s) - Len(p)
  BY <1>1, <1>3, <1>4, <1>7
<1>9. \A i \in 1..Len(s) - Len(p) : After(p, s)[i] = s[Len(p) + i]
  BY <1>4, <1>5, <1>6, <1>7
<1> QED
  BY <1>4, <1>7, <1>8, <1>9

(* What an import of a directory of the own module may cross: nothing, or  *)
(* an internal directory the importer is next to or below.                 *)
LEMMA InternalAllows ==
  ASSUME NEW root \in Seq(STRING), NEW dir \in Seq(STRING), NEW from \in Seq(STRING),
         IsPrefix(root, dir), IsPrefix(root, from),
         ~InternalViolation(After(root, dir), After(root, from)),
         NEW internal, internal = {n \in Len(root) + 1..Len(dir) : dir[n] = "internal"},
         internal # {}
  PROVE  IsPrefix(SubSeq(dir, 1, Min(internal) - 1), from)
<1> DEFINE L     == Len(root)
           below == After(root, dir)
           away  == After(root, from)
           I     == {i \in 1..Len(below) : below[i] = "internal"}
           m     == Min(internal)
           pos   == Min(I)
<1>1. /\ L \in Nat /\ Len(dir) \in Nat /\ Len(from) \in Nat /\ L <= Len(dir) /\ L <= Len(from)
      /\ \A i \in 1..L : root[i] = dir[i] /\ root[i] = from[i]
  BY PrefixIs
<1>2. /\ below \in Seq(STRING) /\ Len(below) = Len(dir) - L
      /\ \A i \in 1..Len(dir) - L : below[i] = dir[L + i]
  BY <1>1, AfterIs
<1>3. /\ away \in Seq(STRING) /\ Len(away) = Len(from) - L
      /\ \A i \in 1..Len(from) - L : away[i] = from[L + i]
  BY <1>1, AfterIs
<1> HIDE DEF below, away
<1>4. internal \in SUBSET Nat /\ m \in internal /\ \A n \in internal : m <= n
  <2>1. internal \in SUBSET Nat
    BY <1>1
  <2> QED
    BY <2>1, LeastIs
<1>5. L < m /\ m <= Len(dir) /\ dir[m] = "internal" /\ m \in Nat
  BY <1>1, <1>4
<1> HIDE DEF m
<1>6. m - L \in 1..Len(below) /\ below[m - L] = "internal"
  <2>1. m - L \in 1..Len(dir) - L /\ L + (m - L) = m
    BY <1>1, <1>5
  <2> QED
    BY <1>2, <1>5, <2>1
<1>7. I \in SUBSET Nat /\ pos \in I /\ \A i \in I : pos <= i
  <2>1. I \in SUBSET Nat /\ I # {}
    BY <1>6
  <2> QED
    BY <2>1, LeastIs
<1>8. pos = m - L
  <2>1. pos <= m - L
    BY <1>6, <1>7
  <2>2. pos \in 1..Len(dir) - L /\ dir[L + pos] = "internal"
    BY <1>2, <1>7
  <2>3. L + pos \in internal
    BY <1>1, <2>2
  <2>4. m <= L + pos
    BY <1>4, <2>3 DEF m
  <2>5. pos \in Nat
    BY <1>7
  <2> HIDE DEF pos
  <2> QED
    BY <1>1, <1>5, <2>1, <2>4, <2>5
<1>9. SelectInSeq(below, LAMBDA s : s = "internal") = pos
  BY <1>7 DEF SelectInSeq
<1> HIDE DEF pos
<1>10. pos > 1 => IsPrefix(SubSeq(below, 1, pos - 1), away)
  BY <1>9 DEF InternalViolation, below, away
<1> DEFINE head == SubSeq(dir, 1, m - 1)
<1>11. head \in Seq(STRING) /\ Len(head) = m - 1 /\ \A i \in 1..m - 1 : head[i] = dir[i]
  <2>1. \A i \in 1..m - 1 : dir[i] \in STRING
    BY <1>1, <1>5
  <2>2. PICK n \in Nat : n = m - 1
    BY <1>1, <1>5
  <2>3. /\ SubSeq(dir, 1, n) \in Seq(STRING)
        /\ Len(SubSeq(dir, 1, n)) = IF 1 <= n THEN n - 1 + 1 ELSE 0
        /\ \A i \in 1..n - 1 + 1 : SubSeq(dir, 1, n)[i] = dir[1 + i - 1]
    BY <2>1, <2>2, SubSeqProperties
  <2>4. head = SubSeq(dir, 1, n)
    BY <2>2
  <2> HIDE DEF head
  <2>5. Len(head) = n /\ \A i \in 1..n : head[i] = dir[i]
    BY <2>3, <2>4
  <2> QED
    BY <2>2, <2>3, <2>4, <2>5
<1> HIDE DEF head
<1>12. m - 1 <= Len(from) /\ \A i \in 1..m - 1 : dir[i] = from[i]
  <2>1. CASE pos = 1
    <3>1. m - 1 = L
      BY <1>1, <1>5, <1>8, <2>1
    <3> QED
      BY <1>1, <3>1
  <2>2. CASE pos > 1
    <3> DEFINE part == SubSeq(below, 1, pos - 1)
    <3>1. PICK n \in Nat : n = pos - 1 /\ n = m - 1 - L /\ n >= 1
      <4>1. pos - 1 \in Nat /\ pos - 1 = m - 1 - L /\ pos - 1 >= 1
        BY <1>1, <1>5, <1>8, <2>2
      <4> QED
        BY <4>1
    <3>2. \A i \in 1..n : below[i] \in STRING
      BY <1>1, <1>2, <1>5, <3>1
    <3>3. /\ SubSeq(below, 1, n) \in Seq(STRING)
          /\ Len(SubSeq(below, 1, n)) = IF 1 <= n THEN n - 1 + 1 ELSE 0
          /\ \A i \in 1..n - 1 + 1 : SubSeq(below, 1, n)[i] = below[1 + i - 1]
      BY <3>1, <3>2, SubSeqProperties
    <3>4. part = SubSeq(below, 1, n)
      BY <3>1
    <3> HIDE DEF part
    <3>5. part \in Seq(STRING) /\ Len(part) = n /\ \A i \in 1..n : part[i] = below[i]
      BY <3>1, <3>3, <3>4
    <3>6. n <= Len(away) /\ \A i \in 1..n : part[i] = away[i]
      <4>1. IsPrefix(part, away)
        BY <1>10, <2>2 DEF part
      <4> QED
        BY <1>3, <3>5, <4>1, PrefixIs
    <3>7. ASSUME NEW i \in 1..m - 1, i > L PROVE dir[i] = from[i]
      <4>1. PICK h \in 1..n : i = L + h
        <5>1. i - L \in 1..n /\ i = L + (i - L)
          BY <1>1, <1>5, <3>1, <3>7
        <5> QED
          BY <5>1
      <4>2. h \in 1..Len(dir) - L /\ h \in 1..Len(from) - L
        BY <1>1, <1>3, <1>5, <3>1, <3>6
      <4>3. dir[L + h] = below[h] /\ from[L + h] = away[h]
        BY <1>2, <1>3, <4>2
      <4> QED
        BY <3>5, <3>6, <4>1, <4>3
    <3>8. ASSUME NEW i \in 1..m - 1, ~(i > L) PROVE dir[i] = from[i]
      <4>1. i \in 1..L
        BY <1>1, <1>5, <3>8
      <4> QED
        BY <1>1, <4>1
    <3>9. m - 1 <= Len(from)
      BY <1>1, <1>3, <1>5, <3>1, <3>6
    <3> QED
      BY <3>7, <3>8, <3>9
  <2>3. pos \in Nat /\ pos >= 1
    BY <1>1, <1>5, <1>8
  <2> QED
    BY <2>1, <2>2, <2>3
<1>13. IsPrefix(head, from)
  BY <1>11, <1>12, PrefixIs
<1> QED
  BY <1>13 DEF head, m

(* What resolves is a directory the index holds a package for. *)
LEMMA ResolvedIsStored ==
  ASSUME NEW f, NEW i, Resolution(StoredDirs, f, i).outcome = "resolved"
  PROVE  Resolution(StoredDirs, f, i).dir \in StoredDirs
<1>1. \A d, from, own : DirResolution(StoredDirs, d, from, own).outcome = "resolved"
                         => DirResolution(StoredDirs, d, from, own).dir \in StoredDirs
  BY DEF DirResolution, External, Unresolved, Resolved
<1> QED
  BY <1>1 DEF Resolution, ResolveImport, External, Unresolved, Resolved

LEMMA ResolutionWithin ==
  ASSUME repo \in Repo, NEW f \in File, NEW i \in DOMAIN Imports(f),
         NEW res, res = Resolution(StoredDirs, f, i), res.outcome = "resolved",
         ~IsPrefix(<<"vendor">>, res.dir)
  PROVE  /\ NearestModule(res.dir) = NearestModule(f.dir)
         /\ ~InternalViolation(After(NearestModule(f.dir).dir, res.dir),
                               After(NearestModule(f.dir).dir, f.dir))
<1> DEFINE own == NearestModule(f.dir)
           raw == Imports(f)[i].raw
<1>1. ASSUME NEW d, DirResolution(StoredDirs, d, f.dir, own).outcome = "resolved"
      PROVE  /\ DirResolution(StoredDirs, d, f.dir, own).dir = d
             /\ NearestModule(d) = own
             /\ ~InternalViolation(After(own.dir, d), After(own.dir, f.dir))
  BY <1>1 DEF DirResolution, External, Unresolved, Resolved
<1>2. raw \in Seq(STRING)
  BY SegmentShape DEF Imports, File
<1>3. IsPrefix(<<"vendor">>, <<"vendor">> \o raw)
  <2>1. PICK S : S = STRING \union {"vendor"}
    OBVIOUS
  <2>2. raw \in Seq(S)
    BY <1>2, <2>1, SeqMonotonic
  <2>3. PICK v : v = <<"vendor">>
    OBVIOUS
  <2>4. v \in Seq(S) /\ Len(v) = 1
    <3>1. <<>> \in Seq(S)
      BY EmptySeq
    <3>2. \A x \in S : <<x>> = Append(<<>>, x) /\ Len(<<x>>) = 1
      BY AppendProperties
    <3>3. \A x \in S : Append(<<>>, x) \in Seq(S)
      BY <3>1, AppendProperties
    <3> QED
      BY <2>1, <2>3, <3>2, <3>3
  <2>5. /\ v \o raw \in Seq(S)
        /\ Len(v \o raw) = Len(v) + Len(raw)
        /\ \A n \in 1..Len(v) + Len(raw) : (v \o raw)[n] = IF n <= Len(v) THEN v[n] ELSE raw[n - Len(v)]
    BY <2>2, <2>4, ConcatProperties
  <2>6. PICK w \in Seq(S) : w = v \o raw
    BY <2>5
  <2>7. Len(v) <= Len(w) /\ \A n \in 1..Len(v) : v[n] = w[n]
    BY <2>2, <2>4, <2>5, <2>6
  <2>8. IsPrefix(v, w)
    BY <2>4, <2>7, PrefixIs
  <2> QED
    BY <2>3, <2>6, <2>8
<1>4. res = ResolveImport(StoredDirs, f, raw)
  BY DEF Resolution
<1> HIDE DEF raw
<1>5. \E d : res = DirResolution(StoredDirs, d, f.dir, own)
  BY <1>3, <1>4 DEF ResolveImport, Resolved, External, Unresolved
<1> QED
  BY <1>1, <1>5

(* No import in any repository leaves the module but into vendor/, and     *)
(* none reaches below an internal directory from outside its parent        *)
(* (resolve_import, internal_violation).                                   *)
THEOREM BoundariesHold == ResolverSpec => []ModuleBoundaries
<1>1. PassInv => ModuleBoundaries
  <2> SUFFICES ASSUME PassInv, NEW f \in Stored, NEW i \in DOMAIN rows[f].imports,
                      rows[f].imports[i].outcome = "resolved",
                      ~IsPrefix(<<"vendor">>, rows[f].imports[i].dir),
                      NEW dir, dir = rows[f].imports[i].dir,
                      NEW own, own = NearestModule(f.dir),
                      NEW internal,
                      internal = {n \in Len(own.dir) + 1..Len(dir) : dir[n] = "internal"}
               PROVE  /\ NearestModule(dir) = own
                      /\ internal # {} => IsPrefix(SubSeq(dir, 1, Min(internal) - 1), f.dir)
    BY DEF ModuleBoundaries
  <2>1. f \in File /\ rows[f] = ResolveFile(StoredDirs, f) /\ repo \in Repo
    BY DEF PassInv, Stored
  <2>2. PICK res : res = rows[f].imports[i]
    OBVIOUS
  <2>3. /\ i \in DOMAIN Imports(f)
        /\ res = Resolution(StoredDirs, f, i) /\ res \in ImportRow
        /\ res.outcome = "resolved" /\ res.dir = dir
    BY <2>1, <2>2, RowOfFile
  <2>4. /\ NearestModule(dir) = own
        /\ ~InternalViolation(After(own.dir, dir), After(own.dir, f.dir))
    BY <2>1, <2>2, <2>3, ResolutionWithin
  <2>5. dir \in Seq(STRING) /\ f.dir \in Seq(STRING)
    <3>1. f.dir \in DOMAIN DirRank
      BY <2>1, RepoShape DEF File
    <3>2. dir \in StoredDirs
      BY <2>3, ResolvedIsStored
    <3>3. dir \in DOMAIN DirRank
      BY <2>1, <3>2, KeyShape DEF StoredDirs
    <3> QED
      BY <3>1, <3>3, DirShape
  <2>6. own.dir \in Seq(STRING) /\ IsPrefix(own.dir, dir) /\ IsPrefix(own.dir, f.dir)
    BY <2>1, <2>4, <2>5, NearestIs
  <2> QED
    BY <2>4, <2>5, <2>6, InternalAllows
<1> QED
  BY <1>1, InitPass, StepPass, PTL DEF ResolverSpec
=============================================================================
