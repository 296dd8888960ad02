--------------------------- MODULE IndexStore_proofs ---------------------------
(***************************************************************************)
(* Types of the rows and of the projection, used by the proofs about the   *)
(* update and the build.                                                   *)
(***************************************************************************)
EXTENDS IndexStore, Diagnosis, WellFoundedInduction, TLAPS

Content == Text \union {Unreadable, None}

(* The scanner reports what the files table can hold, for every file that  *)
(* is there (cs-scanner, SkipReason; schema.rs, the CHECK on files).       *)
LEMMA InspectType ==
  ASSUME NEW c \in Content, c # None
  PROVE  Inspect(c) \in ScanEntry
<1>1. CASE c = Unreadable
  BY <1>1 DEF Inspect, ScanEntry, SkipReason
<1>2. CASE c # Unreadable
  <2>1. c \in Text /\ c.band \in Band
    BY <1>2, TextShape DEF Content
  <2>2. CASE c.band = "too_large"
    BY <1>2, <2>1, <2>2 DEF Inspect, ScanEntry, SkipReason
  <2>3. CASE c.band = "hash_only"
    BY <1>2, <2>1, <2>3 DEF Inspect, ScanEntry, SkipReason
  <2>4. CASE c.band = "parse"
    BY <1>2, <2>1, <2>4, NoneIsNoLabel DEF Inspect, ScanEntry, SkipReason
  <2> QED
    BY <2>1, <2>2, <2>3, <2>4 DEF Band
<1> QED
  BY <1>1, <1>2

(* A scan of a tree has one entry or nothing for every path. *)
LEMMA ScanOfType ==
  ASSUME NEW tree \in [Path -> Content]
  PROVE  ScanOf(tree) \in [Path -> ScanEntry \union {None}]
<1>1. ASSUME NEW p \in Path PROVE Inspect(tree[p]) \in ScanEntry \union {None}
  <2>1. CASE tree[p] = None
    BY <2>1 DEF Inspect
  <2>2. CASE tree[p] # None
    BY <2>2, InspectType
  <2> QED
    BY <2>1, <2>2
<1> QED
  BY <1>1 DEF ScanOf

(* A scanner label is a legal row of its own. *)
LEMMA SkipRowType ==
  ASSUME NEW entry \in ScanEntry, entry.skip # None
  PROVE  SkipRow(entry) \in FileRow
  BY DEF SkipRow, Row, ScanEntry, FileRow, FilesCheck, ParseStatus, SkipReason

(* So is the row of a read that failed. *)
LEMMA UnreadableRowType == UnreadableRow \in FileRow
  BY DEF UnreadableRow, Row, FileRow, FilesCheck, ParseStatus, SkipReason

(* And, for a file that was read, any status beside its hash. *)
LEMMA HashedRowType ==
  ASSUME NEW entry \in ScanEntry, entry.skip = None,
         NEW status \in ParseStatus,
         NEW pkg \in PackageName \union {None},
         NEW facts \in Text \union {None}
  PROVE  Row(entry.hash, None, status, pkg, facts) \in FileRow
  BY NoneIsNoLabel DEF Row, ScanEntry, FileRow, FilesCheck, ParseStatus, SkipReason

LEMMA ParsedRowType ==
  ASSUME NEW p \in Path, NEW entry \in ScanEntry, entry.skip = None,
         NEW c \in Content, IsReadable(c), NEW late
  PROVE  ParsedRow(p, entry, c, late) \in FileRow
<1>1. c \in Text /\ c.pkg \in PackageName \union {None}
  BY TextShape DEF IsReadable, Content
<1>2. {"unsupported", "timeout", "ok"} \subseteq ParseStatus
  BY DEF ParseStatus
<1> QED
  BY <1>1, <1>2, HashedRowType DEF ParsedRow

LEMMA ColdRowType ==
  ASSUME NEW p \in Path, NEW entry \in ScanEntry, NEW c \in Content, NEW late
  PROVE  ColdRow(p, entry, c, late) \in FileRow
<1>1. "skipped" \in ParseStatus
  BY DEF ParseStatus
<1> QED
  BY <1>1, SkipRowType, UnreadableRowType, HashedRowType, ParsedRowType DEF ColdRow

LEMMA FreshRowsType ==
  ASSUME NEW tree \in [Path -> Content]
  PROVE  FreshRows(tree) \in [Path -> FileRow \union {None}]
  BY InspectType, ColdRowType DEF FreshRows

LEMMA FreshManifestType ==
  ASSUME NEW tree \in [Path -> Content]
  PROVE  FreshManifest(tree) \in Text \union {None}
  BY OneRootManifest DEF FreshManifest, Manifests, IsReadable, Content
----------------------------------------------------------------------------
(***************************************************************************)
(* Packages and edges.                                                     *)
(***************************************************************************)
LEMMA KeysInUseType ==
  ASSUME NEW rows \in [Path -> FileRow \union {None}]
  PROVE  KeysInUse(rows) \in SUBSET Key
  BY DEF KeysInUse, Key, FileRow

EdgeRow == [src : Path, dst : Path, kind : EdgeKind]

LEMMA EdgeType ==
  ASSUME NEW s \in Path, NEW d \in Path, NEW kind \in EdgeKind
  PROVE  Edge(s, d, kind) \in EdgeRow
  BY DEF Edge, EdgeRow

LEMMA ImportedFilesType ==
  ASSUME NEW db, NEW i
  PROVE  ImportedFiles(db, i) \subseteq Path
  BY DEF ImportedFiles, FilesOf

LEMMA BindTargetsType ==
  ASSUME NEW db, NEW p, NEW r
  PROVE  BindTargets(db, p, r) \subseteq Path
  BY DEF BindTargets, OwnHits, QualifiedHits, ImportedFiles, FilesOf

LEMMA OwnEdgesType ==
  ASSUME NEW db, NEW p \in Path
  PROVE  OwnEdges(db, p) \subseteq EdgeRow
<1> DEFINE facts    == db.files[p].facts
           imported == (UNION {ImportedFiles(db, i) : i \in facts.imports}) \ {p}
           bound    == (UNION {BindTargets(db, p, r) : r \in facts.refs}) \ {p}
<1>1. imported \subseteq Path
  BY ImportedFilesType
<1>2. bound \subseteq Path
  <2>1. \A r \in facts.refs : BindTargets(db, p, r) \subseteq Path
    BY BindTargetsType
  <2> QED
    BY <2>1
<1>3. OwnEdges(db, p) = {Edge(p, q, "import_out") : q \in imported}
                          \union {Edge(p, q, "ref_def") : q \in bound}
  BY DEF OwnEdges
<1> HIDE DEF imported, bound
<1> QED
  BY <1>1, <1>2, <1>3, EdgeType DEF EdgeKind

LEMMA AffinityEdgesType ==
  ASSUME NEW db, NEW p \in Path
  PROVE  AffinityEdges(db, p) \subseteq EdgeRow
  BY EdgeType DEF AffinityEdges, AffinityTargets, EdgeKind

LEMMA FreshEdgesType ==
  ASSUME NEW db
  PROVE  FreshEdges(db) \subseteq EdgeRow
<1>1. FreshOwnEdges(db) \subseteq EdgeRow
  BY OwnEdgesType DEF FreshOwnEdges, Packaged
<1>2. FreshAffinity(db) \subseteq EdgeRow
  BY EdgeType DEF FreshAffinity, Packaged, EdgeKind
<1> QED
  BY <1>1, <1>2 DEF FreshEdges

(* The derive transaction writes legal edges. *)
LEMMA ResolvePackageType ==
  ASSUME NEW k, edges \subseteq EdgeRow, ResolvePackage(k)
  PROVE  edges' \subseteq EdgeRow
<1> DEFINE mine == FilesOf(DB, k)
<1>1. mine \subseteq Path
  BY DEF FilesOf
<1>2. edges' = {e \in edges : e.src \notin mine}
                 \union UNION {OwnEdges(DB, p) \union AffinityEdges(DB, p) : p \in mine}
  BY DEF ResolvePackage
<1> HIDE DEF mine
<1> QED
  BY <1>1, <1>2, OwnEdgesType, AffinityEdgesType
----------------------------------------------------------------------------
(***************************************************************************)
(* What the projection of a file names is in the files table.              *)
(***************************************************************************)
LEMMA BindTargetsPresent ==
  ASSUME NEW p \in Path, NEW r
  PROVE  BindTargets(DB, p, r) \subseteq Present
<1>1. \A k : FilesOf(DB, k) \subseteq Present
  BY DEF FilesOf, HasPackage, DB, Present
<1>2. OwnHits(DB, p, r.name) \subseteq Present
  BY <1>1 DEF OwnHits
<1>3. QualifiedHits(DB, r.via, r.name) \subseteq Present
  BY <1>1 DEF QualifiedHits, ImportedFiles
<1> QED
  BY <1>2, <1>3 DEF BindTargets

LEMMA ProjectFilePresent ==
  ASSUME NEW p \in Path
  PROVE  /\ DOMAIN ProjectFile(DB, p) = {"resolved", "targets"}
         /\ \A t \in ProjectFile(DB, p).targets : t.file \in Present
<1> DEFINE facts == files[p].facts
           Hits(r) == {[ref |-> r, file |-> q] : q \in BindTargets(DB, p, r)}
<1>1. ProjectFile(DB, p) = [resolved |-> [i \in facts.imports |-> ResolveImport(DB, i)],
                            targets  |-> UNION {Hits(r) : r \in facts.refs}]
  BY DEF ProjectFile, DB
<1>2. \A r \in facts.refs : \A t \in Hits(r) : t.file \in Present
  BY BindTargetsPresent
<1> HIDE DEF Hits, facts
<1> QED
  BY <1>1, <1>2

LEMMA OwnEdgesPresent ==
  ASSUME NEW p \in Present
  PROVE  \A e \in OwnEdges(DB, p) : /\ {e.src, e.dst} \subseteq Present
                                    /\ e.src # e.dst /\ e.kind # "test_affinity"
<1> DEFINE facts    == DB.files[p].facts
           imported == (UNION {ImportedFiles(DB, i) : i \in facts.imports}) \ {p}
           bound    == (UNION {BindTargets(DB, p, r) : r \in facts.refs}) \ {p}
<1>1. imported \subseteq Present
  BY DEF ImportedFiles, FilesOf, HasPackage, DB, Present
<1>2. bound \subseteq Present
  <2>1. p \in Path
    BY DEF Present
  <2>2. \A r \in facts.refs : BindTargets(DB, p, r) \subseteq Present
    BY <2>1, BindTargetsPresent
  <2> QED
    BY <2>2
<1>3. OwnEdges(DB, p) = {Edge(p, q, "import_out") : q \in imported}
                          \union {Edge(p, q, "ref_def") : q \in bound}
  BY DEF OwnEdges
<1>4. p \notin imported /\ p \notin bound
  OBVIOUS
<1> HIDE DEF imported, bound
<1> QED
  BY <1>1, <1>2, <1>3, <1>4 DEF Edge

(* A test pair is two files of one directory, the source in a package. *)
Paired(e) == e.dst \in AffinityTargets(DB, e.src) \/ e.src \in AffinityTargets(DB, e.dst)

LEMMA AffinityEdgesPresent ==
  ASSUME NEW p \in Present
  PROVE  \A e \in AffinityEdges(DB, p) :
           {e.src, e.dst} \subseteq Present /\ e.src # e.dst /\ Paired(e)
<1>1. AffinityTargets(DB, p) \subseteq Present \ {p}
  BY DEF AffinityTargets, HasPackage, DB, Present
<1> QED
  BY <1>1 DEF AffinityEdges, Edge, Paired

(* The derived tables name rows that are there, and pair as the rule does. *)
DerivedNamesRows ==
  \A p \in Path : derived[p] # None =>
    /\ p \in Present
    /\ DOMAIN derived[p] = {"resolved", "targets"}
    /\ \A t \in derived[p].targets : t.file \in Present

EdgesNameRows == \A e \in edges : /\ {e.src, e.dst} \subseteq Present
                                  /\ e.src # e.dst
                                  /\ e.kind = "test_affinity" => Paired(e)

LEMMA FreshNamesRows ==
  ASSUME derived = FreshDerived(DB), edges = FreshEdges(DB)
  PROVE  DerivedNamesRows /\ EdgesNameRows
<1>1. Packaged(DB) \subseteq Present
  BY DEF Packaged, HasPackage, DB, Present
<1>2. DerivedNamesRows
  <2> SUFFICES ASSUME NEW p \in Path, derived[p] # None
               PROVE  /\ p \in Present
                      /\ DOMAIN derived[p] = {"resolved", "targets"}
                      /\ \A t \in derived[p].targets : t.file \in Present
    BY DEF DerivedNamesRows
  <2>1. HasPackage(DB, p) /\ derived[p] = ProjectFile(DB, p)
    BY DEF FreshDerived
  <2> QED
    BY <1>1, <2>1, ProjectFilePresent DEF Packaged
<1>3. \A e \in FreshOwnEdges(DB) :
        {e.src, e.dst} \subseteq Present /\ e.src # e.dst /\ e.kind # "test_affinity"
  BY <1>1, OwnEdgesPresent DEF FreshOwnEdges
<1>4. \A e \in FreshAffinity(DB) : {e.src, e.dst} \subseteq Present /\ e.src # e.dst /\ Paired(e)
  <2>1. \A t : t \notin AffinityTargets(DB, t)
    BY DEF AffinityTargets
  <2> QED
    BY <1>1, <2>1 DEF FreshAffinity, Edge, Paired
<1> QED
  BY <1>2, <1>3, <1>4 DEF EdgesNameRows, FreshEdges

(* The derive transaction of one package. *)
LEMMA ResolvePackageNamesRows ==
  ASSUME DerivedNamesRows, EdgesNameRows, NEW k, ResolvePackage(k),
         UNCHANGED <<files, packages, manifest>>
  PROVE  DerivedNamesRows' /\ EdgesNameRows'
<1> DEFINE mine == FilesOf(DB, k)
<1>1. mine \subseteq Present /\ Present' = Present /\ DB' = DB
  BY DEF FilesOf, HasPackage, DB, Present
<1>2. derived' = [p \in Path |-> IF p \in mine THEN ProjectFile(DB, p) ELSE derived[p]]
  BY DEF ResolvePackage
<1>3. edges' = {e \in edges : e.src \notin mine}
                 \union UNION {OwnEdges(DB, p) \union AffinityEdges(DB, p) : p \in mine}
  BY DEF ResolvePackage
<1> HIDE DEF mine
<1>4. DerivedNamesRows'
  BY <1>1, <1>2, ProjectFilePresent DEF DerivedNamesRows
<1>5. \A e : Paired(e)' <=> Paired(e)
  BY <1>1 DEF Paired
<1>6. \A e \in edges' : /\ {e.src, e.dst} \subseteq Present /\ e.src # e.dst
                        /\ e.kind = "test_affinity" => Paired(e)
  <2> SUFFICES ASSUME NEW e \in edges'
               PROVE  /\ {e.src, e.dst} \subseteq Present /\ e.src # e.dst
                      /\ e.kind = "test_affinity" => Paired(e)
    OBVIOUS
  <2>1. CASE e \in edges
    BY <2>1 DEF EdgesNameRows
  <2>2. CASE e \notin edges
    <3>1. PICK p \in mine : e \in OwnEdges(DB, p) \/ e \in AffinityEdges(DB, p)
      BY <1>3, <2>2
    <3> QED
      BY <1>1, <3>1, OwnEdgesPresent, AffinityEdgesPresent
  <2> QED
    BY <2>1, <2>2
<1>7. EdgesNameRows'
  <2> SUFFICES ASSUME NEW e \in edges'
               PROVE  /\ {e.src, e.dst} \subseteq Present' /\ e.src # e.dst
                      /\ e.kind = "test_affinity" => Paired(e)'
    BY DEF EdgesNameRows
  <2> QED
    BY <1>1, <1>5, <1>6
<1> QED
  BY <1>4, <1>7
----------------------------------------------------------------------------
(***************************************************************************)
(* What a resolve pass has done so far.                                    *)
(***************************************************************************)
(* todo: the packages still to resolve.                                    *)
(* Files whose package the pass has been through.                          *)
Resolved(todo, p) == HasPackage(DB, p) /\ KeyOf(DB, p) \notin todo
ResolvedFiles(todo) == {p \in Path : Resolved(todo, p)}

(* The pairs the pass leaves behind: the way back of a pair is lost with   *)
(* the source file's own package, if that comes after the test's.          *)
Kept(todo, t, q) == t \in ResolvedFiles(todo) /\ q \in AffinityTargets(DB, t)
KeptBack(todo, t, q) ==
  Kept(todo, t, q) /\ q \in ResolvedFiles(todo) /\ files[q].pkg.rank <= files[t].pkg.rank
ResolvedPair(todo, e) ==
  e.kind = "test_affinity" /\ (Kept(todo, e.src, e.dst) \/ KeptBack(todo, e.dst, e.src))

(* Derived rows and outgoing edges belong to files with a package, and     *)
(* every such package is known.                                            *)
DerivedIsPackaged ==
  /\ derived = [p \in Path |-> derived[p]]
  /\ \A p \in Path : derived[p] # None => HasPackage(DB, p)
  /\ \A e \in edges : HasPackage(DB, e.src)
  /\ KeysInUse(files) \subseteq packages

PassOrder(todo) == todo \subseteq packages
                     /\ \A j \in packages \ todo : \A k \in todo : Before(j, k)
PassRows(todo) == \A p \in ResolvedFiles(todo) : derived[p] = ProjectFile(DB, p)
PassEdges(todo) ==
  \A e \in EdgeRow : e.src \in ResolvedFiles(todo) /\ e.kind # "test_affinity" =>
    (e \in edges <=> e \in OwnEdges(DB, e.src))
PassPairs(todo) ==
  \A e \in EdgeRow : e.src \in ResolvedFiles(todo) /\ e.kind = "test_affinity" =>
    (e \in edges <=> ResolvedPair(todo, e))
PassInv(todo) == PassOrder(todo) /\ PassRows(todo) /\ PassEdges(todo) /\ PassPairs(todo)

LEMMA KeyOfKnown ==
  ASSUME StoreTypeOK, DerivedIsPackaged, NEW p \in Path, HasPackage(DB, p)
  PROVE  KeyOf(DB, p) \in packages /\ KeyOf(DB, p) \in Key
  BY DEF DerivedIsPackaged, KeysInUse, KeyOf, HasPackage, DB, StoreTypeOK

(* Before is a strict order on keys. *)
LEMMA BeforeIsStrict ==
  ASSUME NEW j \in Key, NEW k \in Key, Before(j, k), j.dir = k.dir
  PROVE  j.name.rank < k.name.rank
<1>1. j.dir \in Nat /\ j.name.rank \in Nat /\ k.name.rank \in Nat
  BY PathShape, NameShape DEF Key
<1> QED
  BY <1>1 DEF Before

LEMMA LeastNatural ==
  ASSUME NEW S \in SUBSET Nat, S # {}
  PROVE  \E n \in S : \A m \in S : n <= m
<1>1. PICK n \in S : \A m \in S : ~(<<m, n>> \in OpToRel(<, Nat))
  BY WFMin, NatLessThanWellFounded, Zenon
<1>2. \A m \in S : ~(m < n)
  BY <1>1 DEF OpToRel
<1> QED
  BY <1>2

(* Some package comes first in the order packages are resolved in, of any  *)
(* there are to resolve: the pass is never stuck.                          *)
LEMMA FirstKey ==
  ASSUME NEW keys \in SUBSET Key, keys # {}
  PROVE  \E k \in keys : IsFirst(k, keys)
<1>1. \A k \in Key : k.dir \in Nat /\ k.name \in PackageName /\ k.name.rank \in Nat
  BY PathShape, NameShape DEF Key
<1>2. PICK d \in {k.dir : k \in keys} : \A e \in {k.dir : k \in keys} : d <= e
  <2>1. {k.dir : k \in keys} \in SUBSET Nat /\ {k.dir : k \in keys} # {}
    BY <1>1
  <2> QED
    BY <2>1, LeastNatural
<1> DEFINE lowest == {k \in keys : k.dir = d}
           ranks  == {k.name.rank : k \in lowest}
<1>3. PICK r \in ranks : \A q \in ranks : r <= q
  <2>1. ranks \in SUBSET Nat /\ ranks # {}
    BY <1>1, <1>2
  <2> HIDE DEF ranks
  <2> QED
    BY <2>1, LeastNatural
<1>4. PICK k \in lowest : k.name.rank = r
  BY <1>3
<1>5. ASSUME NEW j \in keys, j # k PROVE Before(k, j)
  <2>1. CASE j.dir # d
    <3>1. d <= j.dir
      BY <1>2
    <3> QED
      BY <1>1, <1>4, <2>1, <3>1 DEF Before
  <2>2. CASE j.dir = d
    <3>1. r <= j.name.rank
      BY <1>3, <2>2
    <3>2. j.name.rank # r
      BY <1>1, <1>4, <1>5, <2>2, NameShape DEF Key
    <3> QED
      BY <1>1, <1>4, <2>2, <3>1, <3>2 DEF Before
  <2> QED
    BY <2>1, <2>2
<1> QED
  BY <1>4, <1>5 DEF IsFirst

LEMMA OwnEdgesKind ==
  ASSUME NEW p, NEW e \in OwnEdges(DB, p)
  PROVE  e.src = p /\ e.kind # "test_affinity"
  BY DEF OwnEdges, Edge

LEMMA AffinityEdgesPair ==
  ASSUME NEW p, NEW e \in EdgeRow
  PROVE  e \in AffinityEdges(DB, p) <=>
           /\ e.kind = "test_affinity"
           /\ \/ e.src = p /\ e.dst \in AffinityTargets(DB, p)
              \/ e.dst = p /\ e.src \in AffinityTargets(DB, p)
<1>1. e = Edge(e.src, e.dst, e.kind)
  BY DEF EdgeRow, Edge
<1> QED
  BY <1>1 DEF AffinityEdges, Edge

(* A pass that has been through every package leaves the rows and edges    *)
(* the whole of the facts gives, in whatever order it went.                *)
LEMMA ProjectionDone ==
  ASSUME StoreTypeOK, DerivedIsPackaged, PassRows({}), PassEdges({})
  PROVE  ProjectionCurrent
<1>1. ResolvedFiles({}) = Packaged(DB)
  BY DEF ResolvedFiles, Resolved, Packaged
<1>2. edges \subseteq EdgeRow /\ \A e \in edges : e.src \in ResolvedFiles({})
  BY <1>1 DEF StoreTypeOK, EdgeRow, DerivedIsPackaged, Packaged
<1>3. derived = FreshDerived(DB)
  BY <1>1 DEF FreshDerived, DerivedIsPackaged, PassRows, Packaged
<1>4. FreshOwnEdges(DB) \subseteq EdgeRow
  BY OwnEdgesType DEF FreshOwnEdges, Packaged
<1>5. {e \in edges : e.kind # "test_affinity"} = FreshOwnEdges(DB)
  <2>1. ASSUME NEW e \in edges, e.kind # "test_affinity"
        PROVE  e \in FreshOwnEdges(DB)
    BY <1>1, <1>2, <2>1 DEF PassEdges, FreshOwnEdges
  <2>2. ASSUME NEW e \in FreshOwnEdges(DB)
        PROVE  e \in edges /\ e.kind # "test_affinity"
    <3>1. PICK p \in Packaged(DB) : e \in OwnEdges(DB, p)
      BY DEF FreshOwnEdges
    <3>2. e.src = p /\ e.kind # "test_affinity" /\ e \in EdgeRow
      BY <1>4, <3>1, OwnEdgesKind
    <3> QED
      BY <1>1, <3>1, <3>2 DEF PassEdges
  <2> QED
    BY <2>1, <2>2
<1> QED
  BY <1>3, <1>5 DEF ProjectionCurrent

(* In (dir, name) order, it leaves the test pairs too. *)
LEMMA PassDone ==
  ASSUME StoreTypeOK, DerivedIsPackaged, NEW todo, PassInv(todo), todo = {}
  PROVE  ProjectionCurrent /\ AffinityCurrent
<1>1. ResolvedFiles(todo) = Packaged(DB)
  BY DEF ResolvedFiles, Resolved, Packaged
<1>2. edges \subseteq EdgeRow /\ \A e \in edges : e.src \in ResolvedFiles(todo)
  BY <1>1 DEF StoreTypeOK, EdgeRow, DerivedIsPackaged, Packaged
<1>3. ProjectionCurrent
  BY ProjectionDone DEF PassInv
<1>4. \A e \in EdgeRow : e \in FreshAffinity(DB) <=> ResolvedPair(todo, e)
  <2> SUFFICES ASSUME NEW e \in EdgeRow
               PROVE  e \in FreshAffinity(DB) <=> ResolvedPair(todo, e)
    OBVIOUS
  <2>1. e = Edge(e.src, e.dst, e.kind) /\ e.src \in Path /\ e.dst \in Path
    BY DEF EdgeRow, Edge
  <2>2. \A t : AffinityTargets(DB, t) \subseteq Packaged(DB)
    BY DEF AffinityTargets, Packaged
  <2> DEFINE tests(q) == {t \in Packaged(DB) : q \in AffinityTargets(DB, t)}
             to(q)   == {Edge(t, q, "test_affinity") : t \in tests(q)}
             back(q) == {Edge(q, t, "test_affinity") :
                           t \in {u \in tests(q) : files[q].pkg.rank <= files[u].pkg.rank}}
  <2>3. FreshAffinity(DB) = UNION {to(q) \union back(q) : q \in Packaged(DB)}
    BY DEF FreshAffinity, DB
  <2>4. ASSUME NEW q
        PROVE  e \in to(q) <=> /\ e.kind = "test_affinity" /\ e.dst = q
                               /\ e.src \in tests(q)
    BY <2>1 DEF Edge
  <2>5. ASSUME NEW q
        PROVE  e \in back(q) <=> /\ e.kind = "test_affinity" /\ e.src = q
                                 /\ e.dst \in tests(q)
                                 /\ files[q].pkg.rank <= files[e.dst].pkg.rank
    BY <2>1 DEF Edge
  <2> HIDE DEF to, back
  <2>6. e \in FreshAffinity(DB) <=> \E q \in Packaged(DB) : e \in to(q) \/ e \in back(q)
    BY <2>3
  <2> QED
    BY <1>1, <2>2, <2>4, <2>5, <2>6 DEF ResolvedPair, Kept, KeptBack
<1>5. FreshAffinity(DB) \subseteq EdgeRow
  BY EdgeType DEF FreshAffinity, Packaged, EdgeKind
<1>6. AffinityCurrent
  <2>1. \A e \in FreshAffinity(DB) : e.kind = "test_affinity" /\ e.src \in ResolvedFiles(todo)
    BY <1>4, <1>5 DEF ResolvedPair, Kept, KeptBack
  <2> QED
    BY <1>2, <1>4, <1>5, <2>1 DEF AffinityCurrent, PassInv, PassPairs
<1> QED
  BY <1>3, <1>6

(* The derived tables of a finished build are current, and current tables  *)
(* of a published index are those of a finished build.                     *)
LEMMA CurrentKinds ==
  ASSUME NEW e
  PROVE  /\ e \in FreshOwnEdges(DB) => e.kind # "test_affinity"
         /\ e \in FreshAffinity(DB) => e.kind = "test_affinity"
<1>1. e \in FreshOwnEdges(DB) => e.kind # "test_affinity"
  BY OwnEdgesKind DEF FreshOwnEdges
<1>2. e \in FreshAffinity(DB) => e.kind = "test_affinity"
  BY DEF FreshAffinity, Edge
<1> QED
  BY <1>1, <1>2

LEMMA FinishedIsCurrent == ASSUME Finished PROVE ProjectionCurrent /\ AffinityCurrent
  BY CurrentKinds DEF Finished, FreshEdges, ProjectionCurrent, AffinityCurrent

LEMMA CurrentIsFinished ==
  ASSUME StoreTypeOK, ProjectionCurrent, AffinityCurrent, indexState = "ready",
         snapshot = SnapshotOf(files), ~marker
  PROVE  Finished
<1>1. edges = FreshEdges(DB)
  BY DEF FreshEdges, ProjectionCurrent, AffinityCurrent
<1>2. marker = FALSE
  BY DEF StoreTypeOK
<1> QED
  BY <1>1, <1>2 DEF Finished, ProjectionCurrent

(* Resolving a package gives derived rows and edges to packaged files. *)
LEMMA ResolveKeepsPackaged ==
  ASSUME DerivedIsPackaged, NEW k, ResolvePackage(k), UNCHANGED <<files, packages, manifest>>
  PROVE  DerivedIsPackaged'
<1> DEFINE mine == FilesOf(DB, k)
<1>1. DB' = DB
  BY DEF DB
<1>2. \A p \in mine : p \in Path /\ HasPackage(DB, p)
  BY DEF FilesOf
<1>3. derived' = [p \in Path |-> IF p \in mine THEN ProjectFile(DB, p) ELSE derived[p]]
  BY DEF ResolvePackage
<1>4. edges' = {e \in edges : e.src \notin mine}
                 \union UNION {OwnEdges(DB, p) \union AffinityEdges(DB, p) : p \in mine}
  BY DEF ResolvePackage
<1> HIDE DEF mine
<1>5. derived' = [p \in Path |-> derived'[p]]
  BY <1>3
<1>6. \A p \in Path : derived'[p] # None => HasPackage(DB, p)
  BY <1>2, <1>3 DEF DerivedIsPackaged
<1>7. ASSUME NEW e \in edges'
      PROVE  HasPackage(DB, e.src)
  <2>1. CASE e \in edges
    BY <2>1 DEF DerivedIsPackaged
  <2>2. CASE e \notin edges
    <3>1. PICK p \in mine : e \in OwnEdges(DB, p) \/ e \in AffinityEdges(DB, p)
      BY <1>4, <2>2
    <3>2. CASE e \in OwnEdges(DB, p)
      BY <1>2, <3>2, OwnEdgesKind
    <3>3. CASE e \in AffinityEdges(DB, p)
      BY <1>2, <3>3 DEF AffinityEdges, AffinityTargets, Edge
    <3> QED
      BY <3>1, <3>2, <3>3
  <2> QED
    BY <2>1, <2>2
<1> QED
  BY <1>1, <1>5, <1>6, <1>7 DEF DerivedIsPackaged, KeysInUse

(* One more package: its rows and edges are those of the facts, and the    *)
(* others are left as they were, whatever the order.                       *)
LEMMA ProjectionStep ==
  ASSUME NEW todo, PassRows(todo), PassEdges(todo),
         NEW k \in todo, ResolvePackage(k), NEW rest, rest = todo \ {k},
         UNCHANGED <<files, packages, manifest>>
  PROVE  PassRows(rest)' /\ PassEdges(rest)'
<1> DEFINE mine == FilesOf(DB, k)
<1>1. DB' = DB
  BY DEF DB
<1>2. \A p \in mine : p \in Path /\ HasPackage(DB, p) /\ KeyOf(DB, p) = k
  BY DEF FilesOf
<1>3. derived' = [p \in Path |-> IF p \in mine THEN ProjectFile(DB, p) ELSE derived[p]]
  BY DEF ResolvePackage
<1>4. edges' = {e \in edges : e.src \notin mine}
                 \union UNION {OwnEdges(DB, p) \union AffinityEdges(DB, p) : p \in mine}
  BY DEF ResolvePackage
<1>5. ResolvedFiles(rest)' = ResolvedFiles(todo) \union mine /\ ResolvedFiles(todo) \intersect mine = {}
  BY <1>1 DEF ResolvedFiles, Resolved, FilesOf
<1> HIDE DEF mine
<1>6. PassRows(rest)'
  BY <1>1, <1>2, <1>3, <1>5 DEF PassRows, ResolvedFiles
<1>7. PassEdges(rest)'
  <2> SUFFICES ASSUME NEW e \in EdgeRow, e.src \in ResolvedFiles(rest)', e.kind # "test_affinity"
               PROVE  e \in edges' <=> e \in OwnEdges(DB, e.src)
    BY <1>1 DEF PassEdges
  <2>1. \A p \in mine : e \notin AffinityEdges(DB, p)
    BY AffinityEdgesPair
  <2>2. e \in edges' <=> \/ e \in edges /\ e.src \notin mine
                         \/ \E p \in mine : e \in OwnEdges(DB, p)
    BY <1>4, <2>1
  <2>3. (\E p \in mine : e \in OwnEdges(DB, p)) <=> e.src \in mine /\ e \in OwnEdges(DB, e.src)
    BY OwnEdgesKind
  <2> QED
    BY <1>5, <2>2, <2>3 DEF PassEdges
<1> QED
  BY <1>6, <1>7

(* In order, the test pairs that stand are those the order lets stand. *)
LEMMA PassStep ==
  ASSUME StoreTypeOK, DerivedIsPackaged, NEW todo, PassInv(todo),
         NEW k \in todo, IsFirst(k, todo), ResolvePackage(k), NEW rest, rest = todo \ {k},
         UNCHANGED <<files, packages, manifest>>
  PROVE  PassInv(rest)'
<1> DEFINE mine == FilesOf(DB, k)
<1>1. DB' = DB
  BY DEF DB
<1>2. \A p \in mine : p \in Path /\ HasPackage(DB, p) /\ KeyOf(DB, p) = k
  BY DEF FilesOf
<1>3. derived' = [p \in Path |-> IF p \in mine THEN ProjectFile(DB, p) ELSE derived[p]]
  BY DEF ResolvePackage
<1>4. edges' = {e \in edges : e.src \notin mine}
                 \union UNION {OwnEdges(DB, p) \union AffinityEdges(DB, p) : p \in mine}
  BY DEF ResolvePackage
<1>5. ResolvedFiles(rest)' = ResolvedFiles(todo) \union mine /\ ResolvedFiles(todo) \intersect mine = {}
  BY <1>1 DEF ResolvedFiles, Resolved, FilesOf
<1> HIDE DEF mine
<1>6. PassOrder(rest)'
  BY DEF PassInv, PassOrder, IsFirst
<1>7. PassRows(rest)' /\ PassEdges(rest)'
  BY ProjectionStep DEF PassInv
<1>8. PassPairs(rest)'
  <2> SUFFICES ASSUME NEW e \in EdgeRow, e.src \in ResolvedFiles(rest)', e.kind = "test_affinity"
               PROVE  e \in edges' <=> ResolvedPair(rest, e)'
    BY DEF PassPairs
  <2>1. \A p \in mine : e \notin OwnEdges(DB, p)
    BY OwnEdgesKind
  <2>2. e \in edges' <=> \/ e \in edges /\ e.src \notin mine
                         \/ \E p \in mine : e \in AffinityEdges(DB, p)
    BY <1>4, <2>1
  <2>3. (\E p \in mine : e \in AffinityEdges(DB, p))
          <=> \/ e.src \in mine /\ e.dst \in AffinityTargets(DB, e.src)
              \/ e.dst \in mine /\ e.src \in AffinityTargets(DB, e.dst)
    BY AffinityEdgesPair
  <2>4. ResolvedPair(rest, e)' <=>
          \/ e.src \in ResolvedFiles(todo) \union mine /\ e.dst \in AffinityTargets(DB, e.src)
          \/ /\ e.dst \in ResolvedFiles(todo) \union mine /\ e.src \in AffinityTargets(DB, e.dst)
             /\ files[e.src].pkg.rank <= files[e.dst].pkg.rank
    BY <1>1, <1>5 DEF ResolvedPair, Kept, KeptBack
  <2>5. ResolvedPair(todo, e) <=>
          \/ e.src \in ResolvedFiles(todo) /\ e.dst \in AffinityTargets(DB, e.src)
          \/ /\ e.dst \in ResolvedFiles(todo) /\ e.src \in AffinityTargets(DB, e.dst)
             /\ e.src \in ResolvedFiles(todo)
             /\ files[e.src].pkg.rank <= files[e.dst].pkg.rank
    BY DEF ResolvedPair, Kept, KeptBack
  <2>6. e.src \notin mine => (e \in edges <=> ResolvedPair(todo, e))
    BY <1>5 DEF PassInv, PassPairs
  (* The package of a resolved file comes before k, in one directory by    *)
  (* the rank of its name.                                                 *)
  <2>7. ASSUME NEW p \in ResolvedFiles(todo), NEW q \in mine, p.dir = q.dir
        PROVE  /\ files[p].pkg.rank <= files[q].pkg.rank
               /\ ~(files[q].pkg.rank <= files[p].pkg.rank)
    <3>1. /\ p \in Path /\ HasPackage(DB, p) /\ KeyOf(DB, p) \notin todo
          /\ q \in Path /\ KeyOf(DB, q) = k
      BY <1>2 DEF ResolvedFiles, Resolved
    <3>2. KeyOf(DB, p) \in packages /\ KeyOf(DB, p) \in Key /\ k \in Key
      BY <3>1, KeyOfKnown DEF StoreTypeOK, PassInv, PassOrder
    <3>3. Before(KeyOf(DB, p), k)
      BY <3>1, <3>2 DEF PassInv, PassOrder
    <3>4. /\ KeyOf(DB, p).name = files[p].pkg /\ k.name = files[q].pkg
          /\ KeyOf(DB, p).dir = p.dir /\ k.dir = q.dir
      BY <3>1 DEF KeyOf, DB
    <3>5. files[p].pkg.rank \in Nat /\ files[q].pkg.rank \in Nat
      BY <3>2, <3>4, NameShape DEF Key
    <3>6. KeyOf(DB, p).name.rank < k.name.rank
      BY <2>7, <3>2, <3>3, <3>4, BeforeIsStrict
    <3> QED
      BY <3>4, <3>5, <3>6
  <2>8. ASSUME NEW p \in mine, NEW q \in mine
        PROVE  files[p].pkg.rank <= files[q].pkg.rank
    <3>1. files[p].pkg = k.name /\ files[q].pkg = k.name /\ k \in Key
      BY <1>2 DEF KeyOf, DB, StoreTypeOK, PassInv, PassOrder
    <3>2. k.name.rank \in Nat
      BY <3>1, NameShape DEF Key
    <3> QED
      BY <3>1, <3>2
  <2>9. e.src \in AffinityTargets(DB, e.dst) => e.src.dir = e.dst.dir
    BY DEF AffinityTargets
  <2>10. CASE e.src \in mine
    <3>1. e.src \notin ResolvedFiles(todo)
      BY <1>5, <2>10
    <3> QED
      BY <2>2, <2>3, <2>4, <2>7, <2>8, <2>9, <2>10, <3>1
  <2>11. CASE e.src \notin mine
    <3>1. e.src \in ResolvedFiles(todo)
      BY <1>5, <2>11
    <3> QED
      BY <2>2, <2>3, <2>4, <2>5, <2>6, <2>7, <2>9, <2>11, <3>1
  <2> QED
    BY <2>10, <2>11
<1> QED
  BY <1>6, <1>7, <1>8 DEF PassInv

(* No package is resolved yet. *)
LEMMA PassStart ==
  ASSUME DerivedIsPackaged, UNCHANGED <<files, packages, manifest, derived, edges>>
  PROVE  DerivedIsPackaged' /\ PassInv(packages)'
<1>1. DB' = DB
  BY DEF DB
<1>2. DerivedIsPackaged'
  BY <1>1 DEF DerivedIsPackaged, KeysInUse
<1>3. ResolvedFiles(packages) = {}
  BY DEF ResolvedFiles, Resolved, DerivedIsPackaged, KeysInUse, KeyOf, HasPackage, DB
<1>4. ResolvedFiles(packages)' = {}
  BY <1>1, <1>3 DEF ResolvedFiles, Resolved
<1> QED
  BY <1>2, <1>4 DEF PassInv, PassOrder, PassRows, PassEdges, PassPairs

(* A pass goes on over tables nobody touches. *)
LEMMA PassKept ==
  ASSUME UNCHANGED <<files, packages, manifest, derived, edges>>
  PROVE  /\ DerivedIsPackaged => DerivedIsPackaged'
         /\ \A todo : PassInv(todo) => PassInv(todo)'
<1>1. DB' = DB
  BY DEF DB
<1>2. DerivedIsPackaged => DerivedIsPackaged'
  BY <1>1 DEF DerivedIsPackaged, KeysInUse
<1>3. ASSUME NEW todo, PassInv(todo)
      PROVE  PassInv(todo)'
  BY <1>1, <1>3 DEF PassInv, PassOrder, PassRows, PassEdges, PassPairs, ResolvedFiles, Resolved,
                    ResolvedPair, Kept, KeptBack
<1> QED
  BY <1>2, <1>3
----------------------------------------------------------------------------
(***************************************************************************)
(* What the projection of a file depends on: the packages there are, the   *)
(* manifest, and the files of its own package and of those it imports.     *)
(***************************************************************************)
(* A file of a package was read, and its row has what was read. *)
PackagedHaveFacts == \A p \in Path : HasPackage(DB, p) => files[p].facts \in Text

(* The package has the same files, with the same rows. *)
SameFiles(db0, db1, k) ==
  /\ FilesOf(db1, k) = FilesOf(db0, k)
  /\ \A q \in FilesOf(db0, k) : db1.files[q] = db0.files[q]

(* The package an import binds. *)
ImportedKey(db, i) == [dir |-> i.dir, name |-> NonTestPackage(db, i.dir)]

(* An import that binds a package. *)
Binds(db, i) ==
  ResolveImport(db, i).outcome = "resolved" /\ NonTestPackage(db, i.dir) # None

LEMMA ImportedFilesOf ==
  ASSUME NEW db, NEW i
  PROVE  /\ ~Binds(db, i) => ImportedFiles(db, i) = {}
         /\ Binds(db, i) => ImportedFiles(db, i) =
                              {q \in FilesOf(db, ImportedKey(db, i)) : q.kind # "test"}
  BY DEF ImportedFiles, Binds, ImportedKey

LEMMA SameResolution ==
  ASSUME NEW db0, NEW db1, db1.packages = db0.packages, db1.manifest = db0.manifest, NEW i
  PROVE  /\ ResolveImport(db1, i) = ResolveImport(db0, i)
         /\ ImportedKey(db1, i) = ImportedKey(db0, i)
         /\ Binds(db1, i) <=> Binds(db0, i)
<1>1. \A d : NamesIn(db1, d) = NamesIn(db0, d)
  BY DEF NamesIn
<1>2. NonTestPackage(db1, i.dir) = NonTestPackage(db0, i.dir)
  <2> DEFINE Eligible(names) == {n \in names : n.kind # "test"}
             Library(names)  == {n \in Eligible(names) : n.kind # "main"}
             Best(names)     == IF Library(names) # {} THEN Library(names) ELSE Eligible(names)
             First(names)    == IF Best(names) = {} THEN None
                                ELSE CHOOSE n \in Best(names) :
                                       \A m \in Best(names) : n.rank <= m.rank
  <2>1. \A db : NonTestPackage(db, i.dir) = First(NamesIn(db, i.dir))
    BY DEF NonTestPackage
  <2> HIDE DEF First
  <2> QED
    BY <1>1, <2>1
<1>3. ModulePath(db1) = ModulePath(db0)
  BY DEF ModulePath
<1>4. ResolveImport(db1, i) = ResolveImport(db0, i)
  BY <1>1, <1>3 DEF ResolveImport
<1> QED
  BY <1>2, <1>4 DEF ImportedKey, Binds

LEMMA SameProjection ==
  ASSUME NEW db0, NEW db1, db1.packages = db0.packages, db1.manifest = db0.manifest,
         NEW p \in Path, db1.files[p] = db0.files[p], db0.files[p].facts \in Text,
         SameFiles(db0, db1, KeyOf(db0, p)),
         \A i \in db0.files[p].facts.imports :
            Binds(db0, i) => SameFiles(db0, db1, ImportedKey(db0, i))
  PROVE  ProjectFile(db1, p) = ProjectFile(db0, p) /\ OwnEdges(db1, p) = OwnEdges(db0, p)
<1> DEFINE facts == db0.files[p].facts
<1>1. ASSUME NEW i \in facts.imports
      PROVE  /\ ResolveImport(db1, i) = ResolveImport(db0, i)
             /\ ImportedFiles(db1, i) = ImportedFiles(db0, i)
             /\ \A q \in ImportedFiles(db0, i) : db1.files[q] = db0.files[q]
  <2>1. /\ ResolveImport(db1, i) = ResolveImport(db0, i)
        /\ ImportedKey(db1, i) = ImportedKey(db0, i)
        /\ Binds(db1, i) <=> Binds(db0, i)
    BY SameResolution
  <2>2. CASE Binds(db0, i)
    <3>1. SameFiles(db0, db1, ImportedKey(db0, i))
      BY <2>2
    <3> QED
      BY <2>1, <2>2, <3>1, ImportedFilesOf DEF SameFiles
  <2>3. CASE ~Binds(db0, i)
    BY <2>1, <2>3, ImportedFilesOf
  <2> QED
    BY <2>1, <2>2, <2>3
<1>2. KeyOf(db1, p) = KeyOf(db0, p)
  BY DEF KeyOf
<1>3. \A name : OwnHits(db1, p, name) = OwnHits(db0, p, name)
  BY <1>2 DEF OwnHits, SameFiles
<1>4. \A i \in facts.imports : \A name : QualifiedHits(db1, i, name) = QualifiedHits(db0, i, name)
  BY <1>1 DEF QualifiedHits
<1>5. \A r \in facts.refs : r.via \in facts.imports \union {None}
  BY TextShape
<1>6. \A r \in facts.refs : BindTargets(db1, p, r) = BindTargets(db0, p, r)
  BY <1>3, <1>4, <1>5 DEF BindTargets
<1>7. db1.files[p].facts = facts
  OBVIOUS
<1> HIDE DEF facts
<1>8. ProjectFile(db1, p) = ProjectFile(db0, p)
  <2>1. [i \in facts.imports |-> ResolveImport(db1, i)] = [i \in facts.imports |-> ResolveImport(db0, i)]
    BY <1>1
  <2>2. UNION {{[ref |-> r, file |-> q] : q \in BindTargets(db1, p, r)} : r \in facts.refs}
          = UNION {{[ref |-> r, file |-> q] : q \in BindTargets(db0, p, r)} : r \in facts.refs}
    BY <1>6
  <2> QED
    BY <1>7, <2>1, <2>2 DEF ProjectFile, facts
<1>9. OwnEdges(db1, p) = OwnEdges(db0, p)
  <2> DEFINE imported(db) == (UNION {ImportedFiles(db, i) : i \in facts.imports}) \ {p}
             bound(db)    == (UNION {BindTargets(db, p, r) : r \in facts.refs}) \ {p}
  <2>1. imported(db1) = imported(db0)
    BY <1>1
  <2>2. bound(db1) = bound(db0)
    BY <1>6
  <2>3. ASSUME NEW db, db.files[p].facts = facts
        PROVE  OwnEdges(db, p) = {Edge(p, q, "import_out") : q \in imported(db)}
                                   \union {Edge(p, q, "ref_def") : q \in bound(db)}
    BY <2>3 DEF OwnEdges
  <2>4. db0.files[p].facts = facts
    BY DEF facts
  <2> HIDE DEF imported, bound
  <2> QED
    BY <1>7, <2>1, <2>2, <2>3, <2>4
<1> QED
  BY <1>8, <1>9

(* A file a file binds to or has an edge to is in its own package or in one*)
(* it imports.                                                             *)
LEMMA ReachedFiles ==
  ASSUME NEW db, NEW p \in Path, db.files[p].facts \in Text, NEW q,
         \/ \E r \in db.files[p].facts.refs : q \in BindTargets(db, p, r)
         \/ \E i \in db.files[p].facts.imports : q \in ImportedFiles(db, i)
  PROVE  \/ q \in FilesOf(db, KeyOf(db, p))
         \/ \E i \in db.files[p].facts.imports : Binds(db, i) /\ q \in FilesOf(db, ImportedKey(db, i))
<1>1. ASSUME NEW i, q \in ImportedFiles(db, i)
      PROVE  Binds(db, i) /\ q \in FilesOf(db, ImportedKey(db, i))
  BY <1>1, ImportedFilesOf
<1>2. ASSUME NEW r \in db.files[p].facts.refs, q \in BindTargets(db, p, r)
      PROVE  \/ q \in FilesOf(db, KeyOf(db, p))
             \/ r.via \in db.files[p].facts.imports /\ q \in ImportedFiles(db, r.via)
  <2>1. r.via \in db.files[p].facts.imports \union {None}
    BY TextShape
  <2> QED
    BY <1>2, <2>1 DEF BindTargets, OwnHits, QualifiedHits
<1> QED
  BY <1>1, <1>2

LEMMA ProjectFileTargets ==
  ASSUME NEW db, NEW p
  PROVE  /\ ProjectFile(db, p) = [resolved |-> ProjectFile(db, p).resolved,
                                  targets  |-> ProjectFile(db, p).targets]
         /\ DOMAIN ProjectFile(db, p).resolved = db.files[p].facts.imports
         /\ \A i \in db.files[p].facts.imports : ProjectFile(db, p).resolved[i] = ResolveImport(db, i)
         /\ \A t \in ProjectFile(db, p).targets :
              \E r \in db.files[p].facts.refs : t.ref = r /\ t.file \in BindTargets(db, p, r)
<1> DEFINE facts == db.files[p].facts
           Hits(r) == {[ref |-> r, file |-> q] : q \in BindTargets(db, p, r)}
           res == [i \in facts.imports |-> ResolveImport(db, i)]
           tgt == UNION {Hits(r) : r \in facts.refs}
<1>1. ProjectFile(db, p) = [resolved |-> res, targets |-> tgt]
  BY DEF ProjectFile
<1>2. \A t \in tgt : \E r \in facts.refs : t.ref = r /\ t.file \in BindTargets(db, p, r)
  OBVIOUS
<1>3. DOMAIN res = facts.imports /\ \A i \in facts.imports : res[i] = ResolveImport(db, i)
  OBVIOUS
<1> HIDE DEF res, tgt
<1> QED
  BY <1>1, <1>2, <1>3

(* An edge of a file leads to a file it imports or binds to. *)
LEMMA OwnEdgesReach ==
  ASSUME NEW db, NEW p, NEW e \in OwnEdges(db, p)
  PROVE  \/ \E r \in db.files[p].facts.refs : e.dst \in BindTargets(db, p, r)
         \/ \E i \in db.files[p].facts.imports : e.dst \in ImportedFiles(db, i)
  BY DEF OwnEdges, Edge

(* The derived rows of a file are no missing row. *)
LEMMA ProjectFileType ==
  ASSUME NEW db, NEW p, db.files[p].facts \in Text
  PROVE  ProjectFile(db, p) \in Projection /\ ProjectFile(db, p) # None
<1> DEFINE facts == db.files[p].facts
<1>1. ASSUME NEW i \in facts.imports
      PROVE  ResolveImport(db, i) \in ImportOutcome
  <2>1. i \in Imports
    BY DEF Imports
  <2> QED
    BY <2>1 DEF ResolveImport, ImportOutcome
<1>2. ProjectFile(db, p).resolved \in [facts.imports -> ImportOutcome]
  <2>1. ProjectFile(db, p).resolved = [i \in facts.imports |-> ResolveImport(db, i)]
    BY DEF ProjectFile
  <2> QED
    BY <1>1, <2>1
<1>3. ProjectFile(db, p).targets \in SUBSET [ref : Refs, file : Path]
  <2>1. ASSUME NEW r \in facts.refs, NEW q \in BindTargets(db, p, r)
        PROVE  [ref |-> r, file |-> q] \in [ref : Refs, file : Path]
    BY BindTargetsType DEF Refs
  <2>2. ProjectFile(db, p).targets =
          UNION {{[ref |-> r, file |-> q] : q \in BindTargets(db, p, r)} : r \in facts.refs}
    BY DEF ProjectFile
  <2> QED
    BY <2>1, <2>2
<1>4. ProjectFile(db, p) \in Projection
  <2>1. ProjectFile(db, p).resolved \in UNION {[t.imports -> ImportOutcome] : t \in Text}
    BY <1>2
  <2> HIDE DEF facts
  <2> QED
    BY <1>3, <2>1, ProjectFileTargets DEF Projection
<1> QED
  BY <1>4, NoneIsNoProjection
----------------------------------------------------------------------------
(***************************************************************************)
(* What the doctor asks of the derived tables.                             *)
(***************************************************************************)
(* Files of packages that are not to be resolved any more have their rows. *)
RowsDerived(todo) == \A p \in ResolvedFiles(todo) : derived[p] # None

LEMMA SnapshotIsNot == ASSUME StoreTypeOK PROVE SnapshotOf(files) # None
<1> DEFINE present == {q \in Path : files[q] # None}
<1>1. \A q \in present : files[q].hash \in Text \union {None}
  BY DEF StoreTypeOK, FileRow
<1>2. SnapshotOf(files) \in [present -> Text \union {None}]
  BY <1>1 DEF SnapshotOf
<1>3. present \in SUBSET Path
  OBVIOUS
<1> HIDE DEF present
<1> QED
  BY <1>2, <1>3, NoneIsNoSnapshot

(* One cause per diagnosis: no row is left dangling, the id is there, the  *)
(* rows pass their CHECK, no edge is a loop and no file lacks its rows.    *)
LEMMA Healthy ==
  ASSUME StoreTypeOK, DerivedNamesRows, EdgesNameRows, KeysInUse(files) \subseteq packages,
         snapshot = SnapshotOf(files), RowsDerived({}), indexState = "ready", ~marker
  PROVE  Check \subseteq {Warning("PARSE_ANOMALIES")}
<1>1. CheckForeignKeys = {}
  <2>1. DanglingPackages = {}
    BY DEF DanglingPackages, HasPackage, KeyOf, DB, KeysInUse
  <2>2. DanglingDerived = {} /\ DanglingTargets = {} /\ DanglingEdges = {}
    BY DEF DanglingDerived, DanglingTargets, DanglingEdges, DerivedNamesRows, EdgesNameRows
  <2> QED
    BY <2>1, <2>2 DEF CheckForeignKeys, When
<1>2. CheckMeta = {}
  BY SnapshotIsNot DEF CheckMeta, When
<1>3. CheckReferentialIntegrity = {}
  <2>1. \A p \in Present : FilesCheck(files[p])
    BY DEF Present, StoreTypeOK, FileRow
  <2>2. DanglingTargets = {} /\ DanglingEdges = {} /\ SelfEdges = {}
    BY DEF DanglingTargets, DanglingEdges, SelfEdges, DerivedNamesRows, EdgesNameRows
  <2> QED
    BY <2>1, <2>2 DEF CheckReferentialIntegrity, When
<1>4. CheckProjection = {}
  <2>1. \A p \in PackageFiles : derived[p] # None
    BY DEF PackageFiles, RowsDerived, ResolvedFiles, Resolved
  <2> QED
    BY <2>1 DEF CheckProjection, When
<1>5. CheckHealth \subseteq {Warning("PARSE_ANOMALIES")}
  BY DEF CheckHealth, When
<1> QED
  BY <1>1, <1>2, <1>3, <1>4, <1>5 DEF Check
=============================================================================
