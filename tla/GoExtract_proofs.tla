-------------------------- MODULE GoExtract_proofs --------------------------
(***************************************************************************)
(* What extraction makes of a file, for every syntax tree and in whatever  *)
(* order the matches of a query come.                                      *)
(***************************************************************************)
EXTENDS GoExtract, FiniteSetTheorems, WellFoundedInduction, TLAPS

(* The shape of a node, for the proofs that need no more of the tree.      *)
LEMMA TreeIs ==
  ASSUME NEW t \in Source
  PROVE  /\ Len(t) \in Nat /\ Len(t) >= 1 /\ DOMAIN t = 1..Len(t)
         /\ t[1].parent = 0
         /\ \A k \in 1..Len(t) : t[k].parent \in Nat /\ t[k].row \in Nat /\ t[k].parent < k
         /\ \A k \in 1..Len(t) : k > 1 => t[k].parent \in 1..(k - 1)
         /\ \A j, k \in 1..Len(t) : j <= k => t[j].row <= t[k].row
<1> DEFINE R == [kind : STRING, parent : Nat, field : STRING, text : STRING, row : Nat]
<1>1. Len(t) >= 1 /\ t \in Seq(R)
  BY TreeShape
<1>2. Len(t) \in Nat /\ Len(t) >= 1 /\ DOMAIN t = 1..Len(t)
  <2> HIDE DEF R
  <2> QED
    BY <1>1
<1>3. \A k \in 1..Len(t) : t[k] \in R
  <2> HIDE DEF R
  <2> QED
    BY <1>1
<1>4. \A k \in 1..Len(t) : t[k].parent \in Nat /\ t[k].row \in Nat
  BY <1>3
<1>5. t[1].parent = 0 /\ \A k \in 2..Len(t) : t[k].parent \in 1..(k - 1)
  BY TreeShape
<1>6. \A k \in 1..Len(t) : k > 1 => t[k].parent \in 1..(k - 1)
  BY <1>2, <1>5
<1>7. \A k \in 1..Len(t) : t[k].parent < k
  <2> SUFFICES ASSUME NEW k \in 1..Len(t)
               PROVE  t[k].parent < k
    OBVIOUS
  <2>1. CASE k = 1
    BY <2>1, <1>5
  <2>2. CASE k > 1
    BY <2>2, <1>6
  <2> QED
    BY <2>1, <2>2, <1>2
<1>8. \A j, k \in 1..Len(t) : j <= k => t[j].row <= t[k].row
  BY TreeShape
<1> QED
  BY <1>2, <1>4, <1>5, <1>6, <1>7, <1>8

LEMMA LeastOf ==
  ASSUME NEW S \in SUBSET Nat, S # {}
  PROVE  Min(S) \in S /\ \A n \in S : Min(S) <= n
<1>1. PICK n \in S : \A m \in S : ~(<<m, n>> \in OpToRel(<, Nat))
  BY WFMin, NatLessThanWellFounded, Zenon
<1>2. \A m \in S : ~(m < n)
  BY <1>1 DEF OpToRel
<1>3. \A m \in S : n <= m
  BY <1>2
<1> QED
  BY <1>3 DEF Min

(* The last byte of a node: the next node is no longer below it.           *)
LEMMA EndIs ==
  ASSUME NEW t \in Source, NEW i \in 1..Len(t)
  PROVE  /\ EndOf(t, i) \in i..Len(t)
         /\ \A k \in (i + 1)..EndOf(t, i) : t[k].parent >= i
         /\ EndOf(t, i) < Len(t) => t[EndOf(t, i) + 1].parent < i
<1> DEFINE S == {k \in (i + 1)..Len(t) : t[k].parent < i} \union {Len(t) + 1}
<1>t. Len(t) \in Nat /\ \A k \in 1..Len(t) : t[k].parent \in Nat
  BY TreeIs
<1>1. S \in SUBSET Nat /\ S # {}
  BY <1>t
<1>2. Min(S) \in S /\ \A n \in S : Min(S) <= n
  <2> HIDE DEF S
  <2> QED
    BY <1>1, LeastOf
<1>3. EndOf(t, i) = Min(S) - 1
  BY DEF EndOf
<1> DEFINE m == Min(S)
<1>4. m \in S /\ \A n \in S : m <= n
  BY <1>2
<1>5. EndOf(t, i) = m - 1
  BY <1>3
<1> HIDE DEF m
<1>6. m \in (i + 1)..(Len(t) + 1)
  BY <1>4, <1>t
<1>7. ASSUME NEW k \in (i + 1)..(m - 1)
      PROVE  t[k].parent >= i
  <2>1. k \in (i + 1)..Len(t) /\ k < m
    BY <1>6, <1>7, <1>t
  <2>2. k \notin S
    BY <2>1, <1>4, <1>6
  <2> QED
    BY <2>1, <2>2, <1>t
<1>8. m <= Len(t) => t[m].parent < i
  BY <1>4, <1>6, <1>t
<1> QED
  BY <1>5, <1>6, <1>7, <1>8, <1>t

(* What is below a node ends with it at the latest. *)
LEMMA Nested ==
  ASSUME NEW t \in Source, NEW a \in 1..Len(t), NEW i \in Subtree(t, a)
  PROVE  i \in 1..Len(t) /\ a <= i /\ i <= EndOf(t, a) /\ EndOf(t, i) <= EndOf(t, a)
<1> DEFINE e == EndOf(t, a)
           f == EndOf(t, i)
<1>t. Len(t) \in Nat /\ \A k \in 1..Len(t) : t[k].parent \in Nat
  BY TreeIs
<1>1. e \in a..Len(t) /\ (e < Len(t) => t[e + 1].parent < a)
  BY EndIs
<1>2. i \in a..e
  BY DEF Subtree
<1>3. i \in 1..Len(t)
  BY <1>1, <1>2, <1>t
<1>4. f \in i..Len(t) /\ \A k \in (i + 1)..f : t[k].parent >= i
  BY <1>3, EndIs
<1> HIDE DEF e, f
<1>5. f <= e
  <2> SUFFICES ASSUME f > e
               PROVE  FALSE
    BY <1>1, <1>3, <1>4, <1>t
  <2>1. e + 1 \in (i + 1)..f /\ e < Len(t)
    BY <1>1, <1>2, <1>3, <1>4, <1>t
  <2>2. t[e + 1].parent >= i /\ t[e + 1].parent < a /\ t[e + 1].parent \in Nat
    BY <2>1, <1>1, <1>3, <1>4, <1>t
  <2> QED
    BY <2>2, <1>2, <1>1, <1>3, <1>t
<1> QED
  BY <1>2, <1>3, <1>5, <1>1 DEF e, f

(* Definitions do not nest: the node of one is not below that of another.  *)
DefNodes(t) == {i \in 1..Len(t) : IsDefNode(t, i)}

LEMMA DefNodeIs ==
  ASSUME NEW t \in Source, NEW i \in DefNodes(t)
  PROVE  /\ i \in 2..Len(t) /\ t[1].kind = "source_file"
         /\ \/ t[i].kind \in Callables /\ t[i].parent = 1
            \/ \E p \in 2..(i - 1) :
                 /\ t[i].kind \in Specs /\ p = t[i].parent
                 /\ t[p].kind \in Declarations /\ t[p].parent = 1
            \/ \E p \in 2..(i - 1), q \in 2..(i - 1) :
                 /\ t[i].kind = "var_spec" /\ p = t[i].parent /\ q = t[p].parent /\ q < p
                 /\ t[p].kind = "var_spec_list" /\ t[q].kind = "var_declaration"
                 /\ t[q].parent = 1
<1>t. Len(t) \in Nat /\ t[1].parent = 0 /\ \A k \in 1..Len(t) : t[k].parent \in Nat /\ t[k].parent < k
  BY TreeIs
<1>1. i \in 1..Len(t) /\ i > 1 /\ t[1].kind = "source_file"
  BY DEF DefNodes, IsDefNode
<1>2. \A k \in 2..Len(t) : t[k].parent \in 1..(k - 1)
  BY TreeShape
<1>3. CASE t[i].kind \in Callables /\ t[i].parent = 1
  BY <1>1, <1>3
<1>4. CASE t[i].kind \in Specs /\ t[t[i].parent].kind \in Declarations /\ t[t[i].parent].parent = 1
  <2>1. t[i].parent \in 1..(i - 1) /\ t[i].parent # 1
    BY <1>1, <1>2, <1>4, <1>t
  <2> QED
    BY <1>1, <1>4, <2>1
<1>5. CASE /\ t[i].kind = "var_spec" /\ t[t[i].parent].kind = "var_spec_list"
           /\ t[t[t[i].parent].parent].kind = "var_declaration"
           /\ t[t[t[i].parent].parent].parent = 1
  <2> DEFINE p == t[i].parent
             q == t[p].parent
  <2>1. p \in 1..(i - 1)
    BY <1>1, <1>2
  <2>2. p # 1
    BY <1>1, <1>5
  <2>3. q \in 1..(p - 1)
    BY <1>1, <1>2, <2>1, <2>2, <1>t
  <2>4. q # 1
    BY <1>5, <1>t
  <2>5. p \in 2..(i - 1) /\ q \in 2..(i - 1) /\ q < p
    BY <1>1, <2>1, <2>2, <2>3, <2>4
  <2> QED
    BY <1>1, <1>5, <2>5
<1> QED
  BY <1>3, <1>4, <1>5 DEF DefNodes, IsDefNode

(* What a definition is below: the file, its declaration and its list. *)
LEMMA AboveDef ==
  ASSUME NEW t \in Source, NEW i \in DefNodes(t), NEW a \in Above(t, i), a # i
  PROVE  /\ a \in 1..Len(t) /\ a < i
         /\ \/ a = 1
            \/ a = t[i].parent /\ t[a].kind \in Declarations \union {"var_spec_list"}
            \/ a = t[t[i].parent].parent /\ t[a].kind = "var_declaration"
<1>t. Len(t) \in Nat /\ \A k \in 1..Len(t) : t[k].parent \in Nat /\ t[k].parent < k
  BY TreeIs
<1>1. i \in 2..Len(t)
  BY DefNodeIs
<1>2. a \in 1..Len(t) /\ a < i /\ i <= EndOf(t, a)
  BY <1>1, <1>t DEF Above
<1>3. \A k \in (a + 1)..i : t[k].parent >= a
  <2>1. EndOf(t, a) \in a..Len(t) /\ \A k \in (a + 1)..EndOf(t, a) : t[k].parent >= a
    BY <1>2, EndIs
  <2> QED
    BY <1>1, <1>2, <2>1, <1>t
<1>4. t[i].parent >= a
  BY <1>1, <1>2, <1>3, <1>t
<1>5. CASE t[i].parent = 1
  BY <1>2, <1>4, <1>5, <1>t
<1>6. ASSUME NEW p \in 2..(i - 1), p = t[i].parent, t[p].kind \in Declarations, t[p].parent = 1
      PROVE  \/ a = 1
             \/ a = t[i].parent /\ t[a].kind \in Declarations \union {"var_spec_list"}
  <2>1. CASE a = p
    BY <1>6, <2>1
  <2>2. CASE a < p
    <3>1. p \in (a + 1)..i
      BY <1>1, <1>2, <2>2, <1>t
    <3> QED
      BY <1>2, <1>3, <1>6, <3>1, <1>t
  <2> QED
    BY <1>1, <1>2, <1>4, <1>6, <2>1, <2>2, <1>t
<1>7. ASSUME NEW p \in 2..(i - 1), NEW q \in 2..(i - 1), p = t[i].parent, q = t[p].parent, q < p,
             t[p].kind = "var_spec_list", t[q].kind = "var_declaration", t[q].parent = 1
      PROVE  \/ a = 1
             \/ a = t[i].parent /\ t[a].kind \in Declarations \union {"var_spec_list"}
             \/ a = t[t[i].parent].parent /\ t[a].kind = "var_declaration"
  <2>1. CASE a = p
    BY <1>7, <2>1
  <2>2. CASE a < p
    <3>1. p \in (a + 1)..i
      BY <1>1, <1>2, <2>2, <1>t
    <3>2. a <= q
      BY <1>3, <1>7, <3>1
    <3>3. CASE a = q
      BY <1>7, <3>3
    <3>4. CASE a < q
      <4>1. q \in (a + 1)..i
        BY <1>1, <1>2, <3>4, <1>t
      <4> QED
        BY <1>2, <1>3, <1>7, <4>1, <1>t
    <3> QED
      BY <1>2, <3>2, <3>3, <3>4, <1>7
  <2> QED
    BY <1>1, <1>2, <1>4, <1>7, <2>1, <2>2, <1>t
<1>8. \/ t[i].parent = 1
      \/ \E p \in 2..(i - 1) : p = t[i].parent /\ t[p].kind \in Declarations /\ t[p].parent = 1
      \/ \E p \in 2..(i - 1), q \in 2..(i - 1) :
           /\ p = t[i].parent /\ q = t[p].parent /\ q < p
           /\ t[p].kind = "var_spec_list" /\ t[q].kind = "var_declaration" /\ t[q].parent = 1
  BY DefNodeIs
<1> QED
  BY <1>2, <1>5, <1>6, <1>7, <1>8

LEMMA DefsDisjoint ==
  ASSUME NEW t \in Source, NEW i \in DefNodes(t), NEW j \in DefNodes(t), j \in Subtree(t, i)
  PROVE  i = j
<1>t. Len(t) \in Nat
  BY TreeIs
<1>1. i \in 2..Len(t) /\ j \in 2..Len(t)
  BY DefNodeIs
<1>2. i \in Above(t, j)
  <2>1. i <= j /\ j <= EndOf(t, i)
    BY <1>1, Nested, <1>t
  <2> QED
    BY <1>1, <2>1, <1>t DEF Above
<1>3. t[i].kind \in Callables \union Specs
  BY DefNodeIs DEF Specs
<1>4. i # j => t[i].kind \in Declarations \union {"var_spec_list"}
  BY <1>1, <1>2, AboveDef DEF Declarations
<1> QED
  BY <1>3, <1>4 DEF Callables, Specs, Declarations

(* Nothing above a definition is an error: the query asks for the nodes    *)
(* between it and the file.                                                *)
LEMMA DefsOutsideErrors ==
  ASSUME NEW t \in Source, NEW i \in DefNodes(t)
  PROVE  ~HasErrorAncestor(t, i)
<1>1. t[i].kind \in Callables \union Specs /\ t[1].kind = "source_file"
  BY DefNodeIs DEF Specs
<1>2. \A a \in Above(t, i) : t[a].kind # "ERROR"
  BY <1>1, AboveDef DEF Callables, Specs, Declarations
<1> QED
  BY <1>2 DEF HasErrorAncestor
-----------------------------------------------------------------------------
(* The matches of the queries, and what is merged of those delivered. *)

LEMMA DefMatchIs ==
  ASSUME NEW t \in Source, NEW m
  PROVE  m \in DefMatches(t) <=>
           \E i \in DefNodes(t) : \E n \in NameNodes(t, i) : \E d \in DocNodes(t, i) \union {None} :
             m = DefMatch(i, t[n].text, d)
<1> DEFINE Of(i) == {DefMatch(i, t[n].text, d) : n \in NameNodes(t, i), d \in DocNodes(t, i) \union {None}}
<1>1. \A i : m \in Of(i) <=> \E n \in NameNodes(t, i) : \E d \in DocNodes(t, i) \union {None} :
                               m = DefMatch(i, t[n].text, d)
  OBVIOUS
<1>2. DefMatches(t) = UNION {Of(i) : i \in DefNodes(t)}
  BY DEF DefMatches, DefNodes
<1> HIDE DEF Of
<1>3. m \in DefMatches(t) <=> \E i \in DefNodes(t) : m \in Of(i)
  BY <1>2
<1> QED
  BY <1>1, <1>3

MergedDefs(raw, t, done) ==
  /\ DOMAIN raw = {m.node : m \in done}
  /\ \A i \in DOMAIN raw :
       /\ raw[i].names = {m.name : m \in {d \in done : d.node = i}}
       /\ raw[i].doc \in {m.doc : m \in {d \in done : d.node = i}}
       /\ (\E m \in done : m.node = i /\ m.doc # None /\ Adjacent(t, m.doc, i))
            => raw[i].doc # None /\ Adjacent(t, raw[i].doc, i)

LEMMA MergeDef ==
  ASSUME NEW t, NEW raw, NEW done, NEW m, MergedDefs(raw, t, done)
  PROVE  MergedDefs(MergedDef(raw, t, m), t, done \union {m})
<1> DEFINE new == MergedDef(raw, t, m)
           all == done \union {m}
           at(i, S) == {d \in S : d.node = i}
           old == IF m.node \in DOMAIN raw THEN raw[m.node] ELSE [names |-> {}, doc |-> None]
<1>1. /\ DOMAIN new = DOMAIN raw \union {m.node}
      /\ \A i \in DOMAIN raw : i # m.node => new[i] = raw[i]
      /\ new[m.node].names = old.names \union {m.name}
      /\ new[m.node].doc = BetterDoc(t, m.node, old.doc, m.doc)
  BY DEF MergedDef
<1>2. DOMAIN new = {d.node : d \in all}
  BY <1>1 DEF MergedDefs
<1>3. ASSUME NEW i \in DOMAIN raw
      PROVE  /\ raw[i].names = {d.name : d \in at(i, done)}
             /\ raw[i].doc \in {d.doc : d \in at(i, done)}
             /\ (\E d \in done : d.node = i /\ d.doc # None /\ Adjacent(t, d.doc, i))
                  => raw[i].doc # None /\ Adjacent(t, raw[i].doc, i)
  BY <1>3 DEF MergedDefs
<1>4. m.node \notin DOMAIN raw => \A d \in done : d.node # m.node
  BY DEF MergedDefs
<1>5. /\ old.names = {d.name : d \in at(m.node, done)}
      /\ old.doc = None \/ old.doc \in {d.doc : d \in at(m.node, done)}
      /\ (\E d \in done : d.node = m.node /\ d.doc # None /\ Adjacent(t, d.doc, m.node))
           => old.doc # None /\ Adjacent(t, old.doc, m.node)
  <2>1. CASE m.node \in DOMAIN raw
    BY <1>3, <2>1
  <2>2. CASE m.node \notin DOMAIN raw
    <3>1. old = [names |-> {}, doc |-> None]
      BY <2>2
    <3>2. at(m.node, done) = {}
      BY <1>4, <2>2
    <3> QED
      BY <1>4, <2>2, <3>1, <3>2
  <2> QED
    BY <2>1, <2>2
<1> HIDE DEF old, new
<1>6. ASSUME NEW i \in DOMAIN new
      PROVE  /\ new[i].names = {d.name : d \in at(i, all)}
             /\ new[i].doc \in {d.doc : d \in at(i, all)}
             /\ (\E d \in all : d.node = i /\ d.doc # None /\ Adjacent(t, d.doc, i))
                  => new[i].doc # None /\ Adjacent(t, new[i].doc, i)
  <2>1. CASE i # m.node
    <3>1. i \in DOMAIN raw /\ new[i] = raw[i]
      BY <1>1, <1>6, <2>1
    <3>2. at(i, all) = at(i, done)
      BY <2>1
    <3>3. \A d \in all : d.node = i => d \in done
      BY <2>1
    <3>4. /\ raw[i].names = {d.name : d \in at(i, done)}
          /\ raw[i].doc \in {d.doc : d \in at(i, done)}
          /\ (\E d \in done : d.node = i /\ d.doc # None /\ Adjacent(t, d.doc, i))
               => raw[i].doc # None /\ Adjacent(t, raw[i].doc, i)
      BY <1>3, <3>1
    <3> HIDE DEF at
    <3> QED
      BY <3>1, <3>2, <3>3, <3>4
  <2>2. CASE i = m.node
    <3>1. at(i, all) = at(i, done) \union {m}
      BY <2>2
    <3>2. /\ new[i].names = old.names \union {m.name}
          /\ new[i].doc = BetterDoc(t, i, old.doc, m.doc)
      BY <1>1, <2>2
    <3>3. /\ new[i].doc = m.doc \/ (new[i].doc = old.doc /\ old.doc # None)
          /\ m.doc # None /\ Adjacent(t, m.doc, i) => new[i].doc # None /\ Adjacent(t, new[i].doc, i)
          /\ old.doc # None /\ Adjacent(t, old.doc, i) => new[i].doc # None /\ Adjacent(t, new[i].doc, i)
      BY <3>2 DEF BetterDoc
    <3>4. \A d \in all : d \in done \/ d = m
      OBVIOUS
    <3>5. /\ old.names = {d.name : d \in at(i, done)}
          /\ old.doc = None \/ old.doc \in {d.doc : d \in at(i, done)}
          /\ (\E d \in done : d.node = i /\ d.doc # None /\ Adjacent(t, d.doc, i))
               => old.doc # None /\ Adjacent(t, old.doc, i)
      BY <1>5, <2>2
    <3> HIDE DEF at, all
    <3>6. new[i].names = {d.name : d \in at(i, all)}
      BY <3>1, <3>2, <3>5
    <3>7. new[i].doc \in {d.doc : d \in at(i, all)}
      BY <3>1, <3>3, <3>5
    <3> QED
      BY <3>3, <3>4, <3>5, <3>6, <3>7
  <2> QED
    BY <2>1, <2>2
<1> QED
  BY <1>2, <1>6 DEF MergedDefs, new

(* When every match is merged, a declaration has all of its names, and a   *)
(* comment adjacent to it if one of the two that are asked for is.         *)
LEMMA DefsMerged ==
  ASSUME NEW t \in Source, NEW raw, MergedDefs(raw, t, DefMatches(t))
  PROVE  /\ DOMAIN raw = DefNodes(t)
         /\ \A i \in DefNodes(t) :
              /\ raw[i].names = {t[n].text : n \in NameNodes(t, i)}
              /\ raw[i].doc \in DocNodes(t, i) \union {None}
              /\ (\E c \in DocNodes(t, i) : c # None /\ Adjacent(t, c, i))
                   => raw[i].doc # None /\ Adjacent(t, raw[i].doc, i)
<1> DEFINE all == DefMatches(t)
<1>1. \A i \in DefNodes(t) : NameNodes(t, i) # {}
  BY TreeShape DEF DefNodes
<1>2. \A m \in all : \E i \in DefNodes(t) : \E n \in NameNodes(t, i) : \E d \in DocNodes(t, i) \union {None} :
         m = DefMatch(i, t[n].text, d)
  BY DefMatchIs
<1>3. \A i \in DefNodes(t) : \A n \in NameNodes(t, i) : \A d \in DocNodes(t, i) \union {None} :
         DefMatch(i, t[n].text, d) \in all
  BY DefMatchIs
<1>4. \A i, n, d : /\ DefMatch(i, n, d).node = i /\ DefMatch(i, n, d).name = n
                   /\ DefMatch(i, n, d).doc = d
  BY DEF DefMatch
<1> HIDE DEF all
<1>5. {m.node : m \in all} = DefNodes(t)
  <2>1. \A m \in all : m.node \in DefNodes(t)
    BY <1>2, <1>4
  <2>2. \A i \in DefNodes(t) : \E m \in all : m.node = i
    <3> SUFFICES ASSUME NEW i \in DefNodes(t)
                 PROVE  \E m \in all : m.node = i
      OBVIOUS
    <3>1. PICK n \in NameNodes(t, i) : TRUE
      BY <1>1
    <3>2. DefMatch(i, t[n].text, None) \in all
      BY <1>3
    <3> QED
      BY <1>4, <3>2
  <2> QED
    BY <2>1, <2>2
<1>6. ASSUME NEW i \in DefNodes(t)
      PROVE  /\ raw[i].names = {t[n].text : n \in NameNodes(t, i)}
             /\ raw[i].doc \in DocNodes(t, i) \union {None}
             /\ (\E c \in DocNodes(t, i) : c # None /\ Adjacent(t, c, i))
                  => raw[i].doc # None /\ Adjacent(t, raw[i].doc, i)
  <2> DEFINE mine == {m \in all : m.node = i}
  <2>0. i \in DOMAIN raw
    BY <1>5 DEF MergedDefs, all
  <2>1. /\ raw[i].names = {m.name : m \in mine}
        /\ raw[i].doc \in {m.doc : m \in mine}
        /\ (\E m \in all : m.node = i /\ m.doc # None /\ Adjacent(t, m.doc, i))
             => raw[i].doc # None /\ Adjacent(t, raw[i].doc, i)
    BY <2>0 DEF MergedDefs, all
  <2>2. \A m \in mine : \E n \in NameNodes(t, i) : \E d \in DocNodes(t, i) \union {None} :
           m.name = t[n].text /\ m.doc = d
    BY <1>2, <1>4
  <2>3. \A n \in NameNodes(t, i) : \A d \in DocNodes(t, i) \union {None} :
          \E m \in mine : m.name = t[n].text /\ m.doc = d
    <3> SUFFICES ASSUME NEW n \in NameNodes(t, i), NEW d \in DocNodes(t, i) \union {None}
                 PROVE  \E m \in mine : m.name = t[n].text /\ m.doc = d
      OBVIOUS
    <3>1. DefMatch(i, t[n].text, d) \in mine
      BY <1>3, <1>4
    <3> QED
      BY <1>4, <3>1
  <2>4. \A m \in mine : m \in all /\ m.node = i
    OBVIOUS
  <2> HIDE DEF mine
  <2>5. raw[i].names = {t[n].text : n \in NameNodes(t, i)}
    <3>1. \A x \in {m.name : m \in mine} : x \in {t[n].text : n \in NameNodes(t, i)}
      BY <2>2
    <3>2. \A x \in {t[n].text : n \in NameNodes(t, i)} : x \in {m.name : m \in mine}
      BY <2>3
    <3> QED
      BY <2>1, <3>1, <3>2
  <2>6. raw[i].doc \in DocNodes(t, i) \union {None}
    BY <2>1, <2>2
  <2>7. ASSUME NEW c \in DocNodes(t, i), c # None, Adjacent(t, c, i)
        PROVE  raw[i].doc # None /\ Adjacent(t, raw[i].doc, i)
    <3>1. PICK n \in NameNodes(t, i) : TRUE
      BY <1>1
    <3>2. PICK m \in mine : m.doc = c
      BY <2>3
    <3> QED
      BY <2>1, <2>4, <2>7, <3>2
  <2> QED
    BY <2>5, <2>6, <2>7
<1> QED
  BY <1>5, <1>6 DEF MergedDefs, all

ImportMatch(i, alias) == [node |-> i, alias |-> alias]

LEMMA ImportMatchIs ==
  ASSUME NEW t, NEW m
  PROVE  m \in ImportMatches(t) <=>
           \E i \in ImportSpecs(t) :
             m = ImportMatch(i, None) \/ \E a \in Field(t, i, "name") : m = ImportMatch(i, t[a].text)
<1> DEFINE Of(i) == {[node |-> i, alias |-> t[a].text] : a \in Field(t, i, "name")}
<1>1. \A i : m \in Of(i) <=> \E a \in Field(t, i, "name") : m = ImportMatch(i, t[a].text)
  BY DEF ImportMatch
<1>2. ImportMatches(t) = {[node |-> i, alias |-> None] : i \in ImportSpecs(t)}
                           \union UNION {Of(i) : i \in ImportSpecs(t)}
  BY DEF ImportMatches
<1> HIDE DEF Of
<1>3. m \in ImportMatches(t) <=> \E i \in ImportSpecs(t) : m = ImportMatch(i, None) \/ m \in Of(i)
  BY <1>2 DEF ImportMatch
<1> QED
  BY <1>1, <1>3

MergedImports(raw, done) ==
  /\ DOMAIN raw = {m.node : m \in done}
  /\ \A i \in DOMAIN raw : /\ \E m \in done : m.node = i /\ m.alias = raw[i]
                           /\ (\E m \in done : m.node = i /\ m.alias # None) => raw[i] # None

LEMMA MergeImport ==
  ASSUME NEW raw, NEW done, NEW m, MergedImports(raw, done)
  PROVE  MergedImports(MergedImport(raw, m), done \union {m})
<1> DEFINE new == MergedImport(raw, m)
           all == done \union {m}
<1>1. /\ DOMAIN new = DOMAIN raw \union {m.node}
      /\ \A i \in DOMAIN new :
           new[i] = IF i = m.node /\ (i \notin DOMAIN raw \/ raw[i] = None) THEN m.alias ELSE raw[i]
  BY DEF MergedImport
<1> HIDE DEF new
<1>2. DOMAIN new = {d.node : d \in all}
  BY <1>1 DEF MergedImports
<1>3. ASSUME NEW i \in DOMAIN new
      PROVE  /\ \E d \in all : d.node = i /\ d.alias = new[i]
             /\ (\E d \in all : d.node = i /\ d.alias # None) => new[i] # None
  <2>1. CASE i # m.node
    BY <1>1, <1>3, <2>1 DEF MergedImports
  <2>2. CASE i = m.node /\ i \notin DOMAIN raw
    <3>1. \A d \in done : d.node # i
      BY <2>2 DEF MergedImports
    <3> QED
      BY <1>1, <1>3, <2>2, <3>1
  <2>3. CASE i = m.node /\ i \in DOMAIN raw
    BY <1>1, <1>3, <2>3 DEF MergedImports
  <2> QED
    BY <2>1, <2>2, <2>3
<1> QED
  BY <1>2, <1>3 DEF MergedImports, new

FinalImports(t) == [i \in ImportSpecs(t) |-> TextOf(t, Field(t, i, "name"))]

LEMMA ImportsMerged ==
  ASSUME NEW t \in Source, NEW raw, MergedImports(raw, ImportMatches(t)),
         raw = [i \in DOMAIN raw |-> raw[i]]
  PROVE  raw = FinalImports(t)
<1> DEFINE all == ImportMatches(t)
<1>1. \A i, a : ImportMatch(i, a).node = i /\ ImportMatch(i, a).alias = a
  BY DEF ImportMatch
<1>2. \A m \in all : \E i \in ImportSpecs(t) :
        m = ImportMatch(i, None) \/ \E a \in Field(t, i, "name") : m = ImportMatch(i, t[a].text)
  BY ImportMatchIs
<1>3. \A i \in ImportSpecs(t) : /\ ImportMatch(i, None) \in all
                                /\ \A a \in Field(t, i, "name") : ImportMatch(i, t[a].text) \in all
  BY ImportMatchIs
<1> HIDE DEF all
<1>4. {m.node : m \in all} = ImportSpecs(t)
  <2>1. \A m \in all : m.node \in ImportSpecs(t)
    BY <1>1, <1>2
  <2>2. \A i \in ImportSpecs(t) : \E m \in all : m.node = i
    BY <1>1, <1>3
  <2> QED
    BY <2>1, <2>2
<1>5. DOMAIN raw = ImportSpecs(t)
  BY <1>4 DEF MergedImports, all
<1>6. ASSUME NEW i \in ImportSpecs(t)
      PROVE  raw[i] = TextOf(t, Field(t, i, "name"))
  <2> DEFINE F == Field(t, i, "name")
  <2>1. /\ \E m \in all : m.node = i /\ m.alias = raw[i]
        /\ (\E m \in all : m.node = i /\ m.alias # None) => raw[i] # None
    BY <1>5 DEF MergedImports, all
  <2>2. raw[i] = None \/ \E a \in F : raw[i] = t[a].text
    BY <1>1, <1>2, <2>1
  <2>3. \A a \in F : t[a].text # None
    <3>1. \A a \in F : a \in 1..Len(t)
      <4>1. Len(t) \in Nat /\ i \in 1..Len(t)
        BY TreeIs DEF ImportSpecs
      <4> QED
        BY <4>1 DEF Field, Children
    <3> QED
      BY <3>1, NoneIsNoNode
  <2>4. F # {} => raw[i] # None
    <3>1. ASSUME NEW a \in F
          PROVE  raw[i] # None
      BY <1>1, <1>3, <2>1, <2>3
    <3> QED
      BY <3>1
  <2>5. \A a, b \in F : a = b
    BY TreeShape
  <2> HIDE DEF F
  <2>6. CASE F = {}
    BY <2>2, <2>6 DEF TextOf, F
  <2>7. CASE F # {}
    <3>1. PICK a \in F : raw[i] = t[a].text
      BY <2>2, <2>4, <2>7
    <3>2. (CHOOSE n \in F : TRUE) = a
      BY <2>5, <3>1
    <3> QED
      BY <2>7, <3>1, <3>2 DEF TextOf, F
  <2> QED
    BY <2>6, <2>7
<1> QED
  BY <1>5, <1>6 DEF FinalImports
-----------------------------------------------------------------------------
(* The passes: what is delivered is merged, the rest is pending, and what  *)
(* is returned was made of everything.                                     *)

RefsOf(t, S)     == UNION {Captured(t, i) : i \in S}
OperandsOf(t, S) == UNION {CapturedOperand(t, i) : i \in S}

Drained ==
  /\ MergedDefs(rawDefs, file, DefMatches(file))
  /\ MergedImports(rawImports, ImportMatches(file))
  /\ rawRefs = RefsOf(file, Captures(file)) /\ operands = OperandsOf(file, Captures(file))

PassInv ==
  /\ file \in Source
  /\ phase \in {"parse", "defs", "imports", "refs", "done"}
  /\ phase # "done" => facts = None
  /\ phase \in {"parse", "defs"} => rawImports = <<>>
  /\ phase \in {"parse", "defs", "imports"} => rawRefs = {} /\ operands = {}
  /\ rawImports = [i \in DOMAIN rawImports |-> rawImports[i]]
  /\ phase = "parse" => rawDefs = <<>>
  /\ phase = "defs" =>
       /\ pending \subseteq DefMatches(file)
       /\ MergedDefs(rawDefs, file, DefMatches(file) \ pending)
  /\ phase \in {"imports", "refs"} => MergedDefs(rawDefs, file, DefMatches(file))
  /\ phase = "imports" =>
       /\ pending \subseteq ImportMatches(file)
       /\ MergedImports(rawImports, ImportMatches(file) \ pending)
  /\ phase = "refs" =>
       /\ MergedImports(rawImports, ImportMatches(file))
       /\ pending \subseteq Captures(file)
       /\ rawRefs = RefsOf(file, Captures(file) \ pending)
       /\ operands = OperandsOf(file, Captures(file) \ pending)
  /\ phase = "done" => \/ facts = Skipped("timeout")
                       \/ Drained /\ facts = Extracted(file)

LEMMA OneMoreRef ==
  ASSUME NEW t, NEW S, NEW i
  PROVE  /\ RefsOf(t, S \union {i}) = RefsOf(t, S) \union Captured(t, i)
         /\ OperandsOf(t, S \union {i}) = OperandsOf(t, S) \union CapturedOperand(t, i)
BY DEF RefsOf, OperandsOf

LEMMA NothingMerged ==
  ASSUME NEW t
  PROVE  MergedDefs(<<>>, t, {}) /\ MergedImports(<<>>, {}) /\ RefsOf(t, {}) = {}
         /\ OperandsOf(t, {}) = {}
BY DEF MergedDefs, MergedImports, RefsOf, OperandsOf

LEMMA PassStart == ExtractInit => PassInv
BY DEF ExtractInit, PassInv

LEMMA PassStep ==
  ASSUME PassInv, [ExtractNext]_extractVars
  PROVE  PassInv'
<1>f. file' = file /\ file \in Source
  BY DEF PassInv, ExtractNext, ParseTimesOut, Parse, MatchDef, DefsMatched, MatchImport,
         ImportsMatched, MatchRef, RefsMatched, extractVars
<1>1. CASE ParseTimesOut
  BY <1>1, <1>f DEF PassInv, ParseTimesOut
<1>2. CASE Parse
  <2>1. /\ phase = "parse" /\ phase' = "defs" /\ pending' = DefMatches(file)
        /\ UNCHANGED <<rawDefs, rawImports, rawRefs, operands, facts>>
    BY <1>2 DEF Parse
  <2>2. DefMatches(file) \ pending' = {}
    BY <2>1
  <2>3. MergedDefs(rawDefs', file, DefMatches(file) \ pending')
    BY <2>1, <2>2, NothingMerged DEF PassInv
  <2> QED
    BY <1>f, <2>1, <2>3 DEF PassInv
<1>3. CASE MatchDef
  <2>1. PICK m \in pending : rawDefs' = MergedDef(rawDefs, file, m) /\ pending' = pending \ {m}
    BY <1>3 DEF MatchDef
  <2>2. phase = "defs" /\ UNCHANGED <<phase, rawImports, rawRefs, operands, facts>>
    BY <1>3 DEF MatchDef
  <2>3. pending \subseteq DefMatches(file) /\ MergedDefs(rawDefs, file, DefMatches(file) \ pending)
    BY <2>2 DEF PassInv
  <2>4. DefMatches(file) \ pending' = (DefMatches(file) \ pending) \union {m}
    BY <2>1, <2>3
  <2>5. MergedDefs(rawDefs', file, DefMatches(file) \ pending')
    BY <2>1, <2>3, <2>4, MergeDef
  <2> QED
    BY <1>f, <2>1, <2>2, <2>3, <2>5 DEF PassInv
<1>4. CASE DefsMatched
  <2>1. /\ phase = "defs" /\ phase' = "imports" /\ pending = {} /\ pending' = ImportMatches(file)
        /\ UNCHANGED <<rawDefs, rawImports, rawRefs, operands, facts>>
    BY <1>4 DEF DefsMatched
  <2>2. ImportMatches(file) \ pending' = {} /\ DefMatches(file) \ pending = DefMatches(file)
    BY <2>1
  <2>3. MergedImports(rawImports', ImportMatches(file) \ pending')
    BY <2>1, <2>2, NothingMerged DEF PassInv
  <2>4. MergedDefs(rawDefs', file, DefMatches(file))
    BY <2>1, <2>2 DEF PassInv
  <2> QED
    BY <1>f, <2>1, <2>3, <2>4 DEF PassInv
<1>5. CASE MatchImport
  <2>1. PICK m \in pending : rawImports' = MergedImport(rawImports, m) /\ pending' = pending \ {m}
    BY <1>5 DEF MatchImport
  <2>2. phase = "imports" /\ UNCHANGED <<phase, rawDefs, rawRefs, operands, facts>>
    BY <1>5 DEF MatchImport
  <2>3. pending \subseteq ImportMatches(file) /\ MergedImports(rawImports, ImportMatches(file) \ pending)
    BY <2>2 DEF PassInv
  <2>4. ImportMatches(file) \ pending' = (ImportMatches(file) \ pending) \union {m}
    BY <2>1, <2>3
  <2>5. MergedImports(rawImports', ImportMatches(file) \ pending')
    BY <2>1, <2>3, <2>4, MergeImport
  <2>6. rawImports' = [i \in DOMAIN rawImports' |-> rawImports'[i]]
    BY <2>1 DEF MergedImport
  <2> QED
    BY <1>f, <2>1, <2>2, <2>3, <2>5, <2>6 DEF PassInv
<1>6. CASE ImportsMatched
  <2>1. /\ phase = "imports" /\ phase' = "refs" /\ pending = {} /\ pending' = Captures(file)
        /\ UNCHANGED <<rawDefs, rawImports, rawRefs, operands, facts>>
    BY <1>6 DEF ImportsMatched
  <2>2. Captures(file) \ pending' = {} /\ ImportMatches(file) \ pending = ImportMatches(file)
    BY <2>1
  <2>3. MergedImports(rawImports', ImportMatches(file))
    BY <2>1, <2>2 DEF PassInv
  <2>4. /\ rawRefs' = RefsOf(file, Captures(file) \ pending')
        /\ operands' = OperandsOf(file, Captures(file) \ pending')
    BY <2>1, <2>2, NothingMerged DEF PassInv
  <2> QED
    BY <1>f, <2>1, <2>3, <2>4 DEF PassInv
<1>7. CASE MatchRef
  <2>1. PICK i \in pending : /\ rawRefs' = rawRefs \union Captured(file, i)
                             /\ operands' = operands \union CapturedOperand(file, i)
                             /\ pending' = pending \ {i}
    BY <1>7 DEF MatchRef
  <2>2. phase = "refs" /\ UNCHANGED <<phase, rawDefs, rawImports, facts>>
    BY <1>7 DEF MatchRef
  <2>3. /\ pending \subseteq Captures(file)
        /\ rawRefs = RefsOf(file, Captures(file) \ pending)
        /\ operands = OperandsOf(file, Captures(file) \ pending)
    BY <2>2 DEF PassInv
  <2>4. Captures(file) \ pending' = (Captures(file) \ pending) \union {i}
    BY <2>1, <2>3
  <2>5. /\ rawRefs' = RefsOf(file, Captures(file) \ pending')
        /\ operands' = OperandsOf(file, Captures(file) \ pending')
    BY <2>1, <2>3, <2>4, OneMoreRef
  <2> QED
    BY <1>f, <2>1, <2>2, <2>3, <2>5 DEF PassInv
<1>8. CASE RefsMatched
  <2>1. /\ phase = "refs" /\ phase' = "done" /\ pending = {} /\ facts' = Extracted(file)
        /\ UNCHANGED <<rawDefs, rawImports, rawRefs, operands>>
    BY <1>8 DEF RefsMatched
  <2>2. Captures(file) \ pending = Captures(file)
    BY <2>1
  <2>3. Drained
    BY <2>1, <2>2 DEF PassInv, Drained
  <2>4. Drained'
    BY <1>f, <2>1, <2>3 DEF Drained
  <2>5. facts' = Extracted(file)'
    BY <1>f, <2>1 DEF Extracted
  <2> QED
    BY <1>f, <2>1, <2>4, <2>5 DEF PassInv
<1>9. CASE UNCHANGED extractVars
  <2>1. UNCHANGED <<file, phase, pending, rawDefs, rawImports, rawRefs, operands, facts>>
    BY <1>9 DEF extractVars
  <2>2. Extracted(file)' = Extracted(file) /\ (Drained' <=> Drained)
    BY <2>1 DEF Extracted, Drained
  <2> QED
    BY <2>1, <2>2 DEF PassInv
<1> QED
  BY <1>1, <1>2, <1>3, <1>4, <1>5, <1>6, <1>7, <1>8, <1>9 DEF ExtractNext

(* A result that is not a timeout was made of everything. *)
LEMMA CompleteIs ==
  ASSUME PassInv, Complete
  PROVE  Drained /\ facts = Extracted(file) /\ file \in Source
<1>1. Skipped("timeout").status = "timeout"
  BY DEF Skipped, ExtractedFile
<1> QED
  BY <1>1 DEF PassInv, Complete

(* The definitions returned: one for every name of a file-level            *)
(* declaration without an error in it.                                     *)
LEMMA DefsAre ==
  ASSUME NEW t \in Source, NEW raw, MergedDefs(raw, t, DefMatches(t))
  PROVE  Defs(raw, t) = UNION {{DefAt(t, i, name, raw[i].doc) :
                                  name \in {t[n].text : n \in NameNodes(t, i)} \ {"_"}} :
                                 i \in {j \in DefNodes(t) : ~HasError(t, j)}}
<1> DEFINE At(i) == {DefAt(t, i, name, raw[i].doc) : name \in raw[i].names \ {"_"}}
           Is(i) == {DefAt(t, i, name, raw[i].doc) :
                       name \in {t[n].text : n \in NameNodes(t, i)} \ {"_"}}
           clean == {j \in DefNodes(t) : ~HasError(t, j)}
<1>1. Defs(raw, t) = UNION {At(i) : i \in (DOMAIN raw) \ Dropped(raw, t)}
  BY DEF Defs
<1>2. /\ DOMAIN raw = DefNodes(t)
      /\ \A i \in DefNodes(t) : raw[i].names = {t[n].text : n \in NameNodes(t, i)}
  BY DefsMerged
<1>3. (DOMAIN raw) \ Dropped(raw, t) = clean
  BY <1>2 DEF Dropped
<1>4. \A i \in clean : At(i) = Is(i)
  BY <1>2
<1> HIDE DEF At, Is, clean
<1>5. Defs(raw, t) = UNION {Is(i) : i \in clean}
  BY <1>1, <1>3, <1>4
<1> QED
  BY <1>5 DEF Is, clean

(* An identifier that names something. *)
Naming(t, n) == t[n].text # "_"

LEMMA DefNamed ==
  ASSUME NEW t \in Source, NEW raw, MergedDefs(raw, t, DefMatches(t)), NEW d \in Defs(raw, t)
  PROVE  \E i \in DefNodes(t) : \E n \in NameNodes(t, i) :
           /\ ~HasError(t, i) /\ Naming(t, n)
           /\ d = DefAt(t, i, t[n].text, raw[i].doc)
<1> DEFINE Is(i) == {DefAt(t, i, name, raw[i].doc) :
                       name \in {t[n].text : n \in NameNodes(t, i)} \ {"_"}}
           clean == {j \in DefNodes(t) : ~HasError(t, j)}
<1>1. Defs(raw, t) = UNION {Is(i) : i \in clean}
  BY DefsAre
<1>2. PICK i \in clean : d \in Is(i)
  <2> HIDE DEF Is, clean
  <2> QED
    BY <1>1
<1>3. PICK name \in {t[n].text : n \in NameNodes(t, i)} \ {"_"} : d = DefAt(t, i, name, raw[i].doc)
  BY <1>2
<1>4. PICK n \in NameNodes(t, i) : name = t[n].text
  BY <1>3
<1>5. name # "_" /\ ~HasError(t, i) /\ i \in DefNodes(t)
  BY <1>2, <1>3
<1> QED
  BY <1>3, <1>4, <1>5 DEF Naming

LEMMA NameDefined ==
  ASSUME NEW t \in Source, NEW raw, MergedDefs(raw, t, DefMatches(t)),
         NEW i \in DefNodes(t), ~HasError(t, i), NEW n \in NameNodes(t, i), Naming(t, n)
  PROVE  DefAt(t, i, t[n].text, raw[i].doc) \in Defs(raw, t)
<1> DEFINE Is(j) == {DefAt(t, j, name, raw[j].doc) :
                       name \in {t[m].text : m \in NameNodes(t, j)} \ {"_"}}
           clean == {j \in DefNodes(t) : ~HasError(t, j)}
<1>1. Defs(raw, t) = UNION {Is(j) : j \in clean}
  BY DefsAre
<1>2. i \in clean /\ DefAt(t, i, t[n].text, raw[i].doc) \in Is(i)
  BY DEF Naming
<1> HIDE DEF Is, clean
<1> QED
  BY <1>1, <1>2

LEMMA DefFields ==
  ASSUME NEW t, NEW i, NEW name, NEW doc
  PROVE  /\ DefAt(t, i, name, doc).node = i
         /\ DefAt(t, i, name, doc).def.name = name
         /\ DefAt(t, i, name, doc).def.kind = KindOf(t, i)
         /\ DefAt(t, i, name, doc).container = Receiver(t, i)
BY DEF DefAt, Def

LEMMA DefQualified ==
  ASSUME NEW t, NEW i, NEW name, NEW doc
  PROVE  Len(DefAt(t, i, name, doc).def.qual) = IF Receiver(t, i) = None THEN 1 ELSE 2
BY DEF DefAt, Def

(* The references returned. *)
LEMMA RefIs ==
  ASSUME Drained, file \in Source, facts = Extracted(file), NEW r \in facts.refs
  PROVE  \E q \in rawRefs : /\ Kept(file, q, Dropped(rawDefs, file), operands)
                            /\ r = RefAt(file, q, facts.defs)
                            /\ q.node \in Captures(file) /\ q \in Captured(file, q.node)
<1>1. /\ facts.defs = Defs(rawDefs, file)
      /\ facts.refs = {RefAt(file, q, facts.defs) :
                         q \in {p \in rawRefs : Kept(file, p, Dropped(rawDefs, file), operands)}}
  BY DEF Extracted, ExtractedFile
<1>2. PICK q \in rawRefs : /\ Kept(file, q, Dropped(rawDefs, file), operands)
                           /\ r = RefAt(file, q, facts.defs)
  BY <1>1
<1>3. PICK i \in Captures(file) : q \in Captured(file, i)
  BY DEF Drained, RefsOf
<1>4. q.node = i
  BY <1>3 DEF Captured, RawRef, Captures
<1> QED
  BY <1>2, <1>3, <1>4

(* The degradation policy: of a file with errors every clean file-level    *)
(* declaration is defined under each of its names and nothing else is, and *)
(* no reference comes from an error or from a declaration given up         *)
(* (collect_defs, collect_refs), for every tree and order of the matches.  *)
THEOREM DegradationCorrect == ExtractSpec => []DegradationPolicy
<1>1. PassInv => DegradationPolicy
  <2> SUFFICES ASSUME PassInv, Complete
               PROVE  DegradationPolicy
    BY DEF DegradationPolicy
  <2>c. Drained /\ facts = Extracted(file) /\ file \in Source
    BY CompleteIs
  <2> DEFINE Clean(i) == ~HasError(file, i) /\ ~HasErrorAncestor(file, i)
             Named(i) == {<<i, file[n].text>> : n \in {n \in NameNodes(file, i) : Naming(file, n)}}
             clean    == {j \in DefNodes(file) : Clean(j)}
  <2>d. facts.defs = Defs(rawDefs, file) /\ MergedDefs(rawDefs, file, DefMatches(file))
    BY <2>c DEF Extracted, ExtractedFile, Drained
  <2>1. \A i, x : x \in Named(i) <=> \E n \in NameNodes(file, i) : Naming(file, n) /\ x = <<i, file[n].text>>
    OBVIOUS
  <2>2. \A i \in DefNodes(file) : ~HasErrorAncestor(file, i)
    BY <2>c, DefsOutsideErrors
  <2> HIDE DEF Named
  <2>3. {<<d.node, d.def.name>> : d \in facts.defs} = UNION {Named(i) : i \in clean}
    <3>1. ASSUME NEW d \in facts.defs
          PROVE  <<d.node, d.def.name>> \in UNION {Named(i) : i \in clean}
      <4>1. PICK i \in DefNodes(file) : \E n \in NameNodes(file, i) :
              /\ ~HasError(file, i) /\ Naming(file, n)
              /\ d = DefAt(file, i, file[n].text, rawDefs[i].doc)
        <5>1. d \in Defs(rawDefs, file)
          BY <2>d
        <5>2. file \in Source /\ MergedDefs(rawDefs, file, DefMatches(file))
          BY <2>c, <2>d
        <5> QED
          BY <5>1, <5>2, DefNamed
      <4>2. PICK n \in NameNodes(file, i) :
              /\ ~HasError(file, i) /\ Naming(file, n)
              /\ d = DefAt(file, i, file[n].text, rawDefs[i].doc)
        BY <4>1
      <4>3. d.node = i /\ d.def.name = file[n].text
        <5>1. d = DefAt(file, i, file[n].text, rawDefs[i].doc)
          BY <4>2
        <5> QED
          BY <5>1, DefFields
      <4>4. <<d.node, d.def.name>> \in Named(i)
        BY <2>1, <4>2, <4>3
      <4>5. i \in clean
        BY <2>2, <4>2
      <4> QED
        BY <4>4, <4>5
    <3>2. ASSUME NEW i \in clean, NEW x \in Named(i)
          PROVE  x \in {<<d.node, d.def.name>> : d \in facts.defs}
      <4>1. PICK n \in NameNodes(file, i) : Naming(file, n) /\ x = <<i, file[n].text>>
        BY <2>1
      <4>2. PICK d : d = DefAt(file, i, file[n].text, rawDefs[i].doc)
        OBVIOUS
      <4>3. d \in facts.defs
        BY <2>c, <2>d, <3>2, <4>1, <4>2, NameDefined
      <4>4. d.node = i /\ d.def.name = file[n].text
        BY <4>2, DefFields
      <4> QED
        BY <4>1, <4>3, <4>4
    <3> QED
      BY <3>1, <3>2
  <2>4. ASSUME NEW r \in facts.refs
        PROVE  /\ ~HasErrorAncestor(file, r.node)
               /\ \A i \in DefNodes(file) : r.node \in Subtree(file, i) => Clean(i)
    <3>1. PICK q \in rawRefs : /\ Kept(file, q, Dropped(rawDefs, file), operands)
                               /\ r = RefAt(file, q, facts.defs)
      BY <2>c, RefIs
    <3>2. r.node = q.node
      BY <3>1 DEF RefAt
    <3>3. Dropped(rawDefs, file) = {i \in DefNodes(file) : HasError(file, i)}
      BY <2>c, <2>d, DefsMerged DEF Dropped
    <3> QED
      BY <2>2, <3>1, <3>2, <3>3 DEF Kept
  <2>5. DegradationPolicy <=>
          /\ {<<d.node, d.def.name>> : d \in facts.defs} = UNION {Named(i) : i \in clean}
          /\ \A r \in facts.refs :
               /\ ~HasErrorAncestor(file, r.node)
               /\ \A i \in DefNodes(file) : r.node \in Subtree(file, i) => Clean(i)
    BY DEF DegradationPolicy, DefNodes, Named, Naming
  <2> QED
    BY <2>3, <2>4, <2>5
<1> QED
  BY <1>1, PassStart, PassStep, PTL DEF ExtractSpec
-----------------------------------------------------------------------------
(* Which captures become references. *)

LEMMA ChildIs ==
  ASSUME NEW t \in Source, NEW n \in 1..Len(t), NEW k
  PROVE  k \in Children(t, n) <=> k \in 1..Len(t) /\ k > 1 /\ t[k].parent = n
<1>t. /\ Len(t) \in Nat /\ t[1].parent = 0
      /\ \A j \in 1..Len(t) : t[j].parent \in Nat /\ t[j].parent < j
  BY TreeIs
<1> QED
  BY <1>t DEF Children

LEMMA ParentAbove ==
  ASSUME NEW t \in Source, NEW i \in 1..Len(t)
  PROVE  /\ i \in Above(t, i)
         /\ i > 1 => t[i].parent \in Above(t, i) /\ t[i].parent \in 1..Len(t)
<1>t. Len(t) \in Nat /\ \A k \in 1..Len(t) : k > 1 => t[k].parent \in 1..(k - 1)
  BY TreeIs
<1>1. EndOf(t, i) \in i..Len(t)
  BY EndIs
<1>2. i \in Above(t, i)
  BY <1>1, <1>t DEF Above
<1>3. ASSUME i > 1
      PROVE  t[i].parent \in Above(t, i) /\ t[i].parent \in 1..Len(t)
  <2>1. t[i].parent \in 1..Len(t) /\ t[i].parent <= i
    BY <1>3, <1>t
  <2>2. i \in 2..Len(t)
    BY <1>3, <1>t
  <2>3. i \in Subtree(t, t[i].parent)
    BY <2>2, TreeShape
  <2>4. i <= EndOf(t, t[i].parent)
    BY <2>1, <2>3, Nested
  <2> QED
    BY <2>1, <2>4, <1>t DEF Above
<1> QED
  BY <1>2, <1>3

LEMMA ParentKindIs ==
  ASSUME NEW t \in Source, NEW s \in 1..Len(t)
  PROVE  /\ ParentKind(t, s) # "" => s > 1
         /\ s > 1 => ParentKind(t, s) = t[t[s].parent].kind
<1>1. Len(t) \in Nat /\ s \in Nat /\ s >= 1
  BY TreeIs
<1>2. CASE s = 1
  <2>1. ParentKind(t, s) = "" /\ ~(s > 1)
    BY <1>2 DEF ParentKind
  <2> QED
    BY <2>1
<1>3. CASE s # 1
  <2>1. s > 1
    BY <1>1, <1>3
  <2>2. ParentKind(t, s) = t[t[s].parent].kind
    BY <1>3 DEF ParentKind
  <2> QED
    BY <2>1, <2>2
<1> QED
  BY <1>2, <1>3

(* An identifier stands in a list or in its stead. *)
Slots(t, i) == {a \in Above(t, i) : a = i \/ a = t[i].parent}

LEMMA SlotIs ==
  ASSUME NEW t \in Source, NEW i \in 1..Len(t), t[i].kind = "identifier", NEW l \in 2..Len(t)
  PROVE  i \in DirectIdentifiers(t, l) <=> l \in Slots(t, i)
<1>t. Len(t) \in Nat /\ \A k \in 1..Len(t) : t[k].parent \in Nat /\ t[k].parent < k
  BY TreeIs
<1>0. l \in 1..Len(t) /\ l > 1
  BY <1>t
<1>1. i \in Above(t, i) /\ (i > 1 => t[i].parent \in Above(t, i))
  BY ParentAbove
<1>2. i \in Children(t, l) <=> i > 1 /\ t[i].parent = l
  BY <1>0, ChildIs
<1>3. t[i].parent = l => i > 1 /\ t[l].kind # "identifier"
  <2>1. ASSUME t[i].parent = l
        PROVE  i > 1
    BY <1>0, <1>t, <2>1
  <2>2. ASSUME t[i].parent = l
        PROVE  t[t[i].parent].kind # "identifier"
    <3>1. i \in 2..Len(t)
      BY <2>1, <2>2, <1>t
    <3> QED
      BY <3>1, TreeShape
  <2> QED
    BY <2>1, <2>2
<1>4. CASE t[l].kind = "identifier"
  <2>1. i \in DirectIdentifiers(t, l) <=> i = l
    BY <1>4 DEF DirectIdentifiers
  <2> QED
    BY <1>1, <1>3, <1>4, <2>1 DEF Slots
<1>5. CASE t[l].kind # "identifier"
  <2>1. i \in DirectIdentifiers(t, l) <=> i > 1 /\ t[i].parent = l
    BY <1>2, <1>5 DEF DirectIdentifiers
  <2>2. i # l
    BY <1>5
  <2> QED
    BY <1>1, <1>3, <2>1, <2>2 DEF Slots
<1> QED
  BY <1>4, <1>5

LEMMA FieldSlot ==
  ASSUME NEW t \in Source, NEW i \in 1..Len(t), t[i].kind = "identifier",
         NEW n \in 1..Len(t), NEW f
  PROVE  i \in UNION {DirectIdentifiers(t, l) : l \in Field(t, n, f)} <=>
         \E s \in Slots(t, i) : s > 1 /\ t[s].parent = n /\ t[s].field = f
<1>t. Len(t) \in Nat
  BY TreeIs
<1>1. \A s \in Slots(t, i) : s \in 1..Len(t)
  BY <1>t DEF Slots, Above
<1>2. \A l : l \in Field(t, n, f) <=> l \in 2..Len(t) /\ t[l].parent = n /\ t[l].field = f
  BY <1>t, ChildIs DEF Field
<1>3. \A l \in 2..Len(t) : i \in DirectIdentifiers(t, l) <=> l \in Slots(t, i)
  BY SlotIs
<1>4. \A s \in Slots(t, i) : s > 1 => s \in 2..Len(t)
  BY <1>1, <1>t
<1>5. ASSUME NEW l \in Field(t, n, f), i \in DirectIdentifiers(t, l)
      PROVE  \E s \in Slots(t, i) : s > 1 /\ t[s].parent = n /\ t[s].field = f
  <2>1. l \in Slots(t, i) /\ l > 1 /\ t[l].parent = n /\ t[l].field = f
    BY <1>2, <1>3, <1>5, <1>t
  <2> QED
    BY <2>1
<1>6. ASSUME NEW s \in Slots(t, i), s > 1, t[s].parent = n, t[s].field = f
      PROVE  \E l \in Field(t, n, f) : i \in DirectIdentifiers(t, l)
  <2>1. s \in Field(t, n, f) /\ i \in DirectIdentifiers(t, s)
    BY <1>2, <1>3, <1>4, <1>6
  <2> QED
    BY <2>1
<1> QED
  BY <1>5, <1>6

(* Seen from the declarations or from the name, it is the same places. *)
LEMMA DeclaredIs ==
  ASSUME NEW t \in Source, NEW i \in 1..Len(t), t[i].kind = "identifier"
  PROVE  i \in Declared(t) <=> GivesName(t, i)
<1> DEFINE Params == {"function_declaration", "parameter_declaration",
                      "variadic_parameter_declaration", "type_parameter_declaration"}
           In(n, f)  == \E s \in Slots(t, i) : s > 1 /\ t[s].parent = n /\ t[s].field = f
           Struct(n) == \E c \in OwnerLiteral(t, n) :
                          \E ty \in Field(t, c, "type") : StructShaped(t, ty)
           First(n)  == /\ i > 1 /\ t[i].parent = n
                        /\ \A j \in Children(t, n) : j <= i => t[j].kind = "identifier"
           By(n) == \/ t[n].kind \in Params /\ i > 1 /\ t[i].parent = n
                    \/ t[n].kind \in {"var_spec", "const_spec"} /\ First(n)
                    \/ t[n].kind = "type_switch_statement" /\ In(n, "alias")
                    \/ t[n].kind = "keyed_element" /\ Struct(n) /\ In(n, "key")
                    \/ t[n].kind = "short_var_declaration" /\ In(n, "left")
                    \/ t[n].kind = "range_clause" /\ t[n].text = ":=" /\ In(n, "left")
<1>t. Len(t) \in Nat /\ \A k \in 1..Len(t) : k > 1 => t[k].parent \in 1..(k - 1)
  BY TreeIs
<1>1. ASSUME NEW n \in 1..Len(t)
      PROVE  i \in DeclaredBy(t, n) <=> By(n)
  <2> DEFINE Direct(f) == UNION {DirectIdentifiers(t, l) : l \in Field(t, n, f)}
  <2>1. \A f : i \in Direct(f) <=> In(n, f)
    BY FieldSlot
  <2>2. i \in Children(t, n) <=> i > 1 /\ t[i].parent = n
    BY ChildIs
  <2> HIDE DEF Direct, In, Struct
  <2>3. CASE t[n].kind \in Params
    <3>1. DeclaredBy(t, n) = {k \in Children(t, n) : t[k].kind = "identifier"}
      BY <2>3 DEF DeclaredBy, DirectIdentifiers
    <3> QED
      BY <2>2, <2>3, <3>1
  <2>4. CASE t[n].kind \in {"var_spec", "const_spec"}
    <3>1. DeclaredBy(t, n) =
            {k \in Children(t, n) : \A j \in Children(t, n) : j <= k => t[j].kind = "identifier"}
      BY <2>4 DEF DeclaredBy
    <3> QED
      BY <2>2, <2>4, <3>1
  <2>5. CASE t[n].kind = "type_switch_statement"
    <3>1. DeclaredBy(t, n) = Direct("alias")
      BY <2>5 DEF DeclaredBy, Direct
    <3> QED
      BY <2>1, <2>5, <3>1
  <2>6. CASE t[n].kind = "keyed_element"
    <3>1. DeclaredBy(t, n) = IF Struct(n) THEN Direct("key") ELSE {}
      BY <2>6 DEF DeclaredBy, Direct, Struct
    <3> QED
      BY <2>1, <2>6, <3>1
  <2>7. CASE t[n].kind = "short_var_declaration"
    <3>1. DeclaredBy(t, n) = Direct("left")
      BY <2>7 DEF DeclaredBy, Direct
    <3> QED
      BY <2>1, <2>7, <3>1
  <2>8. CASE t[n].kind = "range_clause"
    <3>1. DeclaredBy(t, n) = IF t[n].text = ":=" THEN Direct("left") ELSE {}
      BY <2>8 DEF DeclaredBy, Direct
    <3> QED
      BY <2>1, <2>8, <3>1
  <2>9. CASE t[n].kind \notin Params \union {"var_spec", "const_spec", "type_switch_statement",
                "keyed_element", "short_var_declaration", "range_clause"}
    <3>1. DeclaredBy(t, n) = {}
      BY <2>9 DEF DeclaredBy
    <3> QED
      BY <2>9, <3>1
  <2> QED
    BY <2>3, <2>4, <2>5, <2>6, <2>7, <2>8, <2>9
<1>2. i \in Declared(t) <=> \E n \in 1..Len(t) : By(n)
  <2> HIDE DEF By
  <2> QED
    BY <1>1 DEF Declared
<1>3. i > 1 => /\ t[i].parent \in 1..Len(t) /\ ParentKind(t, i) = t[t[i].parent].kind
               /\ (First(t[i].parent) <=> \A j \in LeftOf(t, i) : t[j].kind = "identifier")
  <2> SUFFICES ASSUME i > 1
               PROVE  /\ t[i].parent \in 1..Len(t) /\ ParentKind(t, i) = t[t[i].parent].kind
                      /\ (First(t[i].parent) <=> \A j \in LeftOf(t, i) : t[j].kind = "identifier")
    OBVIOUS
  <2>1. t[i].parent \in 1..Len(t)
    BY <1>t
  <2>2. \A j : j \in Children(t, t[i].parent) => j \in Nat
    BY <1>t, <2>1, ChildIs
  <2>3. \A j \in Children(t, t[i].parent) : j <= i <=> j < i \/ j = i
    BY <2>2, <1>t
  <2>4. ParentKind(t, i) = t[t[i].parent].kind
    BY ParentKindIs
  <2>5. \A j : j \in LeftOf(t, i) <=> j \in Children(t, t[i].parent) /\ j < i
    BY DEF LeftOf
  <2>6. First(t[i].parent) <=> \A j \in LeftOf(t, i) : t[j].kind = "identifier"
    BY <2>3, <2>5
  <2> QED
    BY <2>1, <2>4, <2>6
<1>4. \A s \in Slots(t, i) : /\ s \in 1..Len(t) /\ (ParentKind(t, s) # "" => s > 1)
                             /\ (s > 1 => /\ t[s].parent \in 1..Len(t)
                                          /\ ParentKind(t, s) = t[t[s].parent].kind)
  <2>1. \A s \in Slots(t, i) : s \in 1..Len(t)
    BY <1>t DEF Slots, Above
  <2>2. \A s \in 1..Len(t) : s > 1 => t[s].parent \in 1..Len(t)
    BY <1>t
  <2> QED
    BY <2>1, <2>2, ParentKindIs
<1>5. ParentKind(t, i) # "" => i > 1
  BY ParentKindIs
<1> DEFINE Listed(s) ==
             \/ ParentKind(t, s) = "type_switch_statement" /\ t[s].field = "alias"
             \/ ParentKind(t, s) = "short_var_declaration" /\ t[s].field = "left"
             \/ /\ ParentKind(t, s) = "range_clause" /\ t[s].field = "left"
                /\ t[t[s].parent].text = ":="
             \/ ParentKind(t, s) = "keyed_element" /\ t[s].field = "key" /\ Struct(t[s].parent)
<1>6. GivesName(t, i) <=> \/ ParentKind(t, i) \in Params
                          \/ /\ ParentKind(t, i) \in {"var_spec", "const_spec"}
                             /\ \A j \in LeftOf(t, i) : t[j].kind = "identifier"
                          \/ \E s \in Slots(t, i) : Listed(s)
  BY DEF GivesName, Slots
<1>7. ASSUME NEW n \in 1..Len(t), By(n)
      PROVE  GivesName(t, i)
  <2>1. CASE t[n].kind \in Params /\ i > 1 /\ t[i].parent = n
    BY <1>3, <1>6, <2>1
  <2>2. CASE t[n].kind \in {"var_spec", "const_spec"} /\ First(n)
    <3> HIDE DEF Params
    <3>1. i > 1 /\ t[i].parent = n
      BY <2>2
    <3>2. First(t[i].parent)
      BY <2>2, <3>1
    <3> HIDE DEF First
    <3> QED
      BY <1>3, <1>6, <2>2, <3>1, <3>2
  <2>3. CASE /\ t[n].kind \in {"type_switch_statement", "keyed_element", "short_var_declaration",
                               "range_clause"}
             /\ ~(t[n].kind \in {"var_spec", "const_spec"} /\ First(n))
    <3>1. PICK s \in Slots(t, i) : /\ s > 1 /\ t[s].parent = n
                                   /\ \/ t[n].kind = "type_switch_statement" /\ t[s].field = "alias"
                                      \/ t[n].kind = "keyed_element" /\ t[s].field = "key" /\ Struct(n)
                                      \/ t[n].kind = "short_var_declaration" /\ t[s].field = "left"
                                      \/ /\ t[n].kind = "range_clause" /\ t[s].field = "left"
                                         /\ t[n].text = ":="
      <4> HIDE DEF Struct
      <4> QED
        BY <1>7, <2>3
    <3>2. ParentKind(t, s) = t[n].kind
      BY <1>4, <3>1
    <3> HIDE DEF Struct
    <3>3. Listed(s)
      BY <3>1, <3>2
    <3> HIDE DEF Listed
    <3> QED
      BY <1>6, <3>3
  <2> QED
    BY <1>7, <2>1, <2>2, <2>3
<1>8. ASSUME GivesName(t, i)
      PROVE  \E n \in 1..Len(t) : By(n)
  <2>1. CASE ParentKind(t, i) \in Params
    <3>1. i > 1
      BY <1>5, <2>1
    <3>2. By(t[i].parent)
      BY <1>3, <2>1, <3>1
    <3> HIDE DEF By
    <3> QED
      BY <1>3, <3>1, <3>2
  <2>2. CASE /\ ParentKind(t, i) \in {"var_spec", "const_spec"}
             /\ \A j \in LeftOf(t, i) : t[j].kind = "identifier"
    <3>1. i > 1
      BY <1>5, <2>2
    <3>2. By(t[i].parent)
      <4> HIDE DEF First
      <4> QED
        BY <1>3, <2>2, <3>1
    <3> HIDE DEF By
    <3> QED
      BY <1>3, <3>1, <3>2
  <2>3. ASSUME NEW s \in Slots(t, i), Listed(s)
        PROVE  \E n \in 1..Len(t) : By(n)
    <3>1. s > 1
      <4>1. ParentKind(t, s) # ""
        BY <2>3
      <4> QED
        BY <1>4, <4>1
    <3>2. t[s].parent \in 1..Len(t) /\ ParentKind(t, s) = t[t[s].parent].kind
      BY <1>4, <3>1
    <3> HIDE DEF Struct
    <3>3. By(t[s].parent)
      BY <2>3, <3>1, <3>2
    <3> HIDE DEF By
    <3> QED
      BY <3>2, <3>3
  <2> HIDE DEF By, Listed
  <2> QED
    BY <1>6, <1>8, <2>1, <2>2, <2>3
<1> HIDE DEF By
<1> QED
  BY <1>2, <1>7, <1>8

(* What is above a node other than itself is above its siblings. *)
LEMMA SiblingAbove ==
  ASSUME NEW t \in Source, NEW o \in 2..Len(t), NEW f \in 2..Len(t), t[o].parent = t[f].parent,
         NEW a \in Above(t, f), a # f
  PROVE  a \in Above(t, o)
<1> DEFINE p == t[f].parent
<1>t. Len(t) \in Nat /\ \A k \in 1..Len(t) : k > 1 => t[k].parent \in 1..(k - 1)
  BY TreeIs
<1>1. o \in 1..Len(t) /\ f \in 1..Len(t) /\ o > 1 /\ f > 1
  BY <1>t
<1>2. p \in 1..Len(t) /\ p <= f /\ p < o
  BY <1>1, <1>t
<1>3. a \in 1..Len(t) /\ a < f /\ f <= EndOf(t, a)
  BY <1>1, <1>t DEF Above
<1>4. EndOf(t, a) \in a..Len(t) /\ \A k \in (a + 1)..EndOf(t, a) : t[k].parent >= a
  BY <1>3, EndIs
<1>5. p >= a
  BY <1>1, <1>3, <1>4, <1>t
<1>6. p \in Subtree(t, a)
  BY <1>2, <1>3, <1>4, <1>5, <1>t DEF Subtree
<1>7. EndOf(t, p) <= EndOf(t, a)
  BY <1>3, <1>6, Nested
<1>8. o \in Subtree(t, p)
  BY TreeShape
<1>9. o <= EndOf(t, p)
  BY <1>2, <1>8, Nested
<1>10. EndOf(t, p) \in Nat
  <2>1. EndOf(t, p) \in p..Len(t)
    BY <1>2, EndIs
  <2> QED
    BY <1>2, <1>t, <2>1
<1> HIDE DEF p
<1>11. a <= o /\ o <= EndOf(t, a)
  BY <1>1, <1>2, <1>3, <1>4, <1>5, <1>7, <1>9, <1>10, <1>t
<1> QED
  BY <1>1, <1>3, <1>11, <1>t DEF Above

LEMMA OperandsAre ==
  ASSUME NEW t \in Source, NEW i \in Captures(t), t[i].kind = "identifier"
  PROVE  i \in OperandsOf(t, Captures(t)) <=> Qualifies(t, i)
<1>t. Len(t) \in Nat /\ \A k \in 1..Len(t) : k > 1 => t[k].parent \in 1..(k - 1)
  BY TreeIs
<1>0. i \in 1..Len(t) /\ \A k : k \in Captures(t) => k \in 1..Len(t)
  BY DEF Captures
<1>1. ASSUME i \in OperandsOf(t, Captures(t))
      PROVE  Qualifies(t, i)
  <2>1. PICK f \in Captures(t) : i \in CapturedOperand(t, f)
    BY <1>1 DEF OperandsOf
  <2>2. /\ t[f].kind = "field_identifier" /\ ParentKind(t, f) = "selector_expression"
        /\ i \in Operand(t, t[f].parent)
    BY <2>1 DEF CapturedOperand
  <2>3. f \in 1..Len(t) /\ f > 1 /\ t[t[f].parent].kind = "selector_expression"
    <3>1. f \in 1..Len(t) /\ ParentKind(t, f) # ""
      BY <1>0, <2>2
    <3> QED
      BY <2>2, <3>1, ParentKindIs
  <2>4. t[f].parent \in 1..Len(t)
    BY <1>t, <2>3
  <2>5. i \in Children(t, t[f].parent) /\ t[i].field = "operand"
    BY <2>2 DEF Operand, Field
  <2>6. i > 1 /\ t[i].parent = t[f].parent
    BY <2>4, <2>5, ChildIs
  <2>7. f \in Children(t, t[i].parent)
    BY <2>3, <2>4, <2>6, ChildIs
  <2>8. ParentKind(t, i) = "selector_expression"
    BY <1>0, <2>3, <2>6, ParentKindIs
  <2> QED
    BY <2>2, <2>5, <2>7, <2>8 DEF Qualifies
<1>2. ASSUME Qualifies(t, i)
      PROVE  i \in OperandsOf(t, Captures(t))
  <2>1. t[i].field = "operand" /\ ParentKind(t, i) = "selector_expression"
    BY <1>2 DEF Qualifies
  <2>2. PICK f \in Children(t, t[i].parent) : t[f].kind = "field_identifier"
    BY <1>2 DEF Qualifies
  <2>3. i > 1 /\ t[t[i].parent].kind = "selector_expression"
    <3>1. ParentKind(t, i) # ""
      BY <2>1
    <3> QED
      BY <1>0, <2>1, <3>1, ParentKindIs
  <2>4. t[i].parent \in 1..Len(t)
    BY <1>0, <1>t, <2>3
  <2>5. f \in 1..Len(t) /\ f > 1 /\ t[f].parent = t[i].parent
    BY <2>2, <2>4, ChildIs
  <2>6. ParentKind(t, f) = "selector_expression"
    BY <2>3, <2>5, ParentKindIs
  <2>7. i \in Children(t, t[f].parent)
    BY <1>0, <2>3, <2>4, <2>5, ChildIs
  <2>8. i \in CapturedOperand(t, f)
    BY <2>1, <2>2, <2>6, <2>7 DEF CapturedOperand, Operand, Field
  <2>9. f \in Captures(t)
    BY <2>2, <2>5 DEF Captures
  <2> QED
    BY <2>8, <2>9 DEF OperandsOf
<1> QED
  BY <1>1, <1>2

(* A capture that survives the filters, by its kind. *)
LEMMA KeptIs ==
  ASSUME NEW t \in Source, NEW i \in Captures(t), NEW dropped, NEW quals
  PROVE  (\E q \in Captured(t, i) : Kept(t, q, dropped, quals)) <=>
           /\ ~HasErrorAncestor(t, i) /\ \A d \in dropped : i \notin Subtree(t, d)
           /\ \/ /\ t[i].kind = "identifier" /\ t[i].text \notin Universe \union {"_"}
                 /\ i \notin Declared(t) /\ i \notin quals
              \/ t[i].kind = "type_identifier" /\ t[i].text \notin Universe /\ ~OwnName(t, i)
              \/ t[i].kind = "field_identifier" /\ ParentKind(t, i) = "selector_expression"
<1>1. CASE t[i].kind = "identifier"
  <2>1. Captured(t, i) = {RawRef(i, "name_ref", None)}
    BY <1>1 DEF Captured
  <2>2. RawRef(i, "name_ref", None).node = i /\ RawRef(i, "name_ref", None).kind = "name_ref"
    BY DEF RawRef
  <2> QED
    BY <1>1, <2>1, <2>2 DEF Kept
<1>2. CASE t[i].kind = "type_identifier"
  <2>1. PICK x : Captured(t, i) = {RawRef(i, "type_ref", x)}
    BY <1>2 DEF Captured
  <2>2. RawRef(i, "type_ref", x).node = i /\ RawRef(i, "type_ref", x).kind = "type_ref"
    BY DEF RawRef
  <2> QED
    BY <1>2, <2>1, <2>2 DEF Kept
<1>3. CASE t[i].kind = "field_identifier" /\ ParentKind(t, i) = "selector_expression"
  <2>1. PICK kind \in {"call_ref", "field_ref"} : \E x : Captured(t, i) = {RawRef(i, kind, x)}
    BY <1>3 DEF Captured
  <2>x. PICK x : Captured(t, i) = {RawRef(i, kind, x)}
    BY <2>1
  <2>2. RawRef(i, kind, x).node = i /\ RawRef(i, kind, x).kind = kind
    BY DEF RawRef
  <2> QED
    BY <1>3, <2>x, <2>2 DEF Kept
<1>4. CASE t[i].kind = "field_identifier" /\ ParentKind(t, i) # "selector_expression"
  <2>1. Captured(t, i) = {}
    BY <1>4 DEF Captured
  <2> QED
    BY <1>4, <2>1
<1> QED
  BY <1>1, <1>2, <1>3, <1>4 DEF Captures

(* Whether a capture becomes a reference is settled by its place in the    *)
(* tree (collect_refs): an operand or a name that is given never does,     *)
(* whichever match comes first, everything else outside the errors does,   *)
(* and the reference of a selector keeps its operand as qualifier.         *)
THEOREM PlacesDecide == ExtractSpec => []RefsByPlace
<1>1. PassInv => RefsByPlace
  <2> SUFFICES ASSUME PassInv, Complete
               PROVE  RefsByPlace
    BY DEF RefsByPlace
  <2>c. Drained /\ facts = Extracted(file) /\ file \in Source
    BY CompleteIs
  <2> DEFINE dropped  == Dropped(rawDefs, file)
             broken   == {i \in 1..Len(file) : IsDefNode(file, i) /\ HasError(file, i)}
             Clean(i) == /\ ~HasErrorAncestor(file, i)
                         /\ \A b \in broken : i \notin Subtree(file, b)
             clean    == {i \in Captures(file) : Clean(i)}
             ordinary == {i \in clean : file[i].text \notin Universe}
             names    == {i \in ordinary : /\ file[i].kind = "identifier" /\ file[i].text # "_"
                                           /\ ~GivesName(file, i) /\ ~Qualifies(file, i)}
             types    == {i \in ordinary : /\ file[i].kind = "type_identifier"
                                           /\ ~OwnName(file, i)}
             selected == {i \in clean : /\ file[i].kind = "field_identifier"
                                        /\ ParentKind(file, i) = "selector_expression"}
             Lives(i) == \E q \in Captured(file, i) : Kept(file, q, dropped, operands)
  <2>t. Len(file) \in Nat /\ \A k \in 1..Len(file) : k > 1 => file[k].parent \in 1..(k - 1)
    BY <2>c, TreeIs
  <2>1. dropped = broken
    BY <2>c, DefsMerged DEF Drained, Dropped, DefNodes
  <2>2. /\ facts.defs = Defs(rawDefs, file)
        /\ facts.refs = {RefAt(file, q, facts.defs) :
                           q \in {p \in rawRefs : Kept(file, p, dropped, operands)}}
    BY <2>c DEF Extracted, ExtractedFile
  <2>3. \A q : RefAt(file, q, facts.defs).node = q.node
    BY DEF RefAt
  <2>4. \A i \in Captures(file) : \A q \in Captured(file, i) : q \in rawRefs /\ q.node = i
    BY <2>c DEF Drained, RefsOf, Captured, RawRef, Captures
  <2>5. ASSUME NEW i \in Captures(file), NEW q \in Captured(file, i),
               Kept(file, q, dropped, operands)
        PROVE  RefAt(file, q, facts.defs) \in facts.refs /\ RefAt(file, q, facts.defs).node = i
    <3> HIDE DEF dropped
    <3> QED
      BY <2>2, <2>3, <2>4, <2>5
  <2>6. {r.node : r \in facts.refs} = {i \in Captures(file) : Lives(i)}
    <3>1. ASSUME NEW r \in facts.refs
          PROVE  r.node \in Captures(file) /\ Lives(r.node)
      <4>1. PICK q \in rawRefs : /\ Kept(file, q, dropped, operands)
                                 /\ r = RefAt(file, q, facts.defs)
                                 /\ q.node \in Captures(file) /\ q \in Captured(file, q.node)
        BY <2>c, RefIs
      <4> QED
        BY <2>3, <4>1
    <3>2. ASSUME NEW i \in Captures(file), Lives(i)
          PROVE  i \in {r.node : r \in facts.refs}
      <4>1. PICK q \in Captured(file, i) : Kept(file, q, dropped, operands)
        BY <3>2
      <4> HIDE DEF dropped
      <4> QED
        BY <2>5, <4>1
    <3> HIDE DEF Lives
    <3> QED
      BY <3>1, <3>2
  <2>7. ASSUME NEW i \in Captures(file)
        PROVE  Lives(i) <=> i \in names \union types \union selected
    <3>1. Lives(i) <=>
            /\ Clean(i)
            /\ \/ /\ file[i].kind = "identifier" /\ file[i].text \notin Universe \union {"_"}
                  /\ i \notin Declared(file) /\ i \notin operands
               \/ file[i].kind = "type_identifier" /\ file[i].text \notin Universe /\ ~OwnName(file, i)
               \/ file[i].kind = "field_identifier" /\ ParentKind(file, i) = "selector_expression"
      <4> HIDE DEF broken
      <4> QED
        BY <2>1, <2>c, KeptIs
    <3>2. file[i].kind = "identifier" =>
            /\ i \in Declared(file) <=> GivesName(file, i)
            /\ i \in operands <=> Qualifies(file, i)
      <4>1. i \in 1..Len(file)
        BY DEF Captures
      <4>2. operands = OperandsOf(file, Captures(file))
        BY <2>c DEF Drained
      <4> QED
        BY <2>c, <4>1, <4>2, DeclaredIs, OperandsAre
    <3> HIDE DEF Lives, Clean
    <3> QED
      BY <3>1, <3>2
  <2>8. {r.node : r \in facts.refs} = names \union types \union selected
    <3>1. names \union types \union selected \subseteq Captures(file)
      OBVIOUS
    <3> HIDE DEF names, types, selected, Lives
    <3> QED
      BY <2>6, <2>7, <3>1
  <2>9. ASSUME NEW o \in clean, file[o].kind = "identifier", Qualifies(file, o)
        PROVE  \E r \in facts.refs : /\ r.ref.qualifier = file[o].text
                                     /\ file[r.node].parent = file[o].parent
    <3>1. PICK f \in Children(file, file[o].parent) : file[f].kind = "field_identifier"
      BY <2>9 DEF Qualifies
    <3>2. o \in 1..Len(file) /\ file[o].field = "operand"
          /\ ParentKind(file, o) = "selector_expression"
      BY <2>9 DEF Qualifies, Captures
    <3>3. o > 1 /\ file[file[o].parent].kind = "selector_expression"
      <4>1. ParentKind(file, o) # ""
        BY <3>2
      <4> QED
        BY <2>c, <3>2, <4>1, ParentKindIs
    <3>4. file[o].parent \in 1..Len(file)
      BY <2>t, <3>2, <3>3
    <3>5. f \in 1..Len(file) /\ f > 1 /\ file[f].parent = file[o].parent
      BY <2>c, <3>1, <3>4, ChildIs
    <3>6. ParentKind(file, f) = "selector_expression" /\ f \in Captures(file)
      <4>1. ParentKind(file, f) = "selector_expression"
        BY <2>c, <3>3, <3>5, ParentKindIs
      <4> QED
        BY <3>1, <3>5, <4>1 DEF Captures
    <3>7. \A a \in Above(file, f) : a # f => a \in Above(file, o)
      <4>1. o \in 2..Len(file) /\ f \in 2..Len(file)
        BY <2>t, <3>2, <3>3, <3>5
      <4> QED
        BY <2>c, <3>5, <4>1, SiblingAbove
    <3>8. ~HasErrorAncestor(file, f)
      BY <2>9, <3>1, <3>7 DEF HasErrorAncestor
    <3>9. \A b \in broken : f \notin Subtree(file, b)
      <4> SUFFICES ASSUME NEW b \in broken, f \in Subtree(file, b)
                   PROVE  FALSE
        OBVIOUS
      <4>1. b \in DefNodes(file) /\ b \in 1..Len(file)
        BY DEF DefNodes
      <4>2. b # f
        BY <2>c, <3>1, <4>1, DefNodeIs DEF Callables, Specs
      <4>3. b <= f /\ f <= EndOf(file, b)
        BY <2>c, <4>1, Nested
      <4>4. b \in Above(file, f)
        BY <2>t, <3>5, <4>1, <4>3 DEF Above
      <4>5. b \in Above(file, o)
        BY <3>7, <4>2, <4>4
      <4>6. EndOf(file, b) \in Nat
        <5>1. EndOf(file, b) \in b..Len(file)
          BY <2>c, <4>1, EndIs
        <5> QED
          BY <2>t, <4>1, <5>1
      <4>7. o \in Subtree(file, b)
        BY <2>t, <3>2, <4>1, <4>5, <4>6 DEF Above, Subtree
      <4> QED
        BY <2>9, <4>7
    <3>10. Operand(file, file[f].parent) = {o}
      <4>1. o \in Field(file, file[o].parent, "operand")
        <5>1. o \in Children(file, file[o].parent)
          BY <2>c, <3>2, <3>3, <3>4, ChildIs
        <5> QED
          BY <3>2, <5>1 DEF Field
      <4>2. \A x \in Field(file, file[o].parent, "operand") : x = o
        BY <2>c, <3>4, <4>1, TreeShape
      <4> QED
        BY <2>9, <3>5, <4>1, <4>2 DEF Operand
    <3>11. PICK kind \in {"call_ref", "field_ref"} :
             Captured(file, f) = {RawRef(f, kind, TextOf(file, {o}))}
      BY <3>1, <3>6, <3>10 DEF Captured
    <3>12. TextOf(file, {o}) = file[o].text
      BY DEF TextOf
    <3>13. PICK q : q = RawRef(f, kind, file[o].text)
      OBVIOUS
    <3>14. q \in Captured(file, f) /\ q.node = f /\ q.kind = kind /\ q.qualifier = file[o].text
      BY <3>11, <3>12, <3>13 DEF RawRef
    <3>15. Kept(file, q, dropped, operands)
      <4> HIDE DEF broken, dropped
      <4> QED
        BY <2>1, <3>8, <3>9, <3>14 DEF Kept
    <3>16. RefAt(file, q, facts.defs) \in facts.refs /\ RefAt(file, q, facts.defs).node = f
      BY <2>5, <3>6, <3>14, <3>15
    <3>17. RefAt(file, q, facts.defs).ref.qualifier = file[o].text
      BY <3>14 DEF RefAt, Ref
    <3> QED
      BY <3>5, <3>16, <3>17
  <2> QED
    BY <2>8, <2>9 DEF RefsByPlace
<1> QED
  BY <1>1, PassStart, PassStep, PTL DEF ExtractSpec
-----------------------------------------------------------------------------
(* Attribution. *)

(* Finitely many numbers have a bound, and so a set of them has a largest. *)
LEMMA BoundOf ==
  ASSUME NEW n \in Nat, NEW f, \A k \in 1..n : f[k] \in Nat
  PROVE  \E b \in Nat : \A k \in 1..n : f[k] <= b
<1> DEFINE Bad == {m \in 0..n : \A b \in Nat : \E k \in 1..m : ~(f[k] <= b)}
<1>1. CASE Bad = {}
  <2>1. n \notin Bad /\ n \in 0..n
    BY <1>1
  <2> QED
    BY <2>1
<1>2. CASE Bad # {}
  <2>1. Bad \in SUBSET Nat
    OBVIOUS
  <2>2. PICK m \in Bad : \A k \in Bad : m <= k
    <3> HIDE DEF Bad
    <3>1. Min(Bad) \in Bad /\ \A k \in Bad : Min(Bad) <= k
      BY <1>2, <2>1, LeastOf
    <3> QED
      BY <3>1
  <2>3. m \in 0..n /\ \A b \in Nat : \E k \in 1..m : ~(f[k] <= b)
    OBVIOUS
  <2>4. m # 0
    <3>1. \A k \in 1..0 : FALSE
      OBVIOUS
    <3> QED
      BY <2>3, <3>1
  <2>5. m - 1 \in 0..n /\ m - 1 \notin Bad
    <3>1. m - 1 \in 0..n /\ ~(m <= m - 1)
      BY <2>3, <2>4
    <3> HIDE DEF Bad
    <3> QED
      BY <2>2, <3>1
  <2>6. PICK b \in Nat : \A k \in 1..(m - 1) : f[k] <= b
    BY <2>5
  <2>7. f[m] \in Nat
    BY <2>3, <2>4
  <2>8. PICK c \in Nat : b <= c /\ f[m] <= c
    <3>1. CASE b <= f[m]
      BY <2>7, <3>1
    <3>2. CASE ~(b <= f[m])
      BY <2>7, <3>2
    <3> QED
      BY <3>1, <3>2
  <2>9. \A k \in 1..m : f[k] <= c
    <3> SUFFICES ASSUME NEW k \in 1..m
                 PROVE  f[k] <= c
      OBVIOUS
    <3>1. CASE k = m
      BY <2>8, <3>1
    <3>2. CASE k # m
      <4>1. k \in 1..(m - 1) /\ f[k] \in Nat
        BY <2>3, <3>2
      <4> QED
        BY <2>6, <2>8, <4>1
    <3> QED
      BY <3>1, <3>2
  <2> QED
    BY <2>3, <2>9
<1> QED
  BY <1>1, <1>2

LEMMA LargestOf ==
  ASSUME NEW S \in SUBSET Nat, S # {}, NEW b \in Nat, \A x \in S : x <= b
  PROVE  \E x \in S : \A y \in S : y <= x
<1> DEFINE D == {b - x : x \in S}
<1>1. D \in SUBSET Nat /\ D # {}
  <2>1. \A x \in S : b - x \in Nat
    OBVIOUS
  <2> QED
    BY <2>1
<1>2. PICK d \in D : \A e \in D : d <= e
  <2> HIDE DEF D
  <2>1. Min(D) \in D /\ \A e \in D : Min(D) <= e
    BY <1>1, LeastOf
  <2> QED
    BY <2>1
<1>3. PICK x \in S : d = b - x
  OBVIOUS
<1>4. ASSUME NEW y \in S
      PROVE  y <= x
  <2>1. d <= b - y
    BY <1>2
  <2> QED
    BY <1>3, <2>1
<1> QED
  BY <1>4

(* Where a definition is, and the rank of its name. *)
LEMMA DefPlaced ==
  ASSUME NEW t \in Source, NEW raw, MergedDefs(raw, t, DefMatches(t)), NEW d \in Defs(raw, t)
  PROVE  /\ d.node \in DefNodes(t) /\ ~HasError(t, d.node)
         /\ \E n \in NameNodes(t, d.node) : Naming(t, n) /\ d.def.name = t[n].text
<1>1. PICK i \in DefNodes(t) : \E n \in NameNodes(t, i) :
        /\ ~HasError(t, i) /\ Naming(t, n)
        /\ d = DefAt(t, i, t[n].text, raw[i].doc)
  BY DefNamed
<1>2. PICK n \in NameNodes(t, i) :
        /\ ~HasError(t, i) /\ Naming(t, n)
        /\ d = DefAt(t, i, t[n].text, raw[i].doc)
  BY <1>1
<1>3. d.node = i /\ d.def.name = t[n].text
  <2>1. d = DefAt(t, i, t[n].text, raw[i].doc)
    BY <1>2
  <2> QED
    BY <2>1, DefFields
<1> QED
  BY <1>2, <1>3

LEMMA NamesRanked ==
  ASSUME NEW t \in Source, NEW i \in DefNodes(t)
  PROVE  /\ \A n \in NameNodes(t, i) : Naming(t, n) => NameRank[t[n].text] \in Nat
         /\ \E b \in Nat : \A n \in NameNodes(t, i) : Naming(t, n) => NameRank[t[n].text] <= b
<1> DEFINE f == [k \in 1..Len(t) |-> IF k \in NameNodes(t, i) /\ Naming(t, k)
                                     THEN NameRank[t[k].text] ELSE 0]
<1>1. \A n \in NameNodes(t, i) : Naming(t, n) => NameRank[t[n].text] \in Nat
  BY NameRankShape DEF DefNodes, Naming
<1>2. Len(t) \in Nat /\ i \in 1..Len(t)
  BY TreeIs DEF DefNodes
<1>3. \A n \in NameNodes(t, i) : n \in 1..Len(t)
  BY <1>2 DEF NameNodes, Field, Children
<1>4. \A k \in 1..Len(t) : f[k] \in Nat
  BY <1>1
<1>5. \A n \in NameNodes(t, i) : Naming(t, n) => f[n] = NameRank[t[n].text]
  BY <1>3
<1> HIDE DEF f
<1>6. PICK b \in Nat : \A k \in 1..Len(t) : f[k] <= b
  BY <1>2, <1>4, BoundOf
<1> QED
  BY <1>1, <1>3, <1>5, <1>6

(* The last definition that starts at or before a reference is at the node *)
(* that encloses it, if one does.                                          *)
LEMMA LastEncloses ==
  ASSUME NEW t \in Source, NEW raw, MergedDefs(raw, t, DefMatches(t)),
         NEW defs, defs = Defs(raw, t), NEW d \in defs, NEW i \in Subtree(t, d.node)
  PROVE  LastDef(defs, i) # {} /\ \A e \in LastDef(defs, i) : e.node = d.node
<1> DEFINE upTo == {e \in defs : e.node <= i}
           Same == {e \in defs : e.node = d.node}
           ranks == {NameRank[e.def.name] : e \in Same}
<1>t. Len(t) \in Nat /\ \A e \in defs : e.node \in DefNodes(t) /\ e.node \in 1..Len(t)
  BY TreeIs, DefPlaced DEF DefNodes
<1>1. i \in 1..Len(t) /\ d.node <= i /\ i <= EndOf(t, d.node)
  BY <1>t, Nested
<1>2. \A e \in upTo : e.node <= d.node
  <2> SUFFICES ASSUME NEW e \in upTo, d.node < e.node
               PROVE  FALSE
    BY <1>t
  <2>1. e.node \in Subtree(t, d.node)
    <3>1. EndOf(t, d.node) \in Nat
      BY <1>t, EndIs
    <3> QED
      BY <1>t, <1>1, <3>1 DEF Subtree
  <2>2. e.node \in DefNodes(t) /\ d.node \in DefNodes(t)
    BY <1>t
  <2>3. d.node = e.node
    BY <2>1, <2>2, DefsDisjoint
  <2> QED
    BY <1>t, <2>3
<1>3. Same \subseteq upTo /\ d \in Same
  BY <1>1
<1>4. PICK b \in Nat : \A n \in NameNodes(t, d.node) : Naming(t, n) => NameRank[t[n].text] <= b
  BY <1>t, NamesRanked
<1>5. \A e \in Same : NameRank[e.def.name] \in Nat /\ NameRank[e.def.name] <= b
  <2> SUFFICES ASSUME NEW e \in Same
               PROVE  NameRank[e.def.name] \in Nat /\ NameRank[e.def.name] <= b
    OBVIOUS
  <2>1. PICK n \in NameNodes(t, d.node) : Naming(t, n) /\ e.def.name = t[n].text
    <3>1. e \in Defs(raw, t) /\ e.node = d.node
      OBVIOUS
    <3> QED
      BY <3>1, DefPlaced
  <2>2. NameRank[t[n].text] \in Nat
    BY <1>t, <2>1, NamesRanked
  <2> QED
    BY <1>4, <2>1, <2>2
<1>6. ranks \in SUBSET Nat /\ ranks # {} /\ \A x \in ranks : x <= b
  BY <1>3, <1>5
<1>7. PICK x \in ranks : \A y \in ranks : y <= x
  <2> HIDE DEF ranks
  <2> QED
    BY <1>6, LargestOf
<1>8. PICK top \in Same : x = NameRank[top.def.name]
  OBVIOUS
<1>9. \A e \in Same : NameRank[e.def.name] <= NameRank[top.def.name]
  BY <1>7, <1>8
<1>10. \A e : e \in LastDef(defs, i) <=>
         /\ e \in upTo
         /\ \A g \in upTo : \/ g.node < e.node
                            \/ g.node = e.node /\ NameRank[g.def.name] <= NameRank[e.def.name]
  BY DEF LastDef
<1>11. top \in LastDef(defs, i)
  <2>1. \A g \in upTo : g.node < top.node \/ (g.node = top.node /\ g \in Same)
    BY <1>t, <1>2
  <2> QED
    BY <1>3, <1>9, <1>10, <2>1
<1>12. \A e \in LastDef(defs, i) : e.node = d.node
  BY <1>t, <1>2, <1>3, <1>10
<1> QED
  BY <1>11, <1>12

(* Every reference is attributed to a definition around it, and to none    *)
(* only if none is: one search for the last definition before it suffices, *)
(* as definitions do not nest (container of collect_refs).                 *)
THEOREM ContainersCorrect == ExtractSpec => []ContainersEnclose
<1>1. PassInv => ContainersEnclose
  <2> SUFFICES ASSUME PassInv, Complete, NEW r \in facts.refs
               PROVE  LET around == {d \in facts.defs : r.node \in Subtree(file, d.node)}
                      IN  IF around = {} THEN r.container = None
                          ELSE \E d \in around : r.container = d.def.qual
    BY DEF ContainersEnclose
  <2> DEFINE defs   == facts.defs
             i      == r.node
             around == {d \in defs : i \in Subtree(file, d.node)}
  <2>c. Drained /\ facts = Extracted(file) /\ file \in Source
    BY CompleteIs
  <2>d. defs = Defs(rawDefs, file) /\ MergedDefs(rawDefs, file, DefMatches(file))
    BY <2>c DEF Extracted, ExtractedFile, Drained
  <2>1. i \in 1..Len(file) /\ r.container = Container(file, defs, i)
    <3>1. PICK q \in rawRefs : r = RefAt(file, q, facts.defs) /\ q.node \in Captures(file)
      BY <2>c, RefIs
    <3> QED
      BY <3>1 DEF RefAt, Captures
  <2>2. Len(file) \in Nat /\ \A e \in defs : e.node \in 1..Len(file)
    BY <2>c, <2>d, TreeIs, DefPlaced DEF DefNodes
  <2>3. CASE around = {}
    <3>1. \A d \in LastDef(defs, i) : ~(EndOf(file, d.node) >= EndOf(file, i))
      <4> SUFFICES ASSUME NEW d \in LastDef(defs, i), EndOf(file, d.node) >= EndOf(file, i)
                   PROVE  FALSE
        OBVIOUS
      <4>1. d \in defs /\ d.node <= i
        BY DEF LastDef
      <4>2. EndOf(file, i) \in Nat /\ i <= EndOf(file, i) /\ EndOf(file, d.node) \in Nat
        BY <2>c, <2>1, <2>2, <4>1, EndIs
      <4>3. i \in Subtree(file, d.node)
        BY <2>1, <2>2, <4>1, <4>2 DEF Subtree
      <4> QED
        BY <2>3, <4>1, <4>3
    <3> QED
      BY <2>1, <2>3, <3>1 DEF Container
  <2>4. CASE around # {}
    <3>1. PICK d \in defs : i \in Subtree(file, d.node)
      BY <2>4
    <3>2. LastDef(defs, i) # {} /\ \A e \in LastDef(defs, i) : e.node = d.node
      BY <2>c, <2>d, <3>1, LastEncloses
    <3>3. EndOf(file, d.node) >= EndOf(file, i)
      <4>1. EndOf(file, i) <= EndOf(file, d.node)
        BY <2>c, <2>2, <3>1, Nested
      <4>2. EndOf(file, i) \in Nat /\ EndOf(file, d.node) \in Nat
        BY <2>c, <2>1, <2>2, <3>1, EndIs
      <4> QED
        BY <4>1, <4>2
    <3>4. PICK e : e = CHOOSE g \in LastDef(defs, i) : TRUE
      OBVIOUS
    <3>5. e \in LastDef(defs, i)
      BY <3>2, <3>4
    <3>6. r.container = e.def.qual
      BY <2>1, <3>2, <3>3, <3>4, <3>5 DEF Container
    <3>7. e \in around
      BY <3>1, <3>2, <3>5 DEF LastDef
    <3> QED
      BY <2>4, <3>6, <3>7
  <2> QED
    BY <2>3, <2>4
<1> QED
  BY <1>1, PassStart, PassStep, PTL DEF ExtractSpec
-----------------------------------------------------------------------------
(* The shape of the result. *)

LEMMA ReceiverIs ==
  ASSUME NEW t \in Source, NEW i \in 1..Len(t)
  PROVE  /\ Receiver(t, i) # None => t[i].kind = "method_declaration"
         /\ t[i].kind = "method_declaration" /\ GoReceiver(t, i) => Receiver(t, i) # None
<1> DEFINE Inside(n, kind) == IF t[n].kind = kind THEN FirstChild(t, n) ELSE n
           types == UNION {Field(t, p, "type") :
                             p \in UNION {Children(t, r) : r \in Field(t, i, "receiver")}}
           base  == {Inside(Inside(n, "pointer_type"), "generic_type") : n \in types}
           named == {n \in base : t[n].kind \in {"type_identifier", "identifier"}}
<1>t. Len(t) \in Nat
  BY TreeIs
<1>1. Receiver(t, i) = IF t[i].kind # "method_declaration" \/ named = {} THEN None
                       ELSE t[CHOOSE n \in named : TRUE].text
  BY DEF Receiver
<1>2. \A k \in 1..Len(t) : t[k].kind \in {"pointer_type", "generic_type"} =>
        FirstChild(t, k) \in 1..Len(t)
  <2> SUFFICES ASSUME NEW k \in 1..Len(t), t[k].kind \in {"pointer_type", "generic_type"}
               PROVE  FirstChild(t, k) \in 1..Len(t)
    OBVIOUS
  <2>1. Children(t, k) # {}
    BY TreeShape
  <2>2. Children(t, k) \in SUBSET Nat /\ \A c \in Children(t, k) : c \in 1..Len(t)
    BY <1>t DEF Children
  <2>3. Min(Children(t, k)) \in Children(t, k)
    BY <2>1, <2>2, LeastOf
  <2> QED
    BY <2>2, <2>3 DEF FirstChild
<1>3. \A k \in 1..Len(t) : \A kind \in {"pointer_type", "generic_type"} : Inside(k, kind) \in 1..Len(t)
  BY <1>2
<1>4. \A n \in types : n \in 1..Len(t)
  <2>1. \A r \in Field(t, i, "receiver") : r \in 1..Len(t)
    BY <1>t DEF Field, Children
  <2>2. \A r \in 1..Len(t) : \A p \in Children(t, r) : p \in 1..Len(t)
    BY <1>t DEF Children
  <2>3. \A p \in 1..Len(t) : \A n \in Field(t, p, "type") : n \in 1..Len(t)
    BY <1>t DEF Field, Children
  <2> QED
    BY <2>1, <2>2, <2>3
<1>5. \A n \in types : Inside(Inside(n, "pointer_type"), "generic_type") \in 1..Len(t)
  <2> HIDE DEF Inside, types
  <2> QED
    BY <1>3, <1>4
<1>6. \A n \in named : n \in 1..Len(t)
  <2> HIDE DEF types
  <2> QED
    BY <1>5
<1>7. GoReceiver(t, i) => named # {}
  <2> SUFFICES ASSUME GoReceiver(t, i)
               PROVE  named # {}
    OBVIOUS
  <2>1. PICK r \in Field(t, i, "receiver") : \E p \in Children(t, r) : \E n \in Field(t, p, "type") :
          t[Inside(Inside(n, "pointer_type"), "generic_type")].kind = "type_identifier"
    BY DEF GoReceiver
  <2>2. PICK p \in Children(t, r) : \E n \in Field(t, p, "type") :
          t[Inside(Inside(n, "pointer_type"), "generic_type")].kind = "type_identifier"
    BY <2>1
  <2>3. PICK n \in Field(t, p, "type") :
          t[Inside(Inside(n, "pointer_type"), "generic_type")].kind = "type_identifier"
    BY <2>2
  <2>4. n \in types
    BY <2>3
  <2> HIDE DEF types, Inside
  <2> QED
    BY <2>3, <2>4
<1> HIDE DEF named
<1> QED
  BY <1>1, <1>6, <1>7, NoneIsNoNode

LEMMA KindIs ==
  ASSUME NEW t \in Source, NEW i \in DefNodes(t)
  PROVE  KindOf(t, i) \in DefKind /\ (KindOf(t, i) = "method" <=> t[i].kind = "method_declaration")
<1>1. t[i].kind \in {"function_declaration", "method_declaration", "const_spec", "var_spec",
                     "type_spec", "type_alias"}
  BY DefNodeIs DEF Callables, Specs
<1> DEFINE shape == {t[k].kind : k \in Field(t, i, "type")}
<1>2. t[i].kind = "type_spec" => KindOf(t, i) \in TypeKind
  <2>1. t[i].kind = "type_spec" =>
          KindOf(t, i) = CASE "struct_type" \in shape    -> "struct"
                           [] "interface_type" \in shape -> "interface"
                           [] OTHER                      -> "type"
    BY DEF KindOf
  <2> HIDE DEF shape
  <2> QED
    BY <2>1 DEF TypeKind
<1>3. t[i].kind # "type_spec" =>
        KindOf(t, i) = CASE t[i].kind = "function_declaration" -> "function"
                         [] t[i].kind = "method_declaration"   -> "method"
                         [] t[i].kind = "const_spec"           -> "const"
                         [] t[i].kind = "var_spec"             -> "var"
                         [] t[i].kind = "type_alias"           -> "type"
  BY <1>1 DEF KindOf
<1> QED
  BY <1>1, <1>2, <1>3 DEF DefKind, TypeKind

(* The result has the shape the resolver and the store rely on: the kinds  *)
(* of the schema, a container for methods only, and one for each method    *)
(* whose receiver is of a form Go allows (receiver_type_name).             *)
THEOREM TypeCorrect == ExtractSpec => []ExtractTypeOK
<1>1. PassInv => ExtractTypeOK
  <2> SUFFICES ASSUME PassInv
               PROVE  ExtractTypeOK
    OBVIOUS
  <2>1. phase # "done" => operands \subseteq Captures(file)
    <3>1. \A i \in Captures(file) : CapturedOperand(file, i) \subseteq Captures(file)
      <4> SUFFICES ASSUME NEW i \in Captures(file), NEW o \in CapturedOperand(file, i)
                   PROVE  o \in Captures(file)
        OBVIOUS
      <4>1. o \in Operand(file, file[i].parent)
        BY DEF CapturedOperand
      <4>2. Len(file) \in Nat /\ file[i].parent \in Nat
        BY TreeIs DEF PassInv, Captures
      <4> QED
        BY <4>1, <4>2 DEF Operand, Field, Children, Captures
    <3>2. ASSUME NEW S, S \subseteq Captures(file)
          PROVE  OperandsOf(file, S) \subseteq Captures(file)
      BY <3>1, <3>2 DEF OperandsOf
    <3>3. Captures(file) \ pending \subseteq Captures(file)
      OBVIOUS
    <3> QED
      BY <3>2, <3>3 DEF PassInv
  <2>2. ASSUME Complete, NEW d \in facts.defs
        PROVE  /\ d.def.kind \in DefKind
               /\ d.container # None => d.def.kind = "method"
               /\ d.def.kind = "method" /\ GoReceiver(file, d.node) => d.container # None
               /\ Len(d.def.qual) = IF d.container = None THEN 1 ELSE 2
    <3>c. Drained /\ facts = Extracted(file) /\ file \in Source
      BY <2>2, CompleteIs
    <3>d. d \in Defs(rawDefs, file) /\ MergedDefs(rawDefs, file, DefMatches(file))
      BY <3>c, <2>2 DEF Extracted, ExtractedFile, Drained
    <3>1. PICK i, n, doc : i \in DefNodes(file) /\ d = DefAt(file, i, n, doc)
      <4>1. PICK i \in DefNodes(file) : \E n \in NameNodes(file, i) :
              /\ ~HasError(file, i) /\ Naming(file, n)
              /\ d = DefAt(file, i, file[n].text, rawDefs[i].doc)
        BY <3>c, <3>d, DefNamed
      <4>2. PICK n \in NameNodes(file, i) : d = DefAt(file, i, file[n].text, rawDefs[i].doc)
        BY <4>1
      <4> QED
        BY <4>2
    <3>2. /\ d.node = i /\ d.def.kind = KindOf(file, i) /\ d.container = Receiver(file, i)
          /\ Len(d.def.qual) = IF Receiver(file, i) = None THEN 1 ELSE 2
      BY <3>1, DefFields, DefQualified
    <3>3. i \in DefNodes(file) /\ i \in 1..Len(file)
      BY <3>1 DEF DefNodes
    <3> QED
      BY <3>2, <3>3, <3>c, KindIs, ReceiverIs
  <2>3. ASSUME Complete, NEW r \in facts.refs
        PROVE  r.ref.kind \in RefKind
    <3>1. Drained /\ facts = Extracted(file) /\ file \in Source
      BY <2>3, CompleteIs
    <3>2. PICK q : r = RefAt(file, q, facts.defs) /\ q \in Captured(file, q.node)
                     /\ q.node \in Captures(file)
      BY <2>3, <3>1, RefIs
    <3>3. q.kind \in RefKind
      BY <3>2 DEF Captured, Captures, RawRef, RefKind
    <3> QED
      BY <3>2, <3>3 DEF RefAt, Ref
  <2> QED
    BY <2>1, <2>2, <2>3 DEF ExtractTypeOK, PassInv
<1> QED
  BY <1>1, PassStart, PassStep, PTL DEF ExtractSpec
-----------------------------------------------------------------------------
(* The order of the matches. *)

(* The file-level declaration a definition is in. *)
LEMMA GroupIs ==
  ASSUME NEW t \in Source, NEW i \in DefNodes(t)
  PROVE  /\ t[i].kind \in Callables => Group(t, i) = i
         /\ ParentKind(t, i) \in Declarations => Group(t, i) = t[i].parent
<1>t. Len(t) \in Nat /\ t[1].parent = 0 /\ \A k \in 1..Len(t) : t[k].parent \in Nat /\ t[k].parent < k
  BY TreeIs
<1>1. i \in 2..Len(t) /\ i \in 1..Len(t) /\ i # 1
  BY <1>t, DefNodeIs
<1>2. ParentKind(t, i) = t[t[i].parent].kind
  BY <1>1 DEF ParentKind
<1>3. \A a \in Above(t, i) : t[a].parent = 1 =>
        a = i \/ (a # 1 /\ a \in 1..Len(t) /\ (a = t[i].parent \/ a = t[t[i].parent].parent))
  BY <1>t, AboveDef
<1>4. i \in Above(t, i)
  <2>1. EndOf(t, i) \in i..Len(t)
    BY <1>1, EndIs
  <2> QED
    BY <1>1, <1>t, <2>1 DEF Above
<1>5. CASE t[i].parent = 1
  <2>1. \A a \in Above(t, i) : t[a].parent = 1 => a = i
    BY <1>3, <1>5, <1>t
  <2>2. Group(t, i) = i
    BY <1>4, <1>5, <2>1 DEF Group
  <2>3. ParentKind(t, i) = "source_file"
    BY <1>2, <1>5, DefNodeIs
  <2> QED
    BY <2>2, <2>3 DEF Declarations
<1>6. ASSUME NEW p \in 2..(i - 1), t[i].kind \in Specs, p = t[i].parent,
             t[p].kind \in Declarations, t[p].parent = 1
      PROVE  Group(t, i) = t[i].parent /\ t[i].kind \notin Callables
  <2>1. p \in Above(t, i)
    <3>1. i \in Subtree(t, p)
      BY <1>1, <1>6, TreeShape
    <3> QED
      BY <1>1, <1>6, <1>t, <3>1 DEF Subtree, Above
  <2>2. \A a \in Above(t, i) : t[a].parent = 1 => a = p
    BY <1>1, <1>3, <1>6
  <2>3. Group(t, i) = p
    BY <1>6, <2>1, <2>2 DEF Group
  <2> QED
    BY <1>6, <2>3 DEF Specs, Callables
<1>7. ASSUME t[i].kind = "var_spec", t[t[i].parent].kind = "var_spec_list"
      PROVE  t[i].kind \notin Callables /\ ParentKind(t, i) \notin Declarations
  BY <1>2, <1>7 DEF Callables, Declarations
<1> QED
  BY <1>5, <1>6, <1>7, DefNodeIs

(* Of the two comments a definition is matched with, one at most is right  *)
(* above it: the declaration stands between them.                          *)
LEMMA OneAdjacent ==
  ASSUME NEW t \in Source, CommentsHaveLines(t), NEW i \in DefNodes(t),
         NEW c \in DocNodes(t, i), NEW d \in DocNodes(t, i), Adjacent(t, c, i), Adjacent(t, d, i)
  PROVE  c = d
<1>t. /\ Len(t) \in Nat /\ t[1].parent = 0
      /\ \A k \in 1..Len(t) : t[k].parent \in Nat /\ t[k].row \in Nat /\ t[k].parent < k
      /\ \A j, k \in 1..Len(t) : j <= k => t[j].row <= t[k].row
  BY TreeIs
<1>1. i \in 2..Len(t) /\ i \in 1..Len(t) /\ ParentKind(t, i) = t[t[i].parent].kind
  <2>1. i \in 2..Len(t)
    BY DefNodeIs
  <2>2. i \in 1..Len(t) /\ i # 1
    BY <1>t, <2>1
  <2> QED
    BY <2>1, <2>2 DEF ParentKind
<1>2. \A j \in 1..Len(t) : \A a, b \in PrevComment(t, j) : a = b
  <2> SUFFICES ASSUME NEW j \in 1..Len(t), NEW a \in PrevComment(t, j), NEW b \in PrevComment(t, j)
               PROVE  a = b
    OBVIOUS
  <2>1. a \in LeftOf(t, j) /\ b \in LeftOf(t, j) /\ a <= b /\ b <= a
    BY DEF PrevComment
  <2>2. a \in Nat /\ b \in Nat
    BY <1>t, <2>1 DEF LeftOf, Children
  <2> QED
    BY <2>1, <2>2
<1>3. CASE t[i].kind \in Callables
  <2>1. Group(t, i) = i
    BY <1>3, GroupIs
  <2> QED
    BY <1>1, <1>2, <2>1, <1>t DEF DocNodes
<1>4. CASE ParentKind(t, i) = "var_spec_list"
  BY <1>1, <1>2, <1>4, <1>t DEF DocNodes
<1>5. ASSUME NEW p \in 2..(i - 1), p = t[i].parent, t[p].kind \in Declarations
      PROVE  c = d
  <2>1. Group(t, i) = p
    BY <1>1, <1>5, GroupIs
  <2>2. ASSUME NEW a \in PrevComment(t, i), NEW b \in PrevComment(t, p),
               Adjacent(t, a, i), Adjacent(t, b, i)
        PROVE  FALSE
    <3>1. /\ a \in 1..Len(t) /\ p < a /\ a < i
          /\ b \in 1..Len(t) /\ b < p /\ t[b].kind = "comment"
      BY <1>1, <1>5, <1>t DEF PrevComment, LeftOf, Children, Comments
    <3>2. p \in 2..Len(t)
      BY <1>1, <1>t, <3>1
    <3>3. t[b].row < t[p].row
      <4>1. t[b].row # t[p].row
        BY <3>1, <3>2, <1>t DEF CommentsHaveLines, Comments
      <4>2. t[b].row <= t[p].row /\ t[b].row \in Nat /\ t[p].row \in Nat
        BY <3>1, <3>2, <1>t
      <4> QED
        BY <4>1, <4>2
    <3>4. t[p].row <= t[a].row /\ t[a].row < t[i].row
      BY <2>2, <3>1, <3>2, <1>1, <1>t DEF Adjacent
    <3>5. t[p].row \in (t[b].row + 1)..(t[i].row - 1)
      <4>1. t[b].row \in Nat /\ t[p].row \in Nat /\ t[a].row \in Nat /\ t[i].row \in Nat
        BY <3>1, <3>2, <1>1, <1>t
      <4> QED
        BY <4>1, <3>3, <3>4
    <3>6. DirectiveLine(t, t[p].row)
      BY <2>2, <3>5 DEF Adjacent
    <3>7. PICK q \in Comments(t) : t[q].row = t[p].row
      BY <3>6 DEF DirectiveLine
    <3>8. p = q
      BY <3>2, <3>7 DEF CommentsHaveLines
    <3> QED
      BY <1>5, <3>7, <3>8 DEF Comments, Declarations
  <2>3. c \in PrevComment(t, i) \union PrevComment(t, p) /\ d \in PrevComment(t, i) \union PrevComment(t, p)
    BY <2>1 DEF DocNodes
  <2> QED
    BY <1>1, <1>2, <1>5, <1>t, <2>2, <2>3
<1> QED
  BY <1>1, <1>3, <1>4, <1>5, DefNodeIs

(* The result as a function of the file: the names, aliases and captures   *)
(* of the tree, and for each declaration the comment adjacent to it.       *)
Near(t, i) == {c \in DocNodes(t, i) : Adjacent(t, c, i)}

FinalDefs(t) ==
  [i \in DefNodes(t) |->
     [names |-> {t[n].text : n \in NameNodes(t, i)},
      doc   |-> IF Near(t, i) = {} THEN None ELSE CHOOSE c \in Near(t, i) : TRUE]]

Outcome(t) ==
  LET defs == Defs(FinalDefs(t), t)
  IN  ExtractedFile(Status(t), PackageName(t), defs, ImportsOf(FinalImports(t), t),
        {RefAt(t, r, defs) : r \in {q \in RefsOf(t, Captures(t)) :
           Kept(t, q, Dropped(FinalDefs(t), t), OperandsOf(t, Captures(t)))}})

OutcomeIsFunction == Complete /\ CommentsHaveLines(file) => facts = Outcome(file)

LEMMA SameDoc ==
  ASSUME NEW t \in Source, CommentsHaveLines(t), NEW raw, MergedDefs(raw, t, DefMatches(t)),
         NEW i \in DefNodes(t)
  PROVE  DocComment(t, raw[i].doc, i) = DocComment(t, FinalDefs(t)[i].doc, i)
<1>1. /\ raw[i].doc \in DocNodes(t, i) \union {None}
      /\ (\E c \in DocNodes(t, i) : c # None /\ Adjacent(t, c, i))
           => raw[i].doc # None /\ Adjacent(t, raw[i].doc, i)
  BY DefsMerged
<1>2. FinalDefs(t)[i].doc = IF Near(t, i) = {} THEN None ELSE CHOOSE c \in Near(t, i) : TRUE
  BY DEF FinalDefs
<1>3. \A x : x = None \/ ~Adjacent(t, x, i) => DocComment(t, x, i) = None
  BY DEF DocComment
<1>4. CASE Near(t, i) = {}
  <2>1. raw[i].doc = None \/ ~Adjacent(t, raw[i].doc, i)
    BY <1>1, <1>4 DEF Near
  <2> QED
    BY <1>2, <1>3, <1>4, <2>1
<1>5. CASE Near(t, i) # {}
  <2>1. PICK c : c = FinalDefs(t)[i].doc
    OBVIOUS
  <2>2. c \in DocNodes(t, i) /\ Adjacent(t, c, i)
    BY <1>2, <1>5, <2>1 DEF Near
  <2>3. c # None
    <3>1. Len(t) \in Nat
      BY TreeIs
    <3>2. c \in Nat
      BY <2>2, <3>1 DEF DocNodes, PrevComment, Comments
    <3> QED
      BY <3>2, NoneIsNoNode
  <2>4. raw[i].doc \in DocNodes(t, i) /\ Adjacent(t, raw[i].doc, i)
    BY <1>1, <2>2, <2>3
  <2>5. raw[i].doc = c
    BY <2>2, <2>4, OneAdjacent
  <2> QED
    BY <2>1, <2>5
<1> QED
  BY <1>4, <1>5

LEMMA SameDefs ==
  ASSUME NEW t \in Source, CommentsHaveLines(t), NEW raw, MergedDefs(raw, t, DefMatches(t))
  PROVE  Defs(raw, t) = Defs(FinalDefs(t), t) /\ Dropped(raw, t) = Dropped(FinalDefs(t), t)
<1> DEFINE R == FinalDefs(t)
           At(x, i) == {DefAt(t, i, name, x[i].doc) : name \in x[i].names \ {"_"}}
<1>1. /\ DOMAIN raw = DefNodes(t)
      /\ \A i \in DefNodes(t) : raw[i].names = {t[n].text : n \in NameNodes(t, i)}
  BY DefsMerged
<1>2. /\ DOMAIN R = DefNodes(t)
      /\ \A i \in DefNodes(t) : R[i].names = {t[n].text : n \in NameNodes(t, i)}
  BY DEF FinalDefs
<1>3. Dropped(raw, t) = Dropped(R, t)
  BY <1>1, <1>2 DEF Dropped
<1>4. \A i \in DefNodes(t) : DocComment(t, raw[i].doc, i) = DocComment(t, R[i].doc, i)
  BY SameDoc
<1> HIDE DEF R
<1>5. \A i \in DefNodes(t) : At(raw, i) = At(R, i)
  <2> SUFFICES ASSUME NEW i \in DefNodes(t)
               PROVE  At(raw, i) = At(R, i)
    OBVIOUS
  <2>1. \A name : DefAt(t, i, name, raw[i].doc) = DefAt(t, i, name, R[i].doc)
    BY <1>4 DEF DefAt
  <2>2. raw[i].names = R[i].names
    BY <1>1, <1>2
  <2> QED
    BY <2>1, <2>2
<1>6. /\ Defs(raw, t) = UNION {At(raw, i) : i \in (DOMAIN raw) \ Dropped(raw, t)}
      /\ Defs(R, t) = UNION {At(R, i) : i \in (DOMAIN R) \ Dropped(R, t)}
  BY DEF Defs
<1>7. \A i \in (DOMAIN raw) \ Dropped(raw, t) : At(raw, i) = At(R, i)
  BY <1>1, <1>5
<1> HIDE DEF At
<1>8. Defs(raw, t) = Defs(R, t)
  BY <1>1, <1>2, <1>3, <1>6, <1>7
<1> QED
  BY <1>3, <1>8 DEF R

(* What is extracted does not depend on the order the matches came in, in  *)
(* a file whose comments have their own lines: the merges by node identity *)
(* make a function of the tree ("the merge is still correct if match order *)
(* changes", defs.scm).                                                    *)
THEOREM OrderIrrelevant == ExtractSpec => []OutcomeIsFunction
<1>1. PassInv => OutcomeIsFunction
  <2> SUFFICES ASSUME PassInv, Complete, CommentsHaveLines(file)
               PROVE  facts = Outcome(file)
    BY DEF OutcomeIsFunction
  <2>c. Drained /\ facts = Extracted(file) /\ file \in Source
    BY CompleteIs
  <2>1. /\ Defs(rawDefs, file) = Defs(FinalDefs(file), file)
        /\ Dropped(rawDefs, file) = Dropped(FinalDefs(file), file)
    BY <2>c, SameDefs DEF Drained
  <2>2. rawImports = FinalImports(file)
    BY <2>c, ImportsMerged DEF Drained, PassInv
  <2> QED
    BY <2>c, <2>1, <2>2 DEF Outcome, Extracted, Drained
<1> QED
  BY <1>1, PassStart, PassStep, PTL DEF ExtractSpec

-----------------------------------------------------------------------------
(***************************************************************************)
(* What the merges leave is what Go's rules say.                           *)
(***************************************************************************)
LEMMA GreatestOf ==
  ASSUME NEW S \in SUBSET Nat, S # {}, NEW n \in Nat, \A x \in S : x <= n
  PROVE  Max(S) \in S /\ \A x \in S : x <= Max(S)
<1> DEFINE D == {d \in Nat : \E x \in S : d = n - x}
<1>1. D # {} /\ D \in SUBSET Nat
  <2>1. PICK x \in S : TRUE
    OBVIOUS
  <2>2. n - x \in Nat
    BY <2>1
  <2> QED
    BY <2>1, <2>2
<1> HIDE DEF D
<1>2. Min(D) \in D /\ \A d \in D : Min(D) <= d
  BY <1>1, LeastOf
<1>3. PICK x \in S : Min(D) = n - x
  BY <1>2 DEF D
<1>4. \A y \in S : y <= x
  <2> SUFFICES ASSUME NEW y \in S
               PROVE  y <= x
    OBVIOUS
  <2>1. n - y \in D
    BY DEF D
  <2>2. n - x <= n - y
    BY <1>2, <1>3, <2>1
  <2> QED
    BY <2>2
<1>5. \E z \in S : \A y \in S : z >= y
  BY <1>4
<1> QED
  BY <1>5 DEF Max

(* The nodes of a set, in order, are as many and are those of the set: the *)
(* number of nodes up to it tells one node from the other.                 *)
LEMMA InOrderIs ==
  ASSUME NEW S \in SUBSET Nat, IsFiniteSet(S)
  PROVE  /\ Cardinality(S) \in Nat /\ Len(InOrder(S)) = Cardinality(S)
         /\ \A k \in 1..Cardinality(S) : InOrder(S)[k] \in S
<1> DEFINE n == Cardinality(S)
           UpTo(x) == {y \in S : y <= x}
           f == [x \in S |-> Cardinality(UpTo(x))]
<1>1. n \in Nat
  BY FS_CardinalityType
<1>2. \A x \in S : /\ IsFiniteSet(UpTo(x)) /\ Cardinality(UpTo(x)) \in 1..n
  <2> SUFFICES ASSUME NEW x \in S
               PROVE  IsFiniteSet(UpTo(x)) /\ Cardinality(UpTo(x)) \in 1..n
    OBVIOUS
  <2>1. IsFiniteSet(UpTo(x)) /\ Cardinality(UpTo(x)) <= n
    <3>1. UpTo(x) \in SUBSET S
      OBVIOUS
    <3> QED
      BY <3>1, FS_Subset
  <2>2. UpTo(x) # {}
    <3>1. x \in UpTo(x)
      OBVIOUS
    <3> QED
      BY <3>1
  <2>3. Cardinality(UpTo(x)) \in Nat /\ Cardinality(UpTo(x)) # 0
    BY <2>1, <2>2, FS_CardinalityType, FS_EmptySet
  <2> QED
    BY <1>1, <2>1, <2>3
<1>3. \A x, y \in S : x < y => UpTo(x) # UpTo(y) /\ UpTo(x) \in SUBSET UpTo(y)
  <2> SUFFICES ASSUME NEW x \in S, NEW y \in S, x < y
               PROVE  UpTo(x) # UpTo(y) /\ UpTo(x) \in SUBSET UpTo(y)
    OBVIOUS
  <2>1. x \in Nat /\ y \in Nat
    OBVIOUS
  <2>2. y \in UpTo(y) /\ y \notin UpTo(x)
    BY <2>1
  <2>3. \A z \in UpTo(x) : z \in UpTo(y)
    BY <2>1
  <2> QED
    BY <2>2, <2>3
<1> HIDE DEF UpTo, n
<1>4. \A x, y \in S : x < y => Cardinality(UpTo(x)) # Cardinality(UpTo(y))
  BY <1>2, <1>3, FS_Subset
<1>5. f \in Injection(S, 1..n)
  <2>1. f \in [S -> 1..n]
    BY <1>2
  <2>2. \A x, y \in S : f[x] = f[y] => x = y
    <3> SUFFICES ASSUME NEW x \in S, NEW y \in S, x # y
                 PROVE  f[x] # f[y]
      OBVIOUS
    <3>1. x \in Nat /\ y \in Nat
      OBVIOUS
    <3>2. CASE x < y
      BY <3>2, <1>4
    <3>3. CASE y < x
      BY <3>3, <1>4
    <3> QED
      BY <3>1, <3>2, <3>3
  <2> QED
    BY <2>1, <2>2 DEF Injection, IsInjective
<1>6. IsFiniteSet(1..n) /\ Cardinality(1..n) = n
  BY <1>1, FS_Interval
<1>7. f \in Surjection(S, 1..n)
  BY <1>5, <1>6, FS_Injection DEF n
<1>8. \A k \in 1..n : \E x \in S : Cardinality(UpTo(x)) = k
  BY <1>7 DEF Surjection
<1>9. InOrder(S) = [k \in 1..n |-> CHOOSE x \in S : Cardinality(UpTo(x)) = k]
  BY DEF InOrder, n, UpTo
<1>10. \A k \in 1..n : InOrder(S)[k] \in S
  BY <1>8, <1>9
<1>11. Len(InOrder(S)) = n
  BY <1>1, <1>9
<1> QED
  BY <1>1, <1>10, <1>11 DEF n

LEMMA NodesInOrder ==
  ASSUME NEW t \in Source, NEW S \in SUBSET (1..Len(t))
  PROVE  /\ Cardinality(S) \in Nat /\ Len(InOrder(S)) = Cardinality(S)
         /\ \A k \in 1..Cardinality(S) : InOrder(S)[k] \in S
<1>1. Len(t) \in Nat
  BY TreeIs
<1>2. IsFiniteSet(1..Len(t))
  BY <1>1, FS_Interval
<1>3. IsFiniteSet(S)
  BY <1>2, FS_Subset
<1>4. S \in SUBSET Nat
  BY <1>1
<1> QED
  BY <1>3, <1>4, InOrderIs

LEMMA AliasesAreKept == ASSUME PassInv PROVE AliasesKept
<1> SUFFICES ASSUME Complete
             PROVE  LET specs == InOrder(ImportSpecs(file))
                    IN  /\ Len(facts.imports) = Len(specs)
                        /\ \A k \in 1..Len(specs) :
                             facts.imports[k].alias = TextOf(file, Field(file, specs[k], "name"))
  BY DEF AliasesKept
<1> DEFINE specs == InOrder(ImportSpecs(file))
<1>1. Drained /\ facts = Extracted(file) /\ file \in Source
  BY CompleteIs
<1>2. rawImports = FinalImports(file)
  BY <1>1, ImportsMerged DEF Drained, PassInv
<1>3. facts.imports = ImportsOf(FinalImports(file), file)
  BY <1>1, <1>2 DEF Extracted, ExtractedFile
<1>4. /\ Len(specs) = Cardinality(ImportSpecs(file)) /\ Len(specs) \in Nat
      /\ \A k \in 1..Len(specs) : specs[k] \in ImportSpecs(file)
  <2>1. ImportSpecs(file) \in SUBSET (1..Len(file))
    BY DEF ImportSpecs
  <2> QED
    BY <1>1, <2>1, NodesInOrder
<1>5. DOMAIN FinalImports(file) = ImportSpecs(file)
  BY DEF FinalImports
<1> DEFINE At(i) == Import(file[CHOOSE p \in Field(file, i, "path") : TRUE].text,
                           FinalImports(file)[i])
<1>6. facts.imports = [k \in 1..Len(specs) |-> At(specs[k])]
  BY <1>3, <1>5 DEF ImportsOf
<1>7. \A i \in ImportSpecs(file) : At(i).alias = TextOf(file, Field(file, i, "name"))
  BY DEF Import, FinalImports
<1> HIDE DEF specs, At
<1>8. Len(facts.imports) = Len(specs)
  BY <1>4, <1>6
<1>9. \A k \in 1..Len(specs) :
        facts.imports[k].alias = TextOf(file, Field(file, specs[k], "name"))
  BY <1>4, <1>6, <1>7
<1> QED
  BY <1>8, <1>9 DEF specs

(* What holds downwards from hi holds of all rows between lo and hi.       *)
LEMMA Downward ==
  ASSUME NEW lo \in Nat, NEW hi \in Nat, NEW P, hi \in P,
         \A r \in lo..hi : r < hi /\ r + 1 \in P => r \in P
  PROVE  \A r \in lo..hi : r \in P
<1> DEFINE Bad == {r \in lo..hi : r \notin P}
<1> SUFFICES ASSUME Bad # {} PROVE FALSE
  OBVIOUS
<1>1. Bad \in SUBSET Nat /\ \A r \in Bad : r <= hi
  OBVIOUS
<1> HIDE DEF Bad
<1>2. Max(Bad) \in Bad /\ \A r \in Bad : r <= Max(Bad)
  BY <1>1, GreatestOf
<1>3. PICK m \in lo..hi : m \in Bad /\ m \notin P /\ \A r \in Bad : r <= m
  BY <1>2 DEF Bad
<1>4. m < hi /\ m + 1 \in lo..hi
  BY <1>3
<1>5. m + 1 \notin Bad
  BY <1>3
<1> QED
  BY <1>3, <1>4, <1>5 DEF Bad

Covered(t, lo, hi) == \A r \in lo..hi : \E x \in Comments(t) : t[x].row = r

LEMMA CommentIs ==
  ASSUME NEW t \in Source, CommentsHaveLines(t), t[1].kind = "source_file"
  PROVE  /\ \A x \in Comments(t) : x \in 2..Len(t) /\ x \in 1..Len(t) /\ t[x].row \in Nat
         /\ \A x \in Comments(t) : \A k \in 2..Len(t) : t[k].row = t[x].row => k = x
<1>1. Len(t) \in Nat /\ \A k \in 1..Len(t) : t[k].row \in Nat
  BY TreeIs
<1> QED
  BY <1>1 DEF Comments, CommentsHaveLines

(* The block a doc comment ends is the comments on the lines that lead to  *)
(* it without a gap.                                                       *)
LEMMA BlockIs ==
  ASSUME NEW t \in Source, CommentsHaveLines(t), CommentsPrecede(t), t[1].kind = "source_file",
         NEW c \in Comments(t)
  PROVE  CommentBlock(t, c) =
           {b \in Comments(t) : t[b].row <= t[c].row /\ Covered(t, t[b].row, t[c].row)}
<1> DEFINE Near1 == LeftOf(t, c) \union {c}
           P == {r \in Nat : \E x \in Near1 : x \in Comments(t) /\ t[x].row = r}
<1>t. /\ Len(t) \in Nat
      /\ \A k \in 1..Len(t) : t[k].parent \in Nat /\ t[k].row \in Nat /\ t[k].parent < k
      /\ \A k \in 1..Len(t) : k > 1 => t[k].parent \in 1..(k - 1)
      /\ \A j, k \in 1..Len(t) : j <= k => t[j].row <= t[k].row
  BY TreeIs
<1>c. /\ \A x \in Comments(t) : x \in 2..Len(t) /\ x \in 1..Len(t) /\ t[x].row \in Nat
      /\ \A x \in Comments(t) : \A k \in 2..Len(t) : t[k].row = t[x].row => k = x
  BY CommentIs
<1>1. \A k \in Near1 : /\ k \in 2..Len(t) /\ k \in 1..Len(t) /\ k <= c
                       /\ t[k].parent = t[c].parent
  <2>1. c \in 2..Len(t) /\ t[c].parent \in 1..(c - 1)
    BY <1>c, <1>t
  <2> QED
    BY <2>1, <1>t DEF LeftOf, Children
<1>2. \A k \in Near1 : \A p \in PrevComment(t, k) : p \in Near1 /\ p \in Comments(t)
  <2> SUFFICES ASSUME NEW k \in Near1, NEW p \in PrevComment(t, k)
               PROVE  p \in Near1 /\ p \in Comments(t)
    OBVIOUS
  <2>1. p \in LeftOf(t, k) /\ p \in Comments(t)
    BY DEF PrevComment
  <2>2. p \in Children(t, t[c].parent) /\ p < k /\ p \in 1..Len(t)
    BY <1>1, <2>1, <1>c DEF LeftOf
  <2>3. p < c
    BY <1>1, <2>2, <1>c
  <2> QED
    BY <2>1, <2>2, <2>3 DEF LeftOf
<1>3. t[c].row \in P /\ t[c].row \in Nat
  BY <1>c
<1>4. CommentBlock(t, c) =
        {b \in Near1 \intersect Comments(t) :
           \A k \in Near1 : k > b => \E p \in PrevComment(t, k) : t[p].row + 1 = t[k].row}
  BY DEF CommentBlock
<1> HIDE DEF Near1
<1>5. ASSUME NEW b \in CommentBlock(t, c)
      PROVE  t[b].row <= t[c].row /\ Covered(t, t[b].row, t[c].row)
  <2>1. /\ b \in Near1 /\ b \in Comments(t)
        /\ \A k \in Near1 : k > b => \E p \in PrevComment(t, k) : t[p].row + 1 = t[k].row
    BY <1>4
  <2>2. t[b].row <= t[c].row /\ t[b].row \in Nat
    BY <1>1, <1>c, <1>t, <2>1
  <2>3. ASSUME NEW r \in t[b].row..t[c].row, r < t[c].row, r + 1 \in P
        PROVE  r \in P
    <3>1. PICK k \in Near1 : k \in Comments(t) /\ t[k].row = r + 1
      BY <2>3
    <3>2. k > b
      BY <3>1, <2>1, <2>2, <1>1, <1>t
    <3>3. PICK p \in PrevComment(t, k) : t[p].row + 1 = t[k].row
      BY <2>1, <3>2
    <3>4. p \in Near1 /\ p \in Comments(t) /\ t[p].row \in Nat
      BY <1>2, <1>c, <3>3
    <3>5. t[p].row = r
      BY <3>1, <3>3, <3>4, <2>2, <1>3
    <3> QED
      BY <3>4, <3>5
  <2> HIDE DEF P
  <2>4. \A r \in t[b].row..t[c].row : r \in P
    BY <1>3, <2>2, <2>3, Downward
  <2> QED
    BY <2>2, <2>4 DEF Covered, P
<1>6. ASSUME NEW b \in Comments(t), t[b].row <= t[c].row, Covered(t, t[b].row, t[c].row)
      PROVE  b \in CommentBlock(t, c)
  <2>1. t[b].row \in Nat /\ b \in 2..Len(t) /\ b \in 1..Len(t)
    BY <1>c
  <2>2. ASSUME NEW r \in t[b].row..t[c].row, r < t[c].row, r + 1 \in P
        PROVE  r \in P
    <3>1. PICK k \in Near1 : k \in Comments(t) /\ t[k].row = r + 1
      BY <2>2
    <3>2. PICK x \in Comments(t) : t[x].row = r
      BY <1>6 DEF Covered
    <3>3. x \in PrevComment(t, k)
      BY <3>1, <3>2 DEF CommentsPrecede
    <3>4. x \in Near1 /\ t[x].row \in Nat
      BY <1>2, <1>c, <3>2, <3>3
    <3> QED
      BY <3>2, <3>4
  <2>3. \A r \in t[b].row..t[c].row : r \in P
    <3> HIDE DEF P
    <3> QED
      BY <1>3, <2>1, <2>2, Downward
  <2>4. b \in Near1
    <3>1. t[b].row \in t[b].row..t[c].row
      BY <1>3, <1>6, <2>1
    <3>2. PICK x \in Near1 : x \in Comments(t) /\ t[x].row = t[b].row
      BY <2>3, <3>1
    <3>3. x = b
      BY <3>2, <1>c, <2>1
    <3> QED
      BY <3>2, <3>3
  <2>5. ASSUME NEW k \in Near1, k > b
        PROVE  \E p \in PrevComment(t, k) : t[p].row + 1 = t[k].row
    <3>1. /\ k \in 2..Len(t) /\ t[k].row \in Nat
          /\ t[b].row <= t[k].row /\ t[k].row <= t[c].row
      <4>1. k \in 2..Len(t) /\ k \in 1..Len(t) /\ k <= c /\ c \in 1..Len(t)
        BY <1>1, <1>c, <2>5
      <4>2. b <= k
        BY <2>1, <2>5, <4>1
      <4> QED
        BY <1>t, <2>1, <4>1, <4>2
    <3>2. PICK x \in Comments(t) : t[x].row = t[k].row
      BY <1>6, <3>1 DEF Covered
    <3>3. k = x
      BY <1>c, <3>1, <3>2
    <3>4. t[k].row # t[b].row
      <4>1. k # b
        BY <2>1, <2>5, <3>1
      <4> QED
        BY <4>1, <1>c, <3>1
    <3>5. t[k].row - 1 \in t[b].row..t[c].row
      BY <1>3, <2>1, <3>1, <3>4
    <3>6. PICK p \in Comments(t) : t[p].row = t[k].row - 1
      BY <1>6, <3>5 DEF Covered
    <3>7. t[k].row = t[p].row + 1
      BY <3>1, <3>6, <1>c
    <3>8. p \in PrevComment(t, k)
      BY <3>2, <3>3, <3>7 DEF CommentsPrecede
    <3> QED
      BY <3>7, <3>8
  <2> QED
    BY <1>4, <2>4, <2>5
<1>7. CommentBlock(t, c) \in SUBSET Comments(t)
  BY <1>4
<1> QED
  BY <1>5, <1>6, <1>7

(* Rows a directive has to itself, from the first row of the file on.      *)
LEMMA DirectiveLineIs ==
  ASSUME NEW t \in Source, CommentsHaveLines(t), t[1].kind = "source_file"
  PROVE  /\ ~DirectiveLine(t, 0)
         /\ \A r : DirectiveLine(t, r) =>
              \E x \in Comments(t) : t[x].row = r /\ t[x].text \in Directive
         /\ \A x \in Comments(t) : t[x].text \in Directive /\ t[1].row < t[x].row =>
              DirectiveLine(t, t[x].row)
<1>t. /\ Len(t) \in Nat
      /\ \A k \in 1..Len(t) : t[k].row \in Nat
      /\ \A j, k \in 1..Len(t) : j <= k => t[j].row <= t[k].row
  BY TreeIs
<1>c. /\ \A x \in Comments(t) : x \in 2..Len(t) /\ x \in 1..Len(t) /\ t[x].row \in Nat
      /\ \A x \in Comments(t) : \A k \in 2..Len(t) : t[k].row = t[x].row => k = x
  BY CommentIs
<1>1. ~DirectiveLine(t, 0)
  <2> SUFFICES ASSUME NEW x \in Comments(t), t[x].row = 0, \A k \in 1..(x - 1) : t[k].row # 0
               PROVE  FALSE
    BY DEF DirectiveLine
  <2>1. 1 \in 1..(x - 1) /\ 1 \in 1..Len(t) /\ x \in 1..Len(t) /\ 1 <= x
    BY <1>c, <1>t
  <2> QED
    BY <2>1, <1>t
<1>2. ASSUME NEW x \in Comments(t), t[x].text \in Directive, t[1].row < t[x].row
      PROVE  DirectiveLine(t, t[x].row)
  <2>1. ASSUME NEW k \in 1..(x - 1), t[k].row = t[x].row
        PROVE  FALSE
    <3>1. CASE k = 1
      BY <1>2, <1>t, <1>c, <2>1, <3>1
    <3>2. CASE k # 1
      <4>1. k \in 2..Len(t) /\ k # x
        BY <1>c, <1>t, <2>1, <3>2
      <4> QED
        BY <1>c, <2>1, <4>1
    <3> QED
      BY <3>1, <3>2
  <2> QED
    BY <1>2, <2>1 DEF DirectiveLine
<1> QED
  BY <1>1, <1>2 DEF DirectiveLine

(* The last line above a declaration that is not a directive's.            *)
GoLast(t, i) == Max({r \in 0..(t[i].row - 1) : ~DirectiveLine(t, r)} \union {0})

GoBlock(t, i) ==
  {b \in Comments(t) : /\ t[b].row <= GoLast(t, i) /\ Covered(t, t[b].row, GoLast(t, i))
                       /\ t[b].text \notin Directive}

LEMMA GoLastIs ==
  ASSUME NEW t \in Source, CommentsHaveLines(t), NEW i \in DefNodes(t)
  PROVE  /\ GoLast(t, i) \in Nat
         /\ t[i].row = 0 => GoLast(t, i) = 0
         /\ t[i].row > 0 => GoLast(t, i) < t[i].row
         /\ ~DirectiveLine(t, GoLast(t, i))
         /\ \A r \in (GoLast(t, i) + 1)..(t[i].row - 1) : DirectiveLine(t, r)
<1> DEFINE S == {r \in 0..(t[i].row - 1) : ~DirectiveLine(t, r)} \union {0}
<1>1. t[i].row \in Nat
  BY TreeIs DEF DefNodes
<1>2. S \in SUBSET Nat /\ S # {} /\ \A r \in S : r <= t[i].row
  BY <1>1
<1>3. ~DirectiveLine(t, 0)
  BY DefNodeIs, DirectiveLineIs
<1>4. PICK m \in S : m = GoLast(t, i) /\ \A r \in S : r <= m
  <2> HIDE DEF S
  <2>1. Max(S) \in S /\ \A r \in S : r <= Max(S)
    BY <1>1, <1>2, GreatestOf
  <2> QED
    BY <2>1 DEF GoLast, S
<1>5. ~DirectiveLine(t, m) /\ m \in Nat /\ (t[i].row = 0 => m = 0) /\ (t[i].row > 0 => m < t[i].row)
  BY <1>1, <1>3, <1>4
<1>6. \A r \in (m + 1)..(t[i].row - 1) : DirectiveLine(t, r)
  <2> SUFFICES ASSUME NEW r \in (m + 1)..(t[i].row - 1), ~DirectiveLine(t, r)
               PROVE  FALSE
    OBVIOUS
  <2>1. r \in S /\ r > m
    BY <1>1, <1>5
  <2> QED
    BY <1>4, <1>5, <2>1
<1> QED
  BY <1>4, <1>5, <1>6

LEMMA GoDocIs ==
  ASSUME NEW t \in Source, CommentsHaveLines(t), NEW i \in DefNodes(t)
  PROVE  /\ GoDoc(t, i) = FirstParagraph([k \in 1..Cardinality(GoBlock(t, i)) |->
                                            t[InOrder(GoBlock(t, i))[k]].text])
         /\ GoBlock(t, i) = {} => GoDoc(t, i) = None
<1> DEFINE Alone(c) == \A k \in 1..Len(t) : k # c /\ t[k].row = t[c].row => k = 1
           lines == {t[c].row : c \in {c \in Comments(t) : Alone(c)}}
<1>c. /\ \A x \in Comments(t) : x \in 2..Len(t) /\ x \in 1..Len(t) /\ t[x].row \in Nat
      /\ \A x \in Comments(t) : \A k \in 2..Len(t) : t[k].row = t[x].row => k = x
  BY CommentIs, DefNodeIs
<1>1. lines = {t[c].row : c \in Comments(t)}
  <2>1. \A c \in Comments(t) : Alone(c)
    <3> SUFFICES ASSUME NEW c \in Comments(t), NEW k \in 1..Len(t), k # c, t[k].row = t[c].row
                 PROVE  k = 1
      OBVIOUS
    <3>1. k \notin 2..Len(t)
      BY <1>c
    <3>2. Len(t) \in Nat
      BY TreeIs
    <3> QED
      BY <3>1, <3>2
  <2> QED
    BY <2>1
<1>2. \A lo, hi : lo..hi \subseteq lines <=> Covered(t, lo, hi)
  <2> HIDE DEF lines
  <2> QED
    BY <1>1 DEF Covered
<1> DEFINE order == InOrder(GoBlock(t, i))
<1>3. {c \in Comments(t) : /\ t[c].row <= GoLast(t, i)
                           /\ t[c].row..GoLast(t, i) \subseteq lines
                           /\ t[c].text \notin Directive} = GoBlock(t, i)
  <2> HIDE DEF lines
  <2> QED
    BY <1>2 DEF GoBlock
<1>4. GoDoc(t, i) = FirstParagraph([k \in 1..Len(order) |-> t[order[k]].text])
  BY <1>3 DEF GoDoc, GoLast
<1>5. Len(order) = Cardinality(GoBlock(t, i))
  <2>1. GoBlock(t, i) \in SUBSET (1..Len(t))
    BY <1>c DEF GoBlock
  <2> QED
    BY <2>1, NodesInOrder
<1>6. ASSUME GoBlock(t, i) = {}
      PROVE  GoDoc(t, i) = None
  <2>1. Len(order) = 0
    BY <1>5, <1>6, FS_EmptySet
  <2>2. PICK paragraph : paragraph = [k \in 1..Len(order) |-> t[order[k]].text]
    OBVIOUS
  <2>3. Len(paragraph) = 0
    BY <2>1, <2>2
  <2>4. {k \in 1..Len(paragraph) : paragraph[k] # ""} = {}
    BY <2>3
  <2> QED
    BY <1>4, <2>2, <2>4 DEF FirstParagraph
<1> QED
  BY <1>4, <1>5, <1>6

(* A comment block above a declaration is matched with it.                 *)
LEMMA RightAbove ==
  ASSUME NEW t \in Source, CommentsHaveLines(t), CommentsPrecede(t), NEW i \in DefNodes(t),
         NEW x \in Comments(t), t[x].row + 1 = t[i].row
  PROVE  x \in DocNodes(t, i) /\ Adjacent(t, x, i)
<1>1. t[x].row \in Nat
  BY CommentIs, DefNodeIs
<1>2. i \in 1..Len(t) /\ IsDefNode(t, i)
  BY DEF DefNodes
<1>3. x \in DocNodes(t, i)
  BY <1>2 DEF CommentsPrecede
<1>4. (t[x].row + 1)..(t[i].row - 1) = {}
  BY <1>1
<1> QED
  BY <1>1, <1>3, <1>4 DEF Adjacent

LEMMA DocIs ==
  ASSUME NEW t \in Source, CommentsHaveLines(t), CommentsPrecede(t), NEW i \in DefNodes(t)
  PROVE  DocComment(t, FinalDefs(t)[i].doc, i) = GoDoc(t, i)
<1> DEFINE last == GoLast(t, i)
           B == GoBlock(t, i)
<1>t. /\ Len(t) \in Nat /\ 1 \in 1..Len(t)
      /\ \A k \in 1..Len(t) : t[k].row \in Nat
      /\ \A j, k \in 1..Len(t) : j <= k => t[j].row <= t[k].row
  BY TreeIs
<1>c. /\ \A x \in Comments(t) : x \in 2..Len(t) /\ x \in 1..Len(t) /\ t[x].row \in Nat
      /\ \A x \in Comments(t) : \A k \in 2..Len(t) : t[k].row = t[x].row => k = x
  BY CommentIs, DefNodeIs
<1>i. i \in 2..Len(t) /\ i \in 1..Len(t) /\ t[i].row \in Nat /\ i \notin Comments(t)
  <2>1. t[i].kind # "comment"
    BY DefNodeIs DEF Callables, Specs
  <2> QED
    BY <2>1, <1>t, DefNodeIs DEF Comments
<1>d. /\ \A r : DirectiveLine(t, r) => \E x \in Comments(t) : t[x].row = r /\ t[x].text \in Directive
      /\ \A x \in Comments(t) : t[x].text \in Directive /\ t[1].row < t[x].row =>
           DirectiveLine(t, t[x].row)
  BY DirectiveLineIs, DefNodeIs
<1>l. /\ last \in Nat
      /\ t[i].row = 0 => last = 0
      /\ t[i].row > 0 => last < t[i].row
      /\ ~DirectiveLine(t, last)
      /\ \A r \in (last + 1)..(t[i].row - 1) : DirectiveLine(t, r)
  BY GoLastIs
<1>g. /\ GoDoc(t, i) = FirstParagraph([k \in 1..Cardinality(B) |-> t[InOrder(B)[k]].text])
      /\ B = {} => GoDoc(t, i) = None
  BY GoDocIs
<1>b. \A b : b \in B <=> /\ b \in Comments(t) /\ t[b].row <= last /\ Covered(t, t[b].row, last)
                         /\ t[b].text \notin Directive
  BY DEF GoBlock
<1>f. FinalDefs(t)[i].doc = IF Near(t, i) = {} THEN None ELSE CHOOSE c \in Near(t, i) : TRUE
  BY DEF FinalDefs
<1> HIDE DEF last, B
<1>1. CASE Near(t, i) = {}
  <2>1. DocComment(t, FinalDefs(t)[i].doc, i) = None
    BY <1>1, <1>f DEF DocComment
  <2>2. ASSUME NEW b \in B
        PROVE  FALSE
    <3>1. b \in Comments(t) /\ t[b].row \in Nat /\ t[b].row <= last /\ Covered(t, t[b].row, last)
      BY <1>b, <1>c
    <3>2. t[i].row > 0
      <4>1. t[b].row # t[i].row
        BY <1>c, <1>i, <3>1
      <4> QED
        BY <1>i, <1>l, <3>1, <4>1
    <3>3. \E x \in Comments(t) : t[x].row = t[i].row - 1
      <4>1. CASE last = t[i].row - 1
        BY <3>1, <4>1, <1>l DEF Covered
      <4>2. CASE last # t[i].row - 1
        BY <3>2, <4>2, <1>d, <1>i, <1>l
      <4> QED
        BY <4>1, <4>2
    <3>4. PICK x \in Comments(t) : t[x].row + 1 = t[i].row
      BY <3>3, <1>c, <1>i
    <3> QED
      BY <1>1, <3>4, RightAbove DEF Near
  <2> QED
    BY <1>g, <2>1, <2>2
<1>2. CASE Near(t, i) # {}
  <2>1. PICK c : /\ c = FinalDefs(t)[i].doc /\ c \in DocNodes(t, i) /\ Adjacent(t, c, i)
                 /\ c \in Comments(t)
    BY <1>2, <1>f DEF Near, DocNodes, PrevComment
  <2>2. c # None /\ t[c].row \in Nat /\ t[c].row < t[i].row
    BY <2>1, <1>c, <1>i, NoneIsNoNode DEF Adjacent
  <2>3. t[c].row + 1 = t[i].row
    <3> SUFFICES ASSUME t[c].row + 1 < t[i].row PROVE FALSE
      BY <2>2, <1>i
    <3>1. t[i].row - 1 \in (t[c].row + 1)..(t[i].row - 1)
      BY <2>2, <1>i
    <3>2. DirectiveLine(t, t[i].row - 1)
      BY <2>1, <3>1 DEF Adjacent
    <3>3. PICK x \in Comments(t) : t[x].row = t[i].row - 1
      BY <1>d, <3>2
    <3>4. t[x].row + 1 = t[i].row
      BY <1>i, <3>3
    <3>5. x \in DocNodes(t, i) /\ Adjacent(t, x, i)
      BY <3>4, RightAbove
    <3>6. x = c
      BY <2>1, <3>5, OneAdjacent
    <3> QED
      BY <2>2, <3>4, <3>6
  <2>4. last <= t[c].row
    BY <2>2, <2>3, <1>i, <1>l
  <2>5. \A r \in (last + 1)..t[c].row : DirectiveLine(t, r)
    BY <2>2, <2>3, <1>i, <1>l
  <2> DEFINE kept == {b \in CommentBlock(t, c) : t[b].text \notin Directive}
  <2>6. \A b : b \in kept <=> /\ b \in Comments(t) /\ t[b].row <= t[c].row
                              /\ Covered(t, t[b].row, t[c].row) /\ t[b].text \notin Directive
    <3>1. CommentBlock(t, c) =
            {b \in Comments(t) : t[b].row <= t[c].row /\ Covered(t, t[b].row, t[c].row)}
      BY <2>1, DefNodeIs, BlockIs
    <3> QED
      BY <3>1
  <2>7. ASSUME NEW b \in B
        PROVE  b \in kept
    <3>1. /\ b \in Comments(t) /\ t[b].row \in Nat /\ t[b].row <= last
          /\ Covered(t, t[b].row, last) /\ t[b].text \notin Directive
      BY <1>b, <1>c
    <3>2. ASSUME NEW r \in t[b].row..t[c].row
          PROVE  \E x \in Comments(t) : t[x].row = r
      <4>1. CASE r <= last
        BY <3>1, <3>2, <4>1, <1>l DEF Covered
      <4>2. CASE r > last
        <5>1. r \in (last + 1)..t[c].row
          BY <1>l, <2>2, <3>1, <3>2, <4>2
        <5> QED
          BY <1>d, <2>5, <5>1
      <4> QED
        BY <4>1, <4>2, <1>l, <3>1
    <3>3. Covered(t, t[b].row, t[c].row)
      BY <3>2 DEF Covered
    <3>4. t[b].row <= t[c].row
      BY <1>l, <2>2, <2>4, <3>1
    <3> QED
      BY <2>6, <3>1, <3>3, <3>4
  <2>8. ASSUME NEW b \in kept
        PROVE  b \in B
    <3>1. /\ b \in Comments(t) /\ t[b].row \in Nat /\ t[b].row <= t[c].row
          /\ Covered(t, t[b].row, t[c].row) /\ t[b].text \notin Directive
      BY <1>c, <2>6
    <3>2. t[b].row <= last
      <4> SUFFICES ASSUME t[b].row > last PROVE FALSE
        BY <1>l, <3>1
      <4>1. DirectiveLine(t, t[b].row)
        BY <1>l, <2>2, <2>5, <3>1
      <4>2. PICK x \in Comments(t) : t[x].row = t[b].row /\ t[x].text \in Directive
        BY <1>d, <4>1
      <4>3. x = b
        BY <1>c, <3>1, <4>2
      <4> QED
        BY <3>1, <4>2, <4>3
    <3>3. Covered(t, t[b].row, last)
      BY <1>l, <2>2, <2>4, <3>1 DEF Covered
    <3> QED
      BY <1>b, <3>1, <3>2, <3>3
  <2>9. kept = B
    BY <2>7, <2>8
  <2>10. ASSUME kept # {}
         PROVE  Adjacent(t, Max(kept), i)
    <3>1. kept \in SUBSET Nat /\ \A b \in kept : b <= Len(t)
      BY <1>c, <1>t, <2>6
    <3>2. Max(kept) \in kept /\ \A b \in kept : b <= Max(kept)
      <4> HIDE DEF kept
      <4> QED
        BY <1>t, <2>10, <3>1, GreatestOf
    <3>3. PICK m \in kept : m = Max(kept)
      BY <3>2
    <3>4. /\ m \in Comments(t) /\ m \in 1..Len(t) /\ t[m].row \in Nat /\ t[m].row <= t[c].row
          /\ Covered(t, t[m].row, t[c].row)
      BY <1>c, <2>6
    <3>5. ASSUME NEW r \in (t[m].row + 1)..(t[i].row - 1)
          PROVE  DirectiveLine(t, r)
      <4>1. r \in t[m].row..t[c].row /\ r > t[m].row /\ r <= t[c].row
        BY <1>i, <2>2, <2>3, <3>4, <3>5
      <4>2. PICK x \in Comments(t) : t[x].row = r
        BY <3>4, <4>1 DEF Covered
      <4>3. x \in 1..Len(t) /\ x > m
        <5>1. x \in 1..Len(t)
          BY <1>c
        <5>2. x <= m => t[x].row <= t[m].row
          BY <1>t, <3>4, <5>1
        <5> QED
          BY <3>4, <4>1, <4>2, <5>1, <5>2
      <4>4. Covered(t, t[x].row, t[c].row)
        BY <3>4, <4>1, <4>2, <2>2 DEF Covered
      <4>5. x \notin kept
        BY <1>c, <1>t, <3>2, <3>3, <3>4, <4>3
      <4>6. t[x].text \in Directive
        BY <2>6, <4>1, <4>2, <4>4, <4>5
      <4>7. t[1].row < t[x].row
        <5>1. t[1].row <= t[m].row /\ t[1].row \in Nat
          BY <1>t, <3>4
        <5> QED
          BY <3>4, <4>1, <4>2, <5>1
      <4> QED
        BY <1>d, <4>2, <4>6, <4>7
    <3>6. t[i].row > t[m].row
      BY <1>i, <2>2, <2>3, <3>4
    <3> QED
      BY <3>3, <3>5, <3>6 DEF Adjacent
  <2>11. DocComment(t, c, i) =
           IF kept = {} THEN None
           ELSE FirstParagraph([k \in 1..Cardinality(kept) |-> t[InOrder(kept)[k]].text])
    <3>1. DocComment(t, c, i) =
            IF c = None \/ ~Adjacent(t, c, i) \/ kept = {} \/ ~Adjacent(t, Max(kept), i)
            THEN None
            ELSE FirstParagraph([k \in 1..Cardinality(kept) |-> t[InOrder(kept)[k]].text])
      BY DEF DocComment
    <3> HIDE DEF kept
    <3> QED
      BY <2>1, <2>2, <2>10, <3>1
  <2> HIDE DEF kept
  <2> QED
    BY <1>g, <2>1, <2>9, <2>11
<1> QED
  BY <1>1, <1>2

(* Whatever order the matches of the queries came in, a declaration has    *)
(* the doc comment Go's convention gives it, in a file whose comments have *)
(* their own lines, and an import the alias it is written with, in the     *)
(* order of the file (collect_defs, doc_comment, collect_imports).         *)
THEOREM MergesCorrect == ExtractSpec => []MatchOrderIsIrrelevant
<1>1. PassInv => DocsFollowGo
  <2> SUFFICES ASSUME PassInv, Complete, CommentsHaveLines(file), CommentsPrecede(file),
                      NEW d \in facts.defs
               PROVE  d.doc = GoDoc(file, d.node)
    BY DEF DocsFollowGo
  <2>1. Drained /\ facts = Extracted(file) /\ file \in Source
    BY CompleteIs
  <2>2. facts.defs = Defs(rawDefs, file) /\ MergedDefs(rawDefs, file, DefMatches(file))
    BY <2>1 DEF Extracted, ExtractedFile, Drained
  <2>3. PICK i \in DefNodes(file) :
             \E n \in NameNodes(file, i) : d = DefAt(file, i, file[n].text, rawDefs[i].doc)
    BY <2>1, <2>2, DefNamed
  <2>4. d.node = i /\ d.doc = DocComment(file, rawDefs[i].doc, i)
    BY <2>3 DEF DefAt
  <2>5. DocComment(file, rawDefs[i].doc, i) = GoDoc(file, i)
    BY <2>1, <2>2, SameDoc, DocIs
  <2> QED
    BY <2>4, <2>5
<1> QED
  BY <1>1, AliasesAreKept, PassStart, PassStep, PTL DEF ExtractSpec, MatchOrderIsIrrelevant
=============================================================================
