------------------------- MODULE TaskSelect_proofs -------------------------
(***************************************************************************)
(* What becomes of the words of any task: the terms, the flags and the     *)
(* seeds, over any symbols.                                                *)
(***************************************************************************)
EXTENDS TaskSelect, TLAPS

(***************************************************************************)
(* One word.                                                               *)
(***************************************************************************)
LEMMA NoModifierPushed ==
  ASSUME NEW text, NEW spelling
  PROVE  /\ \A p \in PushTerm(text, spelling).terms : p[1] \notin Modifier
         /\ \A p \in PushPiece(text).terms : p[1] \notin Modifier
<1>1. \A p \in PushTerm(text, spelling).terms : p[1] \notin Modifier
  BY ModifiersAreStopwords DEF PushTerm, Nothing, Term
<1>2. \A p \in PushPiece(text).terms : p[1] \notin Modifier
  BY DEF PushPiece, Nothing, Term
<1> QED
  BY <1>1, <1>2

LEMMA NoModifierJoined ==
  ASSUME NEW w
  PROVE  \A p \in Join(w).terms : p[1] \notin Modifier
<1>1. \A p \in PushTerm(w.joined, w.text).terms : p[1] \notin Modifier
  BY NoModifierPushed
<1> QED
  BY <1>1 DEF Join, Nothing

(* What the words of CollectTerms contribute, one by one. *)
Collected(w, filterWords) ==
  {IF filterWords \/ (Len(w.runs) = 1 /\ Len(w.runs[1].pieces) = 1)
   THEN PushTerm(p, p) ELSE PushPiece(p) : p \in Pieces(w)} \union {Join(w)}

LEMMA CollectedTerms ==
  ASSUME NEW w, NEW filterWords
  PROVE  /\ CollectTerms(w, filterWords).terms = UNION {c.terms : c \in Collected(w, filterWords)}
         /\ CollectTerms(w, filterWords).flags = UNION {c.flags : c \in Collected(w, filterWords)}
<1>1. CollectTerms(w, filterWords) = Both(Collected(w, filterWords))
  BY DEF CollectTerms, Collected
<1> HIDE DEF Collected
<1> QED
  BY <1>1 DEF Both

LEMMA NoModifierContributed ==
  ASSUME NEW w, w.form \in Form
  PROVE  \A p \in Contribution(w).terms : p[1] \notin Modifier
<1>1. ASSUME NEW filterWords, NEW c \in Collected(w, filterWords)
      PROVE  \A p \in c.terms : p[1] \notin Modifier
  BY NoModifierPushed, NoModifierJoined DEF Collected
<1>2. ASSUME NEW filterWords
      PROVE  \A p \in CollectTerms(w, filterWords).terms : p[1] \notin Modifier
  <2>1. PICK all : all = Collected(w, filterWords)
    OBVIOUS
  <2>2. CollectTerms(w, filterWords).terms = UNION {c.terms : c \in all}
    BY <2>1, CollectedTerms
  <2>3. \A c \in all : \A p \in c.terms : p[1] \notin Modifier
    BY <1>1, <2>1
  <2> QED
    BY <2>2, <2>3
<1>3. \A p \in PushPiece(Member(w)).terms : p[1] \notin Modifier
  BY NoModifierPushed
<1> QED
  BY <1>2, <1>3 DEF Contribution, Form

(* A term of a contribution is in the map, under its spelling.             *)
Has(map, term, spelling) == term \in DOMAIN map /\ spelling \in map[term]

(* More terms and more flags. *)
Grown(map, raised, more, moreRaised) ==
  /\ \A term, spelling : Has(map, term, spelling) => Has(more, term, spelling)
  /\ raised \subseteq moreRaised

LEMMA InsertedHas ==
  ASSUME NEW map, NEW pairs
  PROVE  /\ DOMAIN Inserted(map, pairs) = DOMAIN map \union {p[1] : p \in pairs}
         /\ \A term, spelling : Has(map, term, spelling) => Has(Inserted(map, pairs), term, spelling)
         /\ \A p \in pairs : Has(Inserted(map, pairs), p[1], p[2])
<1> DEFINE of(t) == (IF t \in DOMAIN map THEN map[t] ELSE {})
                      \union {p[2] : p \in {q \in pairs : q[1] = t}}
<1>1. Inserted(map, pairs) = [t \in DOMAIN map \union {p[1] : p \in pairs} |-> of(t)]
  BY DEF Inserted
<1>2. \A t \in DOMAIN map : map[t] \subseteq of(t)
  OBVIOUS
<1>3. \A p \in pairs : p[2] \in of(p[1])
  OBVIOUS
<1> HIDE DEF of
<1> QED
  BY <1>1, <1>2, <1>3 DEF Has

----------------------------------------------------------------------------
(***************************************************************************)
(* What is kept of a word, in the terms map and the flags raised.          *)
(***************************************************************************)
Compound(w) == w.form = "plain" /\ (Len(w.runs) > 1 \/ Len(w.runs[1].pieces) > 1)

Spelled(w) == IF w.form = "qualified" THEN {Member(w)}
              ELSE IF Compound(w) THEN Pieces(w) ELSE {}

PieceKept(p, map, raised) ==
  IF Lower[p] \in Modifier THEN Raised(p) \subseteq raised ELSE Has(map, Lower[p], p)

JoinedKept(w, map) ==
  Compound(w) /\ w.joined # "" /\ (\E i \in DOMAIN w.runs : w.runs[i].text \in Misshapen) =>
    \/ Lower[w.joined] \in Stopword \/ w.joined \in Misshapen
    \/ Has(map, Lower[w.joined], w.text)

WholeKept(w, map) ==
  /\ w.form = "plain" /\ Len(w.runs) = 1 /\ Len(w.runs[1].pieces) = 1
  /\ w.text \notin Misshapen /\ Lower[w.text] \notin Stopword
  => Has(map, Lower[w.text], w.text)

WordKept(w, map, raised) ==
  /\ \A p \in Spelled(w) \ Misshapen : PieceKept(p, map, raised)
  /\ JoinedKept(w, map)
  /\ WholeKept(w, map)

LEMMA KeptWhenGrown ==
  ASSUME NEW w, NEW map, NEW raised, NEW more, NEW moreRaised,
         Grown(map, raised, more, moreRaised), WordKept(w, map, raised)
  PROVE  WordKept(w, more, moreRaised)
BY DEF Grown, WordKept, PieceKept, JoinedKept, WholeKept

LEMMA ContributionKept ==
  ASSUME NEW t \in Task, NEW w \in Range(t), NEW map, NEW raised,
         \A p \in Contribution(w).terms : Has(map, p[1], p[2]),
         Contribution(w).flags \subseteq raised
  PROVE  WordKept(w, map, raised)
<1>1. /\ w.form \in Form
      /\ w.joined # "" => Len(w.runs) > 1
      /\ w.form = "plain" /\ Len(w.runs) = 1 /\ Len(w.runs[1].pieces) = 1
           => Range(w.runs[1].pieces) = {w.text}
      /\ w.runs \in Seq(Range(w.runs))
  BY TaskShape
<1>2. ASSUME NEW p, p \notin Misshapen,
             PushPiece(p).flags \subseteq Contribution(w).flags,
             PushPiece(p).terms \subseteq Contribution(w).terms
      PROVE  PieceKept(p, map, raised)
  <2>1. CASE Lower[p] \in Modifier
    BY <1>2, <2>1 DEF PushPiece, PieceKept
  <2>2. CASE Lower[p] \notin Modifier
    <3>1. <<Lower[p], p>> \in Contribution(w).terms
      BY <1>2, <2>2 DEF PushPiece, Term
    <3> QED
      BY <2>2, <3>1 DEF PieceKept
  <2> QED
    BY <2>1, <2>2
<1>3. CASE w.form = "qualified"
  <2>1. Contribution(w) = PushPiece(Member(w))
    BY <1>3 DEF Contribution
  <2>2. Spelled(w) = {Member(w)} /\ ~Compound(w)
    BY <1>3 DEF Spelled, Compound
  <2> QED
    BY <1>2, <1>3, <2>1, <2>2 DEF WordKept, JoinedKept, WholeKept
<1>4. CASE w.form = "path"
  BY <1>4 DEF WordKept, Spelled, Compound, JoinedKept, WholeKept
<1>5. CASE w.form = "plain"
  <2>1. PICK all : all = Collected(w, FALSE)
    OBVIOUS
  <2>2. /\ Contribution(w).terms = UNION {c.terms : c \in all}
        /\ Contribution(w).flags = UNION {c.flags : c \in all}
    BY <1>5, <2>1, CollectedTerms DEF Contribution
  <2>3. \A c \in all : c.terms \subseteq Contribution(w).terms /\ c.flags \subseteq Contribution(w).flags
    BY <2>2
  <2>4. Join(w) \in all
    BY <2>1 DEF Collected
  <2>5. CASE Compound(w)
    <3>1. ~(Len(w.runs) = 1 /\ Len(w.runs[1].pieces) = 1)
      <4>1. ASSUME NEW n, n = 1 PROVE ~(n > 1)
        BY <4>1
      <4> QED
        BY <2>5, <4>1 DEF Compound
    <3>2. \A p \in Pieces(w) : PushPiece(p) \in all
      BY <2>1, <3>1 DEF Collected
    <3>3. Spelled(w) = Pieces(w)
      BY <1>5, <2>5 DEF Spelled
    <3>4. \A p \in Spelled(w) \ Misshapen : PieceKept(p, map, raised)
      BY <1>2, <2>3, <3>2, <3>3
    <3>5. ASSUME w.joined # "", \E i \in DOMAIN w.runs : w.runs[i].text \in Misshapen,
                 Lower[w.joined] \notin Stopword, w.joined \notin Misshapen
          PROVE  Has(map, Lower[w.joined], w.text)
      <4>1. Join(w) = PushTerm(w.joined, w.text)
        BY <1>1, <3>5, ModifiersAreStopwords DEF Join
      <4>2. <<Lower[w.joined], w.text>> \in Join(w).terms
        <5>1. PushTerm(w.joined, w.text).terms = Term(w.joined, w.text)
          BY <3>5 DEF PushTerm
        <5> QED
          BY <4>1, <5>1 DEF Term
      <4> QED
        BY <2>3, <2>4, <4>2
    <3> QED
      BY <3>1, <3>4, <3>5 DEF WordKept, JoinedKept, WholeKept
  <2>6. CASE ~Compound(w)
    <3>1. Spelled(w) = {}
      BY <1>5, <2>6 DEF Spelled
    <3>2. ASSUME Len(w.runs) = 1, Len(w.runs[1].pieces) = 1,
                 w.text \notin Misshapen, Lower[w.text] \notin Stopword
          PROVE  Has(map, Lower[w.text], w.text)
      <4>1. w.text \in Pieces(w)
        <5>1. Range(w.runs[1].pieces) = {w.text}
          BY <1>1, <1>5, <3>2
        <5>2. 1 \in DOMAIN w.runs
          <6>1. PICK runs \in Seq(Range(w.runs)) : runs = w.runs
            BY <1>1
          <6>2. DOMAIN runs = 1..Len(runs)
            OBVIOUS
          <6> QED
            BY <3>2, <6>1, <6>2
        <5> QED
          BY <5>1, <5>2 DEF Pieces
      <4>2. PushTerm(w.text, w.text) \in all
        BY <2>1, <3>2, <4>1 DEF Collected
      <4>3. <<Lower[w.text], w.text>> \in PushTerm(w.text, w.text).terms
        BY <3>2 DEF PushTerm, Term
      <4> QED
        BY <2>3, <4>2, <4>3
    <3> QED
      BY <2>6, <3>1, <3>2 DEF WordKept, JoinedKept, WholeKept
  <2> QED
    BY <2>5, <2>6
<1> QED
  BY <1>1, <1>3, <1>4, <1>5 DEF Form
----------------------------------------------------------------------------
(***************************************************************************)
(* The selection.                                                          *)
(***************************************************************************)
SelectInv ==
  /\ task \in Task /\ next \in Nat \ {0}
  /\ ModifiersAreFlags
  /\ \A w \in Read : WordKept(w, terms, flags)
  /\ Seeded => seeds = SeedS1(terms) \union SeedS4(terms)

LEMMA WordsOfTask ==
  ASSUME NEW t \in Task
  PROVE  Len(t) \in Nat /\ DOMAIN t = 1..Len(t) /\ \A i \in DOMAIN t : t[i] \in Range(t)
<1>1. PICK s \in Seq(Range(t)) : s = t
  BY TaskShape
<1>2. Len(s) \in Nat /\ DOMAIN s = 1..Len(s)
  OBVIOUS
<1>3. \A i \in DOMAIN t : t[i] \in Range(t)
  BY DEF Range
<1> QED
  BY <1>1, <1>2, <1>3

LEMMA InitSelect == SelectInit => SelectInv
<1> SUFFICES ASSUME SelectInit PROVE SelectInv
  OBVIOUS
<1>1. task \in Task /\ next = 1 /\ terms = <<>>
  BY DEF SelectInit
<1>2. Read = {}
  BY <1>1 DEF Read
<1>3. Len(task) \in Nat
  BY <1>1, WordsOfTask
<1>4. ~Seeded
  BY <1>1, <1>3 DEF Seeded
<1>5. ModifiersAreFlags
  <2>1. DOMAIN <<>> = {}
    OBVIOUS
  <2> QED
    BY <1>1, <2>1 DEF ModifiersAreFlags
<1> QED
  BY <1>1, <1>2, <1>4, <1>5 DEF SelectInv

LEMMA ReadKeeps == SelectInv /\ ReadWord => SelectInv'
<1> SUFFICES ASSUME SelectInv, ReadWord PROVE SelectInv'
  OBVIOUS
<1>1. /\ task \in Task /\ task' = task /\ next \in Nat \ {0} /\ next' = next + 1
      /\ next <= Len(task)
  BY DEF SelectInv, ReadWord
<1>2. Len(task) \in Nat /\ DOMAIN task = 1..Len(task)
  BY <1>1, WordsOfTask
<1>3. PICK w : w = task[next]
  OBVIOUS
<1>4. w \in Range(task) /\ w.form \in Form
  <2>1. next \in DOMAIN task
    BY <1>1, <1>2
  <2>2. w \in Range(task)
    BY <1>1, <1>3, <2>1, WordsOfTask
  <2> QED
    BY <1>1, <2>2, TaskShape
<1>5. PICK c : c = Contribution(w)
  OBVIOUS
<1>6. terms' = Inserted(terms, c.terms) /\ flags' = flags \union Raised(w.text) \union c.flags
  BY <1>3, <1>5 DEF ReadWord
<1>7. ModifiersAreFlags'
  <2>1. \A p \in c.terms : p[1] \notin Modifier
    BY <1>4, <1>5, NoModifierContributed
  <2>2. DOMAIN terms' = DOMAIN terms \union {p[1] : p \in c.terms}
    BY <1>6, InsertedHas
  <2> QED
    BY <2>1, <2>2 DEF SelectInv, ModifiersAreFlags
<1>8. Grown(terms, flags, terms', flags')
  BY <1>6, InsertedHas DEF Grown
<1>9. \A v \in Read : WordKept(v, terms', flags')
  BY <1>8, KeptWhenGrown DEF SelectInv
<1>10. WordKept(w, terms', flags')
  <2>1. \A p \in c.terms : Has(terms', p[1], p[2])
    BY <1>6, InsertedHas
  <2>2. c.flags \subseteq flags'
    BY <1>6
  <2> QED
    BY <1>1, <1>4, <1>5, <2>1, <2>2, ContributionKept
<1>11. Read' \subseteq Read \union {w}
  <2>1. 1..(next' - 1) = (1..(next - 1)) \union {next}
    BY <1>1
  <2> QED
    BY <1>1, <1>3, <2>1 DEF Read
<1>12. ~Seeded'
  BY <1>1, <1>2 DEF Seeded
<1>13. \A v \in Read' : WordKept(v, terms', flags')
  BY <1>9, <1>10, <1>11
<1> QED
  BY <1>1, <1>7, <1>12, <1>13 DEF SelectInv

LEMMA SeedKeeps == SelectInv /\ SeedTask => SelectInv'
<1> SUFFICES ASSUME SelectInv, SeedTask PROVE SelectInv'
  OBVIOUS
<1>1. /\ task \in Task /\ task' = task /\ next \in Nat \ {0} /\ next' = next + 1
      /\ next = Len(task) + 1 /\ terms' = terms /\ flags' = flags
      /\ seeds' = SeedS1(terms) \union SeedS4(terms)
  BY DEF SelectInv, SeedTask
<1>2. Len(task) \in Nat /\ DOMAIN task = 1..Len(task)
  BY <1>1, WordsOfTask
<1>3. Read' \subseteq Read
  <2>1. \A i \in 1..(next' - 1) \intersect DOMAIN task : i \in 1..(next - 1)
    BY <1>1, <1>2
  <2> QED
    BY <1>1, <2>1 DEF Read
<1>4. \A w \in Read' : WordKept(w, terms', flags')
  BY <1>1, <1>3 DEF SelectInv
<1>5. seeds' = SeedS1(terms') \union SeedS4(terms')
  BY <1>1
<1>6. ModifiersAreFlags'
  BY <1>1 DEF SelectInv, ModifiersAreFlags
<1>7. next' \in Nat \ {0}
  BY <1>1
<1> QED
  BY <1>1, <1>4, <1>5, <1>6, <1>7 DEF SelectInv

LEMMA StepSelect == SelectInv /\ [SelectNext]_selectVars => SelectInv'
<1>1. ASSUME SelectInv, UNCHANGED selectVars PROVE SelectInv'
  BY <1>1 DEF SelectInv, selectVars, ModifiersAreFlags, Read, Seeded
<1> QED
  BY <1>1, ReadKeeps, SeedKeeps DEF SelectNext

(* Whatever the task, a modifier is never a term, through whichever rule   *)
(* it came (task.rs, tag_modifier and collect_terms).                      *)
THEOREM ModifiersNeverTerms == SelectSpec => []ModifiersAreFlags
<1>1. SelectInv => ModifiersAreFlags
  BY DEF SelectInv
<1> QED
  BY <1>1, InitSelect, StepSelect, PTL DEF SelectSpec

(* Whatever the task, no fragment of an identifier is lost to the          *)
(* stopwords (task.rs, push_identifier_piece and collect_terms).           *)
THEOREM FragmentsKept == SelectSpec => []FragmentsAreSignal
<1>1. SelectInv => FragmentsAreSignal
  <2> SUFFICES ASSUME SelectInv, NEW w \in Read, w.form # "path"
               PROVE  /\ \A p \in Spelled(w) \ Misshapen : PieceKept(p, terms, flags)
                      /\ JoinedKept(w, terms)
    BY DEF FragmentsAreSignal, Spelled, Compound, PieceKept, JoinedKept, Has
  <2> QED
    BY DEF SelectInv, WordKept
<1> QED
  BY <1>1, InitSelect, StepSelect, PTL DEF SelectSpec

(* Whatever the task and the symbols, S1 names a file for a symbol whose   *)
(* whole name is a term, and finds every symbol a plain word spells        *)
(* (seed.rs, the exact and the folded match).                              *)
THEOREM SeedsCorrect == SelectSpec => []SeedsNameSymbols
<1>1. SelectInv => SeedsNameSymbols
  <2> SUFFICES ASSUME SelectInv, Seeded PROVE SeedsNameSymbols
    BY DEF SeedsNameSymbols
  <2>1. seeds = SeedS1(terms) \union SeedS4(terms)
    BY DEF SelectInv
  <2>2. ASSUME NEW s \in SeedS1(terms)
        PROVE  /\ s.signal = "S1Exact"  <=> s.name \in terms[s.term]
               /\ s.name \in terms[s.term] \/ Lower[s.name] = s.term
    BY DEF SeedS1, Seed
  <2>3. ASSUME NEW s \in SeedS4(terms) PROVE s.signal = "S4Bm25"
    BY DEF SeedS4, Seed
  <2>4. ASSUME NEW w \in Read, NEW y \in Symbol, w.form = "plain", w.text = y.name,
               Len(w.runs) = 1, Len(w.runs[1].pieces) = 1,
               w.text \notin Misshapen, Lower[w.text] \notin Stopword
        PROVE  Seed(Lower[y.name], y, "S1Exact") \in SeedS1(terms)
    <3>1. Has(terms, Lower[y.name], y.name)
      BY <2>4 DEF SelectInv, WordKept, WholeKept
    <3>2. w \in Range(task) /\ task \in Task
      BY DEF SelectInv, Read, Range
    <3>3. Lower[y.name] \in y.tokens
      BY <2>4, <3>2, TokenShape
    <3> DEFINE term == Lower[y.name]
               mine == {s \in Symbol : /\ Matches(term, s)
                                       /\ s.name \in terms[term] \/ Lower[s.name] = term}
    <3>4. y \in mine
      BY <3>1, <3>3 DEF Matches, Has
    <3>5. Seed(term, y, "S1Exact")
            \in {Seed(term, s, IF s.name \in terms[term] THEN "S1Exact" ELSE "S1Folded") : s \in mine}
      BY <3>1, <3>4 DEF Has
    <3> QED
      BY <3>1, <3>5 DEF SeedS1, Has
  <2> QED
    BY <2>1, <2>2, <2>3, <2>4 DEF SeedsNameSymbols
<1> QED
  BY <1>1, InitSelect, StepSelect, PTL DEF SelectSpec
=============================================================================
