----------------------------- MODULE TaskSelect -----------------------------
(***************************************************************************)
(* The first stages of a selection: a task text becomes terms, hints and   *)
(* flags, word by word (cs-select task.rs), and the terms are matched with *)
(* the symbols of a snapshot (seed.rs, signals S1 and S4).                 *)
(*                                                                         *)
(* A task is a sequence of words, each already cleaned and cut: its form,  *)
(* its runs of alphanumeric characters, the camelCase pieces of each run   *)
(* and, when _ or - joins the runs, the text they make together.           *)
(***************************************************************************)
EXTENDS Naturals, Sequences, FiniteSets, Functions

CONSTANTS
  Task,        \* the tasks parsed: sequences of words
  Symbol,      \* the symbols of the snapshot: [file, name, tokens, otherTokens]
  Lower,       \* [text -> text]: str::to_lowercase
  Misshapen,   \* the texts shape_dropped refuses
  Stopword,    \* STOPWORDS
  TestWord,    \* the words that set test_bias
  ConfigWord   \* the words that set config_bias

Modifier == TestWord \union ConfigWord

(* The table holds every modifier: a whole word is kept out of the terms   *)
(* by the table alone.                                                     *)
ASSUME ModifiersAreStopwords == Modifier \subseteq Stopword

Form == {"path", "qualified", "plain"}

(* The text that is joined is that of several runs, none of them empty; a  *)
(* word that is one piece is that piece.                                   *)
ASSUME TaskShape ==
  \A t \in Task :
    /\ t \in Seq(Range(t))
    /\ \A w \in Range(t) :
         /\ w.form \in Form
         /\ w.runs \in Seq(Range(w.runs))
         /\ w.joined # "" => Len(w.runs) > 1
         /\ w.form = "plain" /\ Len(w.runs) = 1 /\ Len(w.runs[1].pieces) = 1
              => Range(w.runs[1].pieces) = {w.text}

(* FTS5 makes one token, in lower case, of a name that is one run.         *)
ASSUME TokenShape ==
  \A t \in Task, y \in Symbol : \A w \in Range(t) :
    w.form = "plain" /\ Len(w.runs) = 1 /\ w.text = y.name => Lower[y.name] \in y.tokens

VARIABLES
  task,        \* the words
  next,        \* the word read next
  terms,       \* lowers: lower-case term -> its spellings in the task
  paths, symbols,  \* Hints
  flags,       \* TaskFlags: the modifiers raised
  seeds        \* the contributions of S1 and S4, None before they are asked

selectVars == <<task, next, terms, paths, symbols, flags, seeds>>

Word(form, text, runs, joined) == [form |-> form, text |-> text, runs |-> runs, joined |-> joined]
Run(text, pieces) == [text |-> text, pieces |-> pieces]

-----------------------------------------------------------------------------
(* What one text adds, under its two sets of rules; a contribution is a    *)
(* term and a spelling of it, or a flag.                                   *)

Raised(text) ==
  (IF Lower[text] \in TestWord THEN {"test_bias"} ELSE {})
    \union (IF Lower[text] \in ConfigWord THEN {"config_bias"} ELSE {})

Term(text, spelling) == {<<Lower[text], spelling>>}
Nothing == [terms |-> {}, flags |-> {}]

(* push_term *)
PushTerm(text, spelling) ==
  IF text \in Misshapen \/ Lower[text] \in Stopword THEN Nothing
  ELSE [terms |-> Term(text, spelling), flags |-> {}]

(* push_identifier_piece *)
PushPieceAsWord(piece) == PushTerm(piece, piece)  \* mutant: filtered like a word
PushPiece(piece) ==
  IF Lower[piece] \in Modifier THEN [terms |-> {}, flags |-> Raised(piece)]
  ELSE IF piece \in Misshapen THEN Nothing
  ELSE [terms |-> Term(piece, piece), flags |-> {}]

Both(contributions) ==
  [terms |-> UNION {c.terms : c \in contributions},
   flags |-> UNION {c.flags : c \in contributions}]

Pieces(w) == UNION {Range(w.runs[i].pieces) : i \in DOMAIN w.runs}

(* The joined form, when a run alone would be lost. *)
JoinAlways(w) ==                      \* mutant: the modifiers are not asked
  IF Len(w.runs) > 1 /\ w.joined # "" /\ \E i \in DOMAIN w.runs : w.runs[i].text \in Misshapen
  THEN IF w.joined \in Misshapen THEN Nothing
       ELSE [terms |-> Term(w.joined, w.text), flags |-> {}]
  ELSE Nothing
Join(w) ==
  IF Len(w.runs) > 1 /\ w.joined # "" /\ \E i \in DOMAIN w.runs : w.runs[i].text \in Misshapen
  THEN IF Lower[w.joined] \in Modifier THEN [terms |-> {}, flags |-> Raised(w.joined)]
       ELSE PushTerm(w.joined, w.text)
  ELSE Nothing

(* collect_terms: a word of one piece, and every piece of a path, is a     *)
(* word; the pieces of a compound are fragments of an identifier.          *)
CollectTerms(w, filterWords) ==
  LET whole == filterWords \/ (Len(w.runs) = 1 /\ Len(w.runs[1].pieces) = 1)
  IN  Both({IF whole THEN PushTerm(p, p) ELSE PushPiece(p) : p \in Pieces(w)} \union {Join(w)})

Parts(w)  == {w.runs[i].text : i \in DOMAIN w.runs}
Member(w) == w.runs[Len(w.runs)].text

Contribution(w) ==
  CASE w.form = "path"      -> CollectTerms(w, TRUE)
    [] w.form = "qualified" -> PushPiece(Member(w))
    [] w.form = "plain"     -> CollectTerms(w, FALSE)

(* BTreeMap entries: a term gains a spelling. *)
Inserted(map, pairs) ==
  [t \in DOMAIN map \union {p[1] : p \in pairs} |->
     (IF t \in DOMAIN map THEN map[t] ELSE {}) \union {p[2] : p \in {q \in pairs : q[1] = t}}]

-----------------------------------------------------------------------------
(* The seeds: the phrase query of FTS5 over name, file and kind, then the  *)
(* comparison of S1.  The tokenizer folds case and splits at _ .           *)

Matches(term, s) == \E col \in {s.tokens, s.otherTokens} : term \in col

Seed(term, s, signal) == [term |-> term, file |-> s.file, name |-> s.name, signal |-> signal]

SeedS1Loose(map) ==                   \* mutant: the row is not compared
  UNION {{Seed(t, s, IF s.name \in map[t] THEN "S1Exact" ELSE "S1Folded") :
            s \in {s \in Symbol : Matches(t, s)}} : t \in DOMAIN map}
SeedS1(map) ==
  UNION {{Seed(t, s, IF s.name \in map[t] THEN "S1Exact" ELSE "S1Folded") :
            s \in {s \in Symbol : /\ Matches(t, s)
                                  /\ s.name \in map[t] \/ Lower[s.name] = t}} : t \in DOMAIN map}

SeedS4(map) ==
  UNION {{Seed(t, s, "S4Bm25") : s \in {s \in Symbol : Matches(t, s)}} : t \in DOMAIN map}

-----------------------------------------------------------------------------
SelectInit ==
  /\ task \in Task /\ next = 1
  /\ terms = <<>> /\ paths = {} /\ symbols = {} /\ flags = {}
  /\ seeds = {}

(* One turn of the loop of parse_task. *)
ReadWord ==
  /\ next <= Len(task)
  /\ LET w == task[next]
         c == Contribution(w)
     IN  /\ terms' = Inserted(terms, c.terms)
         /\ flags' = flags \union Raised(w.text) \union c.flags
         /\ paths' = IF w.form = "path" THEN paths \union {w.text} ELSE paths
         /\ symbols' = IF w.form = "qualified"
                       THEN symbols \union {w.text}
                              \union {p \in Parts(w) : Lower[p] \notin Stopword}
                       ELSE symbols
  /\ next' = next + 1
  /\ UNCHANGED <<task, seeds>>

SeedTask ==
  /\ next = Len(task) + 1
  /\ seeds' = SeedS1(terms) \union SeedS4(terms)
  /\ next' = next + 1
  /\ UNCHANGED <<task, terms, paths, symbols, flags>>

SelectNext == ReadWord \/ SeedTask

SelectSpec == SelectInit /\ [][SelectNext]_selectVars

-----------------------------------------------------------------------------
Read == {task[i] : i \in 1..(next - 1) \intersect DOMAIN task}
Seeded == next = Len(task) + 2

(* A modifier is a flag and never a term, through whichever rule it came:  *)
(* a word of its own, a piece of an identifier, a qualified member or the  *)
(* text two innocent runs make together.                                   *)
ModifiersAreFlags == DOMAIN terms \intersect Modifier = {}

(* No identifier the task spells is lost to the stopwords: every piece of  *)
(* a compound and every qualified member that has the shape of a term is   *)
(* a term, or a flag; and a run too short to be one is remembered in the   *)
(* joined form, unless that is filtered itself.                            *)
FragmentsAreSignal ==
  \A w \in Read : w.form # "path" =>
    LET compound == w.form = "plain" /\ (Len(w.runs) > 1 \/ Len(w.runs[1].pieces) > 1)
        spelled  == IF w.form = "qualified" THEN {Member(w)}
                    ELSE IF compound THEN Pieces(w) ELSE {}
    IN  /\ \A p \in spelled \ Misshapen :
             IF Lower[p] \in Modifier THEN Raised(p) \subseteq flags
             ELSE Lower[p] \in DOMAIN terms /\ p \in terms[Lower[p]]
        /\ compound /\ w.joined # "" /\ (\E i \in DOMAIN w.runs : w.runs[i].text \in Misshapen) =>
             \/ Lower[w.joined] \in Stopword \/ w.joined \in Misshapen
             \/ Lower[w.joined] \in DOMAIN terms /\ w.text \in terms[Lower[w.joined]]

(* S1 names a file for a symbol whose whole name is a term, in the full    *)
(* weight only if the task spells it so; a symbol gets one S1 per term;    *)
(* and a symbol a plain word of one run and one piece spells is found,     *)
(* whatever words surround it.                                             *)
SeedsNameSymbols ==
  Seeded =>
    /\ \A s \in seeds : s.signal # "S4Bm25" =>
         /\ s.signal = "S1Exact"  <=> s.name \in terms[s.term]
         /\ s.name \in terms[s.term] \/ Lower[s.name] = s.term
    /\ \A w \in Read, y \in Symbol :
         /\ w.form = "plain" /\ w.text = y.name /\ Len(w.runs) = 1
         /\ Len(w.runs[1].pieces) = 1 /\ w.text \notin Misshapen /\ Lower[w.text] \notin Stopword
         => Seed(Lower[y.name], y, "S1Exact") \in seeds
=============================================================================
