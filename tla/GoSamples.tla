----------------------------- MODULE GoSamples -----------------------------
(***************************************************************************)
(* A small Go module for the model checker.  Directory 0 is the root;      *)
(* packages a (dir 1), b (dir 2) and c (dir 3) form the import chain       *)
(* c -> b -> a; dir 2 may also hold a second source file, of package b or  *)
(* of a program `main` that is not built with it, and a test file.         *)
(***************************************************************************)
EXTENDS GoProjection

P(rank, dir, kind) == [rank |-> rank, dir |-> dir, kind |-> kind]
goMod == P(0, 0, "manifest")
a1    == P(1, 1, "source")
b1    == P(2, 2, "source")
b2    == P(3, 2, "source")
bTest == P(4, 2, "test")
c1    == P(5, 3, "source")

N(rank, kind) == [rank |-> rank, kind |-> kind]
pkgA     == N(1, "plain")
pkgB     == N(2, "plain")
pkgBTest == N(3, "test")
pkgC     == N(4, "plain")
pkgMain  == N(5, "main")
MCNames  == {pkgA, pkgB, pkgBTest, pkgC, pkgMain}

imp(d) == [module |-> "m", dir |-> d]
via(d, name) == [via |-> imp(d), name |-> name]
own(name) == [via |-> None, name |-> name]

Go(pkg, imports, refs, defs) ==
  [pkg |-> pkg, imports |-> imports, refs |-> refs, defs |-> defs,
   module |-> None, band |-> "parse", slow |-> FALSE]
Mod(m) ==
  [pkg |-> None, imports |-> {}, refs |-> {}, defs |-> {}, module |-> m,
   band |-> "parse", slow |-> FALSE]

modM   == Mod("m")
modN   == Mod("n")
aX     == Go(pkgA, {}, {}, {"X"})
aY     == Go(pkgA, {}, {}, {"Y"})
aSlow  == [Go(pkgA, {}, {}, {"X", "Y"}) EXCEPT !.slow = TRUE]
aBig   == [Go(pkgA, {}, {}, {}) EXCEPT !.band = "hash_only"]
aHuge  == [Go(pkgA, {}, {}, {}) EXCEPT !.band = "too_large"]
bCallX == Go(pkgB, {imp(1)}, {via(1, "X"), own("W")}, {"Z"})
bBlank == Go(pkgB, {imp(1)}, {}, {"Z"})
bW     == Go(pkgB, {}, {}, {"W"})
bMain  == Go(pkgMain, {}, {}, {"W"})
tAlone == Go(pkgBTest, {}, {}, {})
tUses  == Go(pkgBTest, {imp(2)}, {via(2, "W")}, {})
tOwn   == Go(pkgB, {}, {own("Z"), own("W")}, {})
cCallZ == Go(pkgC, {imp(2)}, {via(2, "Z"), via(2, "W")}, {})
cBlank == Go(pkgC, {imp(2)}, {}, {})

Tree(m, a, b, bb, t, c) ==
  [p \in {goMod, a1, b1, b2, bTest, c1} |->
     CASE p = goMod -> m [] p = a1 -> a [] p = b1 -> b
       [] p = b2 -> bb [] p = bTest -> t [] p = c1 -> c]

AllPaths == {goMod, a1, b1, b2, bTest, c1}
AllTexts == {modM, modN, aX, aY, aSlow, aBig, aHuge, bCallX, bBlank, bW, bMain,
             tAlone, tUses, tOwn, cCallZ, cBlank}
=============================================================================
