------------------------------ MODULE MCScanner ------------------------------
(* A file at the root, two in a directory, a symlink beside them, and a    *)
(* file of .git; contents below the parse cap, between the caps and above. *)
EXTENDS Scanner

CONSTANTS root, sub, git   \* the directories

File(rank, dir) == [rank |-> rank, dir |-> dir, regular |-> TRUE, ignored |-> FALSE]

RootFile == File(1, root)
SubFiles == {File(2, sub), File(3, sub)}
Link     == [File(4, sub) EXCEPT !.regular = FALSE]
GitFile  == File(5, git)

MCDir     == {root, sub, git}
MCPath    == {RootFile, Link, GitFile} \union SubFiles
Small     == [text |-> "small", size |-> 1]
Large     == [text |-> "large", size |-> 2]
Huge      == [text |-> "huge", size |-> 3]
MCContent == {Small, Large, Huge}

Tree(a, b) ==
  [p \in MCPath |-> CASE p = RootFile -> a
                      [] p = File(2, sub) -> b
                      [] p = File(3, sub) -> None
                      [] OTHER -> Huge]

MCTrees == {Tree(Small, Small), Tree(None, Large), Tree(Huge, None)}
=============================================================================
