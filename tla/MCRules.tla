------------------------------ MODULE MCRules ------------------------------
(* Small instances of Rules. *)
EXTENDS Rules, TLC

CONSTANTS w1, w2, r1, m1, a, u

Leaf(value) == [op |-> "none", children |-> {}, leaf |-> value]
Group(op, children) == [op |-> op, children |-> children, leaf |-> "none"]

Yes == Leaf("yes")
No  == Leaf("no")
Both == Group("and", {Yes, No})
Some == Group("or", {Both, Yes})
Deep == Group("or", {Group("and", {Some}), No})      \* four levels of groups
Empty == Group("or", {})
SomeNodes == {Yes, No, Leaf("unparsable"), Both, Some, Group("and", {Some}), Deep, Empty}

Holds == [v \in {"yes", "no"} |-> IF v = "yes" THEN {m1} ELSE {}]
SubmittedNodes == {Some, Deep, Empty}

FileOne   == <<Rule(a, 0, Both, TRUE)>>
FileTwice == <<Rule(u, 0, Both, TRUE), Rule(u, 0, Both, FALSE)>>
FileWrong == <<Rule(a, 0, Leaf("unparsable"), TRUE)>>
SomeFiles == <<FileTwice, FileOne, FileWrong>>

TwoWriters == {w1, w2}
OneRun == {r1}
OneMessage == {m1}
AllNames == {a, u}
OneName == {u}
Symmetry == Permutations(Writers)
=============================================================================
