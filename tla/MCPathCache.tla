----------------------------- MODULE MCPathCache -----------------------------
(***************************************************************************)
(* Instances of PathCache for TLC.  The tree is a root with a directory    *)
(* dir that holds file, or a root that holds one of them alone.            *)
(***************************************************************************)
EXTENDS PathCache, TLC

CONSTANTS dir, east, west, file, a1, a2

DeepParent == [p \in Paths |-> IF p = file THEN dir ELSE Root]
DeepUnder == [p \in Paths \cup {Root} |-> IF p = Root THEN Paths ELSE IF p = dir THEN {dir, file} ELSE {p}]
FlatParent == [p \in Paths |-> Root]
FlatUnder == [p \in Paths \cup {Root} |-> IF p = Root THEN Paths ELSE {p}]

Alike == Permutations({a1, a2})

OpenFile == [t \in Openers |-> {file}]
ListRoot == [t \in Listers |-> {Root}]
ListDir == [t \in Listers |-> IF t = 3 THEN {Root, east, west} ELSE {dir}]

Scene(threads, changes, fails, restarts) ==
  [threads |-> threads, changes |-> changes, fails |-> fails, restarts |-> restarts]
Change(p, k) == <<[path |-> p, kind |-> k]>>

\* An open below a directory that is listed with its subtree and then goes
\* away.
TreeScenes == {Scene({1, 2, Feeder}, Change(dir, "structural"), FALSE, FALSE)}

\* Opens of a file that is modified; queries of a directory that is, by one
\* thread with a feed that fails too, and by two; and, with no feed, queries of
\* three directories of one bucket and one of another, which the caps cannot
\* all hold.
FeedScenes == {Scene({1, Feeder}, Change(file, "modified"), TRUE, TRUE),
               Scene({a1, Feeder}, Change(dir, "modified"), TRUE, TRUE),
               Scene({a2, Feeder}, Change(dir, "modified"), TRUE, TRUE),
               Scene({a1, a2, Feeder}, Change(dir, "modified"), FALSE, TRUE),
               Scene({2, 3}, <<>>, FALSE, FALSE)}

OneBucket == <<1>>
TwoBuckets == <<1, 2>>
AllInOne == [p \in Paths |-> 1]
ListingsApart == [p \in Dirs |-> IF p = dir THEN 2 ELSE 1]
=============================================================================
