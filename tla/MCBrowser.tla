----------------------------- MODULE MCBrowser -----------------------------
(* Model checking of Browser: databases with directories that are empty, just *)
(* fit and are too long.                                                      *)
EXTENDS Browser

D(path) == [path |-> path, dir |-> TRUE]
S(path) == [path |-> path, dir |-> FALSE]

\* Three levels.
Deep == {D(<<1>>), D(<<3>>), S(<<2>>), S(<<4>>),
         D(<<1, 1>>), S(<<1, 2>>), S(<<1, 3>>),
         S(<<1, 1, 1>>), S(<<3, 1>>)}

\* The root is shorter, one directory has become too long, one is empty.
Wide == {D(<<1>>), D(<<3>>), S(<<2>>)} \cup {S(<<1, n>>) : n \in 1..5}

MCTrees == {Deep, Wide, {}}

MCMoves ==
  {[kind |-> "letter", step |-> s] : s \in {-1, 1}}
  \cup {[kind |-> "relative", step |-> s] : s \in {-1, 1, 2}}
  \cup {[kind |-> "absolute", step |-> 2]}
=============================================================================
