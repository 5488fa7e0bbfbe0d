------------------------- MODULE MC_RecommenderNames -------------------------
EXTENDS RecommenderNames, Naturals

\* Names of one letter, and of two letters a or A, in either case.
MC_Written == [1..1 -> {"a", "A", "b", "B"}] \cup [1..2 -> {"a", "A"}]
====
