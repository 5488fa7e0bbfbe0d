---------------------------- MODULE MC_Recathon ----------------------------
(***************************************************************************)
(* Model-checking instance of Recathon: two recommender names, one method  *)
(* of each family, two context combinations in the user table.             *)
(***************************************************************************)
EXTENDS Recathon, TLC

CONSTANTS r1, r2, c1, c2

MC_Recs    == {r1, r2}
MC_Combos  == {c1, c2}
MC_Methods == {"itemcoscf", "userpearcf", "svd"}

\* Transaction blocks multiply the states; SVD alone has the most tables.
MC_BlockMethods == {"svd"}

\* Recommender names and context combinations are interchangeable.
MC_Symmetry == Permutations(MC_Recs) \cup Permutations(MC_Combos)

\* Bound: gettimeofday() readings explored.
MC_Constraint == clock <= MaxClock
====
