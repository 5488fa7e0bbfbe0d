------------------------- MODULE MC_RecathonSessions -------------------------
(***************************************************************************)
(* Model-checking instance of RecathonSessions: three backends, two names, *)
(* or two backends for the liveness property.                              *)
(***************************************************************************)
EXTENDS RecathonSessions, TLC

CONSTANTS s1, s2, s3, r1, r2

MC_Sessions == {s1, s2, s3}
MC_Recs     == {r1, r2}

\* Two backends: enough for two DROPs of one name to wait on each other.
MC_TwoSessions == {s1, s2}

\* Backends and recommender names are interchangeable.
MC_Symmetry == Permutations(MC_Sessions) \cup Permutations(MC_Recs)
====
