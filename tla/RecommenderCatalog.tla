------------------------- MODULE RecommenderCatalog -------------------------
(***************************************************************************)
(* What CREATE RECOMMENDER and DROP RECOMMENDER promise, with every SQL     *)
(* statement, cursor and failure abstracted away: a recommender appears     *)
(* with exactly one cell per distinct context combination, or disappears,   *)
(* in one step; a request that fails changes nothing.  The global           *)
(* RecathonProperties row exists exactly once after the first creation.    *)
(***************************************************************************)
EXTENDS Bags

CONSTANTS Recs,     \* recommender names
          Methods,  \* recommendation methods (itemCosCF, ..., SVD)
          Combos,   \* distinct context-value combinations of the user table
          NoCtx,    \* the single cell of a context-free recommender
          NoRec     \* "no such recommender"

VARIABLES recs,     \* recs[r]: NoRec, or the method and the bag of cells of r
          props     \* number of rows of the global properties table

vars == <<recs, props>>

\* The cells a recommender is built with: one per combination, or one
\* context-free cell.
CellsOf(context) == SetToBag(IF context THEN Combos ELSE {NoCtx})

Init ==
    /\ recs = [r \in Recs |-> NoRec]
    /\ props = 0

Create(r, m, context) ==
    /\ recs[r] = NoRec
    /\ recs' = [recs EXCEPT ![r] = [method |-> m, cells |-> CellsOf(context)]]
    /\ props' = 1

Drop(r) ==
    /\ recs[r] # NoRec
    /\ recs' = [recs EXCEPT ![r] = NoRec]
    /\ UNCHANGED props

Next ==
    \/ \E r \in Recs, m \in Methods, c \in BOOLEAN : Create(r, m, c)
    \/ \E r \in Recs : Drop(r)

Spec == Init /\ [][Next]_vars
=============================================================================
