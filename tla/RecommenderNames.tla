--------------------------- MODULE RecommenderNames ---------------------------
(***************************************************************************)
(* How CREATE and DROP RECOMMENDER spell a recommender's name.             *)
(*                                                                         *)
(* The parser folds an unquoted identifier to lower case and keeps a       *)
(* quoted one as written.  CREATE stores '%sIndex' of relname in           *)
(* RecModelsCatalogue as a string (1345) and issues CREATE TABLE %sIndex   *)
(* as unquoted SQL text (1377), so the engine folds the table's name.      *)
(* DROP lower-cases its name (1442-1443), asks recommenderExists, scans    *)
(* and drops the table %sindex, and deletes the catalogue row whose        *)
(* recommenderindexname equals '%sIndex' of the lowered name (1555): a     *)
(* string comparison, which does not fold case.                            *)
(*                                                                         *)
(* Each request is one transaction: one that fails changes nothing.  Cell  *)
(* tables are left out; DROP finds them through the index table, whatever *)
(* the case of the name.  recommenderExists and validateCreateRStmt are    *)
(* not in this repository: each behaviour chooses once (foldsCase)        *)
(* between a lookup that compares names as the design document's case-     *)
(* insensitive destroy name suggests and one that compares exactly.        *)
(***************************************************************************)
EXTENDS Sequences

CONSTANTS Written     \* names as the user writes them: character sequences

VARIABLES rows,       \* recommenderIndexName of each RecModelsCatalogue row
          tables,     \* index tables in pg_class
          foldsCase   \* does the catalogue lookup ignore case?

vars == <<rows, tables, foldsCase>>

\* What a character folds to.
LowerChar(c) == CASE c = "A" -> "a"
                  [] c = "B" -> "b"
                  [] c = "I" -> "i"
                  [] OTHER   -> c

\* tolower() of every character (1442-1443), and the parser's and engine's
\* folding of an unquoted identifier.
Lower(s) == [k \in DOMAIN s |-> LowerChar(s[k])]

IndexSuffix == <<"I", "n", "d", "e", "x">>

\* The relname the parser hands over for a name as written.
RelName(w, quoted) == IF quoted THEN w ELSE Lower(w)

\* The catalogue lookup by '%sIndex'.
Matches(row, name) ==
    IF foldsCase THEN Lower(row) = Lower(name \o IndexSuffix)
                       ELSE row = name \o IndexSuffix

\* recommenderExists(name) (and validateCreateRStmt's check for a taken name).
RecommenderExists(name) == \E row \in rows : Matches(row, name)

Init == rows = {} /\ tables = {} /\ foldsCase \in BOOLEAN

\* Mutant: the index table is created even when a table of its name exists.
CreateIgnoringExistingTable(w, quoted) ==
    LET rel == RelName(w, quoted)
    IN  /\ ~RecommenderExists(rel)
        /\ rows' = rows \cup {rel \o IndexSuffix}
        /\ tables' = tables \cup {Lower(rel \o IndexSuffix)}
        /\ UNCHANGED foldsCase

\* CREATE RECOMMENDER: validation refuses a taken name; the catalogue row
\* keeps relname's case, the index table's name is folded; the request fails
\* as a whole if that table exists.
CreateSucceeds(w, quoted) ==
    LET rel == RelName(w, quoted)
    IN  ~RecommenderExists(rel) /\ Lower(rel \o IndexSuffix) \notin tables

Create(w, quoted) ==
    LET rel == RelName(w, quoted)
    IN  /\ CreateSucceeds(w, quoted)
        /\ rows' = rows \cup {rel \o IndexSuffix}
        /\ tables' = tables \cup {Lower(rel \o IndexSuffix)}
        /\ UNCHANGED foldsCase

\* DROP RECOMMENDER: lower-case the name, check the catalogue and the name,
\* select from and drop %sindex, delete the row equal to '%sIndex'.  Any
\* ERROR (no catalogue, no such recommender, no such table) fails it.
DropSucceeds(w, quoted) ==
    LET recname == Lower(RelName(w, quoted))
    IN  /\ rows # {}
        /\ RecommenderExists(recname)
        /\ Lower(recname \o IndexSuffix) \in tables

Drop(w, quoted) ==
    LET recname == Lower(RelName(w, quoted))
    IN  /\ DropSucceeds(w, quoted)
        /\ tables' = tables \ {Lower(recname \o IndexSuffix)}
        /\ rows' = rows \ {recname \o IndexSuffix}
        /\ UNCHANGED foldsCase

\* A request that raises ERROR: its transaction aborts and nothing changes.
CreateRejected(w, quoted) == ~CreateSucceeds(w, quoted) /\ UNCHANGED vars

DropRejected(w, quoted) == ~DropSucceeds(w, quoted) /\ UNCHANGED vars

Next ==
    \E w \in Written, quoted \in BOOLEAN :
        \/ Create(w, quoted) \/ CreateRejected(w, quoted)
        \/ Drop(w, quoted) \/ DropRejected(w, quoted)

Spec == Init /\ [][Next]_vars

(* Every index table belongs to exactly one catalogue row (the one whose   *)
(* name folds to it).  The catalogue has no unique constraint and CREATE   *)
(* checks the name with a lookup that may not fold case, so "Ab" and "ab" *)
(* can both pass validation: only the failing CREATE TABLE of the second   *)
(* index keeps it from adding a second row.                                *)
IndexOwnedOnce ==
    \A t \in tables : \E row \in rows :
        /\ Lower(row) = t
        /\ \A other \in rows : Lower(other) = t => other = row

(* Design document, section 4: a destroy names its recommender case-        *)
(* insensitively and removes it.  Every catalogued recommender can be      *)
(* dropped by a DROP of its name, quoted as at CREATE or not.              *)
Droppable ==
    \A row \in rows : \E w \in Written, quoted \in BOOLEAN :
        DropSucceeds(w, quoted) /\ Lower(RelName(w, quoted)) \o IndexSuffix = row
====
