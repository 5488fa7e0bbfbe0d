----------------------------- MODULE QueryBuffers -----------------------------
(***************************************************************************)
(* The fixed-size buffers CREATE and DROP RECOMMENDER compose their SQL    *)
(* text in.  Every sprintf writes its formatted text and a NUL; every      *)
(* strncat(dst, src, strlen(src)) appends src and a NUL after what dst     *)
(* holds.  A write is modelled by the number of bytes it needs, compared   *)
(* with the size the buffer was palloc'd or declared with; a string is     *)
(* abstracted to its length.  Identifiers (relation, table, key and column *)
(* names) reach this code through the parser, which truncates them to      *)
(* NAMEDATALEN-1 bytes; context values are data of the user table and have *)
(* any length.                                                             *)
(*                                                                         *)
(* One request is followed from the catalogue statements through one cell  *)
(* of the build to the DROP of the recommender: every cell writes the same *)
(* lengths apart from its values and its gettimeofday() reading, which are *)
(* chosen at the start from all the lengths explored.                      *)
(***************************************************************************)
EXTENDS Naturals

CONSTANTS NameLens,   \* lengths of identifiers explored (1..NAMEDATALEN-1)
          ColLens,    \* lengths of context attribute names
          ValLens,    \* lengths of context values
          MaxAtts,    \* bound on the number of context attributes
          Sec0,       \* tv_sec of the cell's reading
          Usecs,      \* tv_usec of the cell's reading
          Ratings     \* numRatings the backend returns for the cell

VARIABLES rel,        \* strlen(recStmt->relation->relname)
          ident,      \* length of the other identifiers of the statement
          col,        \* length of each context attribute name
          val,        \* length of each context value of the cell
          numatts,    \* number of context attributes
          family,     \* "cf" (item or user CF) or "svd"
          usec,       \* timestamp.tv_usec
          numRatings, \* the backend's result for the cell
          pc,         \* the next block of statements
          i,          \* loop counter over the context attributes
          q,          \* strlen of the query being assembled
          over        \* the writes (by source line) that ran past their buffer

inputs == <<rel, ident, col, val, numatts, family, usec, numRatings>>
vars   == <<inputs, pc, i, q, over>>

\* Characters "%ld" or "%d" prints for a non-negative number.
RECURSIVE DecLen(_)
DecLen(n) == IF n < 10 THEN 1 ELSE 1 + DecLen(n \div 10)

\* A write of need bytes (NUL included) into a buffer of cap bytes, at line site.
W(site, need, cap) == [site |-> site, need |-> need, cap |-> cap]

\* Issuing the writes ws: those needing more than their buffer overrun it.
Emit(ws) == over' = over \cup {w.site : w \in {x \in ws : x.need > x.cap}}

Stamp        == DecLen(Sec0) + DecLen(usec)     \* "%ld%ld"
IndexName    == rel + 5                         \* "%sIndex"
ModelName    == rel + 5 + Stamp                 \* "%sModel%ld%ld"
SvdModelName == rel + 9 + Stamp                 \* "%sUserModel%ld%ld", "%sItemModel%ld%ld"
ViewName     == rel + 4 + Stamp                 \* "%sView%ld%ld"

\* The names of the cell's model tables.
ModelNames == IF family = "svd" THEN <<SvdModelName, SvdModelName>> ELSE <<ModelName>>

Init ==
    /\ rel \in NameLens
    /\ ident \in NameLens
    /\ col \in ColLens
    /\ val \in ValLens
    /\ numatts \in 0..MaxAtts
    /\ family \in {"cf", "svd"}
    /\ usec \in Usecs
    /\ numRatings \in Ratings
    /\ pc = "catalogue"
    /\ i = 0
    /\ q = 0
    /\ over = {}

Step(from, to) == pc = from /\ pc' = to

\* CREATE TABLE IF NOT EXISTS RecModelsCatalogue (512 bytes), then the
\* catalogue row (1024): '%sIndex', six table and key names, the method
\* name and numatts.
EnsureCatalogue ==
    /\ Step("catalogue", "properties")
    /\ Emit({W("1339", 364 + 1, 512),
             W("1345", 78 + rel + 7 * ident + DecLen(numatts) + 1, 1024)})
    /\ UNCHANGED <<inputs, i, q>>

\* When relationExists finds no RecathonProperties: CREATE TABLE (256)
\* and the row of defaults (64).
EnsureProperties ==
    /\ Step("properties", "indexTable")
    /\ \E exists \in BOOLEAN :
          Emit(IF exists THEN {} ELSE {W("1360", 129 + 1, 256), W("1366", 53 + 1, 64)})
    /\ UNCHANGED <<inputs, i, q>>

\* sprintf of CREATE TABLE %sIndex (... ) up to the context columns.
IndexTableStart ==
    /\ Step("indexTable", "indexColumn")
    /\ LET len == (IF family = "svd" THEN 342 ELSE 303) + rel
       IN  /\ q' = len
           /\ Emit({W("1377", len + 1, 1024)})
    /\ i' = 1
    /\ UNCHANGED inputs

\* One context column: sprintf into char addition[64], strncat onto the query.
IndexColumn ==
    /\ pc = "indexColumn"
    /\ i <= numatts
    /\ Emit({W("1386", 19 + col + 1, 64), W("1387", q + 19 + col + 1, 1024)})
    /\ q' = q + 19 + col
    /\ i' = i + 1
    /\ UNCHANGED <<inputs, pc>>

\* strncat(querystring, ");", 2); a build with context then assembles its
\* SELECT DISTINCT, a context-free one goes straight to its cell.
IndexTableEnd ==
    /\ pc = "indexColumn"
    /\ i > numatts
    /\ Emit({W("1389", q + 2 + 1, 1024)})
    /\ pc' = IF numatts > 0 THEN "attQuery" ELSE "cellNames"
    /\ UNCHANGED <<inputs, i, q>>

\* sprintf(attquerystring, "SELECT DISTINCT ") into 1024 bytes.
AttQueryStart ==
    /\ Step("attQuery", "attColumn")
    /\ Emit({W("168", 16 + 1, 1024)})
    /\ q' = 16
    /\ i' = 1
    /\ UNCHANGED inputs

\* attnames[i] (256 bytes) gets the column name; the query gets the name
\* and, unless it is the last, ", ".
AttColumn ==
    /\ pc = "attColumn"
    /\ i <= numatts
    /\ LET add == col + (IF i < numatts THEN 2 ELSE 0)
       IN  /\ Emit({W("159", col + 1, 256), W("170", q + add + 1, 1024)})
           /\ q' = q + add
    /\ i' = i + 1
    /\ UNCHANGED <<inputs, pc>>

\* " FROM ", the user table's name and ";".
AttQueryEnd ==
    /\ pc = "attColumn"
    /\ i > numatts
    /\ Emit({W("175", q + 6 + ident + 1 + 1, 1024)})
    /\ pc' = "cellNames"
    /\ UNCHANGED <<inputs, i, q>>

\* palloc((6 + strlen(relname))) for "%sIndex".
IndexNameBuffer == 6 + rel

\* recindexname, then after gettimeofday() the model name(s) in 256 bytes.
CellNames ==
    /\ Step("cellNames", "cellTables")
    /\ Emit({W("194", IndexName + 1, IndexNameBuffer)}
            \cup {W("211", ModelNames[k] + 1, 256) : k \in DOMAIN ModelNames})
    /\ UNCHANGED <<inputs, i, q>>

\* CREATE TABLE of the model table(s) and of the view, and the view's seed
\* row, each into a fresh 1024-byte querystring.
CellTables ==
    /\ Step("cellTables", "indexRow")
    /\ Emit({W("215", (IF family = "svd" THEN 86 ELSE 89) + ModelNames[k] + 1, 1024)
                : k \in DOMAIN ModelNames}
            \cup {W("222", 99 + rel + Stamp + 4 * ident + 1, 1024),
                  W("230", 34 + rel + Stamp + 1, 1024)})
    /\ UNCHANGED <<inputs, i, q>>

\* sprintf of the index row up to its context values: the index, model and
\* view names, the reading and numRatings.  Context-free, the format closes
\* the row itself (329, 784).
IndexRowStart ==
    /\ Step("indexRow", "indexValue")
    /\ LET fixed == IF family = "svd" THEN 78 ELSE 74
           close == IF numatts = 0 THEN 2 ELSE 0
           len   == fixed + close + IndexName + ModelNames[1]
                      + (IF family = "svd" THEN ModelNames[2] ELSE 0)
                      + rel + Stamp + DecLen(numRatings)
       IN  /\ q' = len
           /\ Emit({W("249", len + 1, 1024)})
    /\ i' = 1
    /\ UNCHANGED inputs

\* One value: sprintf(addition, ", '%s'") into char addition[256], then strncat.
IndexValue ==
    /\ pc = "indexValue"
    /\ i <= numatts
    /\ Emit({W("255", 4 + val + 1, 256), W("256", q + 4 + val + 1, 1024)})
    /\ q' = q + 4 + val
    /\ i' = i + 1
    /\ UNCHANGED <<inputs, pc>>

\* strncat(querystring, ");", 2) when the row has context values.
IndexRowEnd ==
    /\ pc = "indexValue"
    /\ i > numatts
    /\ Emit(IF numatts > 0 THEN {W("258", q + 2 + 1, 1024)} ELSE {})
    /\ pc' = "drop"
    /\ UNCHANGED <<inputs, i, q>>

\* DROP RECOMMENDER: recindexname (strlen + 6), select * from %sindex
\* (1024), drop table of each cell table (512), drop table %sindex and the
\* catalogue delete (512).  The cell names are read back from the index
\* rows, where they are stored as composed, not truncated.
DropRecommender ==
    /\ Step("drop", "done")
    /\ Emit({W("1463", rel + 5 + 1, rel + 6), W("1472", 20 + rel + 1, 1024),
             W("1538", 12 + ViewName + 1, 512),
             W("1551", 17 + rel + 1, 512), W("1555", 68 + rel + 1, 512)}
            \cup {W("1526", 12 + ModelNames[k] + 1, 512) : k \in DOMAIN ModelNames})
    /\ UNCHANGED <<inputs, i, q>>

Next ==
    \/ EnsureCatalogue \/ EnsureProperties
    \/ IndexTableStart \/ IndexColumn \/ IndexTableEnd
    \/ AttQueryStart \/ AttColumn \/ AttQueryEnd
    \/ CellNames \/ CellTables
    \/ IndexRowStart \/ IndexValue \/ IndexRowEnd
    \/ DropRecommender

Spec == Init /\ [][Next]_vars

\* The writes whose length depends on the context attributes or values; the
\* others depend only on identifiers, the clock and numRatings.
AttributeSites == {"159", "170", "175", "1386", "1387", "1389", "255", "256", "258"}

(* The writes over the context attributes stay within their buffers: the   *)
(* ", %s VARCHAR NOT NULL" of each column in char addition[64], each       *)
(* ", '%s'" value in char addition[256], and the growing CREATE TABLE      *)
(* %sIndex, SELECT DISTINCT and index-row queries in their 1024 bytes.     *)
AttributeBuffersFit == over \cap AttributeSites = {}
====
