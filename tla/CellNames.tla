------------------------------ MODULE CellNames ------------------------------
(***************************************************************************)
(* The names CREATE RECOMMENDER gives the tables of its cells.  Each cell   *)
(* reads gettimeofday() and names its tables                                *)
(*     <relname>Model<tv_sec><tv_usec>          (item and user CF)          *)
(*     <relname>UserModel.., <relname>ItemModel..  (SVD)                    *)
(*     <relname>View<tv_sec><tv_usec>                                       *)
(* with "%ld%ld": both numbers in decimal, tv_usec without zero padding.   *)
(* The names reach the engine inside CREATE TABLE text, where an           *)
(* identifier longer than NAMEDATALEN-1 bytes is truncated.                 *)
(*                                                                          *)
(* A name is a sequence of characters; the recommender name is abstracted  *)
(* to its length, since every table of one recommender starts with it.     *)
(***************************************************************************)
EXTENDS Naturals, Sequences

CONSTANTS NameLens,     \* lengths of recommender names explored (1..63)
          Sec0,         \* tv_sec of the first reading
          StartUsecs,   \* tv_usec of the first reading
          Steps,        \* microseconds between the readings of two cells
          MaxCells,     \* bound on the cells of one build
          NAMEDATALEN   \* 64 in a stock build

ASSUME /\ NameLens \subseteq 1..(NAMEDATALEN - 1)
       /\ StartUsecs \subseteq 0..999999 /\ Steps \subseteq 1..2000000

VARIABLES len,        \* length of the recommender's name
          family,     \* "cf" (one model table) or "svd" (two)
          sec, usec,  \* the last gettimeofday() reading
          tables,     \* names of the tables the build has created
          cells,      \* cells built so far
          collided    \* a CREATE TABLE named an existing table

vars == <<len, family, sec, usec, tables, cells, collided>>

\* Decimal rendering of a non-negative number, as "%ld" prints it.
RECURSIVE Digits(_)
Digits(n) ==
    LET d == <<"0", "1", "2", "3", "4", "5", "6", "7", "8", "9">>[(n % 10) + 1]
    IN  IF n < 10 THEN <<d>> ELSE Digits(n \div 10) \o <<d>>

\* Mutant: the suffix carries only tv_sec.
SuffixSecondsOnly(s, u) == Digits(s)

\* "%ld%ld" of tv_sec and tv_usec.
Suffix(s, u) == Digits(s) \o Digits(u)

RelName(n) == [i \in 1..n |-> "r"]

\* The engine truncates an identifier to NAMEDATALEN-1 characters.
Identifier(name) ==
    IF Len(name) > NAMEDATALEN - 1 THEN SubSeq(name, 1, NAMEDATALEN - 1) ELSE name

IndexName(n) == Identifier(RelName(n) \o <<"I", "n", "d", "e", "x">>)

\* The tables of one cell, in the order they are created.
CellTables(n, fam, s, u) ==
    LET model == <<"M", "o", "d", "e", "l">>
        user  == <<"U", "s", "e", "r">> \o model
        item  == <<"I", "t", "e", "m">> \o model
        view  == <<"V", "i", "e", "w">>
        Named(kind) == Identifier(RelName(n) \o kind \o Suffix(s, u))
    IN  IF fam = "svd" THEN <<Named(user), Named(item), Named(view)>>
                       ELSE <<Named(model), Named(view)>>

Init ==
    /\ len \in NameLens
    /\ family \in {"cf", "svd"}
    /\ sec = Sec0
    /\ usec \in StartUsecs
    /\ tables = {IndexName(len)}
    /\ cells = 0
    /\ collided = FALSE

\* The next row of the cursor: gettimeofday(), then CREATE TABLE of each of
\* the cell's tables; the first one whose name exists fails the build.
BuildCell ==
    /\ ~collided
    /\ cells < MaxCells
    /\ \E d \in Steps :
          LET t     == usec + d
              s2    == sec + t \div 1000000
              u2    == t % 1000000
              names == CellTables(len, family, s2, u2)
              clash == \E i \in 1..Len(names) :
                          \/ names[i] \in tables
                          \/ \E j \in 1..(i - 1) : names[j] = names[i]
          IN  /\ sec' = s2
              /\ usec' = u2
              /\ collided' = clash
              /\ tables' = IF clash THEN tables
                           ELSE tables \cup {names[i] : i \in 1..Len(names)}
              /\ cells' = cells + 1
    /\ UNCHANGED <<len, family>>

Next == BuildCell

Spec == Init /\ [][Next]_vars

(* Naming uniqueness (design document, section 8): every table a build     *)
(* creates has a name no earlier table of the build has, so no CREATE      *)
(* TABLE of a cell fails with "relation already exists", for readings that *)
(* strictly increase.  Breaks when the suffix stops telling two readings   *)
(* apart, as truncation to NAMEDATALEN-1 does for long recommender names.  *)
CellNamesDistinct == ~collided
====
