------------------------------ MODULE Recathon ------------------------------
(***************************************************************************)
(* CREATE RECOMMENDER and DROP RECOMMENDER of Recathon, as run by           *)
(* standard_ProcessUtility (src/PostgreSQL/src/backend/tcop/utility.c).     *)
(*                                                                          *)
(* A request is a sequence of SQL statements issued one after another       *)
(* (recathon_utilityExecute / recathon_queryExecute); every statement is    *)
(* one step, and every step may fail.  A failure raised by ereport(ERROR)   *)
(* either rolls the whole request back (Atomic: the transaction of the      *)
(* top-level statement aborts) or leaves the statements already issued in   *)
(* place (not Atomic: the behaviour the design document describes).        *)
(*                                                                          *)
(* The database is the record db: the RecModelsCatalogue table and its      *)
(* rows, the RecathonProperties table and its rows, the set of existing     *)
(* recommender tables (index, model and view tables), the rows of every     *)
(* index table, and the views holding the placeholder row.  committed is    *)
(* db as of the end of the last request.                                    *)
(***************************************************************************)
EXTENDS Naturals, Sequences, SequencesExt, FiniteSets

CONSTANTS Recs,           \* recommender names (relname of the statement)
          Methods,        \* recommendation methods a statement may name
          Combos,         \* distinct values of the context attributes in the user table
          NoCtx,          \* the cell of a context-free recommender
          NoTable,        \* a NULL model-name column
          NoReq,          \* no request in progress
          NoRec,          \* "no such recommender" in the abstract specification
          MaxClock,       \* bound on gettimeofday() readings explored
          MaxFaults,      \* bound on injected statement failures
          Atomic,         \* does an ERROR roll back the statements already issued?
          ClockMayRepeat, \* may two gettimeofday() readings be equal?
          Blocks,         \* does the session issue BEGIN/COMMIT/ROLLBACK/SAVEPOINT?
          MaxSavepoints   \* bound on the savepoints of one transaction block

\* The method strings recStmt->method carries: the parser folds the unquoted
\* method name of CREATE RECOMMENDER ... USING to lower case.
AllMethods == {"itemcoscf", "itempearcf", "usercoscf", "userpearcf", "svd"}

ASSUME /\ Methods \subseteq AllMethods
       /\ NoCtx \notin Combos
       /\ MaxClock \in Nat /\ MaxFaults \in Nat
       /\ Atomic \in BOOLEAN /\ ClockMayRepeat \in BOOLEAN
       /\ Blocks \in BOOLEAN /\ MaxSavepoints \in Nat

VARIABLES db,         \* the database
          committed,  \* the database as of the last request boundary
          pc,         \* the statement the current request issues next
          req,        \* the request in progress: op, rec, method, context
          cells,      \* context combinations the SELECT DISTINCT cursor has not returned
          cell,       \* the cell being built: its combination and timestamp
          todrop,     \* DROP RECOMMENDER: the cell tables still to drop, in order
          clock,      \* the last gettimeofday() reading
          faults,     \* injected failures so far
          outcome,    \* result of the last finished request
          block,      \* transaction block: "none", "inprogress" or "aborted"
          readOnly,   \* the block was begun READ ONLY
          saved       \* each savepoint of the block, oldest first: the database
                      \* and transaction_read_only as of SAVEPOINT

xact == <<block, readOnly, saved>>

\* transaction_read_only: set by BEGIN READ ONLY for the block; the
\* session's default is read-write.
XactReadOnly == block # "none" /\ readOnly

vars == <<db, committed, pc, req, cells, cell, todrop, clock, faults, outcome, xact>>

-----------------------------------------------------------------------------
(* Families of methods: the switch on the recMethod that                  *)
(* validateCreateRStmt derives from the method string.                    *)
Family(m) == CASE m \in {"itemcoscf", "itempearcf"} -> "item"
               [] m \in {"usercoscf", "userpearcf"} -> "user"
               [] m = "svd"                         -> "svd"

(* Table names.  "%sIndex" is per recommender; every cell's tables carry  *)
(* the "%ld%ld" rendering of the gettimeofday() reading t.               *)
IndexTable(r)      == <<"index", r, 0>>
RecModel(r, t)     == <<"model", r, t>>
RecUserModel(r, t) == <<"usermodel", r, t>>
RecItemModel(r, t) == <<"itemmodel", r, t>>
RecView(r, t)      == <<"view", r, t>>

CellKinds == {"model", "usermodel", "itemmodel", "view"}

(* The model-name columns of a cell: one for CF, two for SVD.            *)
ModelNames(m, r, t) ==
    IF Family(m) = "svd" THEN <<RecUserModel(r, t), RecItemModel(r, t)>>
                         ELSE <<RecModel(r, t), NoTable>>

(* The SELECT DISTINCT over the context attributes of the user table, or  *)
(* the one context-free cell.                                             *)
Partition(context) == IF context THEN Combos ELSE {NoCtx}

EmptyDb == [catalogue  |-> FALSE, catRows |-> <<>>,
            properties |-> FALSE, propRows |-> 0,
            tables     |-> {},
            index      |-> [r \in Recs |-> <<>>],
            seeded     |-> {}]

(* recommenderExists: a RecModelsCatalogue row names r.                   *)
Catalogued(d, r) ==
    d.catalogue /\ \E i \in 1..Len(d.catRows) : d.catRows[i].rec = r

(* getRecInfo: the method column of r's RecModelsCatalogue row.           *)
RecMethod(d, r) ==
    LET i == CHOOSE i \in 1..Len(d.catRows) : d.catRows[i].rec = r
    IN  d.catRows[i].method

(* Mutant: the cell_node is filled as for CF whatever the method.       *)
CellNodeIgnoringMethod(row, m) ==
    [m1 |-> row.m1, m2 |-> NoTable, view |-> row.view]

(* The cell_node DROP RECOMMENDER builds from an index row: which columns *)
(* it reads depends on strcmp of the method string getRecInfo returned    *)
(* with "svd", case-sensitive, not on the family.                          *)
CellNode(row, m) ==
    IF m = "svd" THEN [m1 |-> row.m1, m2 |-> row.m2, view |-> row.view]
                         ELSE [m1 |-> row.m1, m2 |-> NoTable, view |-> row.view]

(* Mutant: modelname2 is dropped without the NULL test.                 *)
DropListNoNullCheck(node) == <<node.m1, node.m2, node.view>>

(* The "drop table" statements issued for one cell_node, in order.        *)
DropList(node) ==
    <<node.m1>> \o (IF node.m2 # NoTable THEN <<node.m2>> ELSE <<>>) \o <<node.view>>

NoCell == [ctx |-> NoCtx, t |-> 0]

-----------------------------------------------------------------------------
Init ==
    /\ db = EmptyDb
    /\ committed = EmptyDb
    /\ pc = "idle"
    /\ req = NoReq
    /\ cells = {}
    /\ cell = NoCell
    /\ todrop = <<>>
    /\ clock = 0
    /\ faults = 0
    /\ outcome = "none"
    /\ block = "none"
    /\ readOnly = FALSE
    /\ saved = <<>>

(* The request finishes.  Outside a transaction block its statements are *)
(* committed; inside one they wait for COMMIT.                            *)
Finish ==
    /\ pc' = "idle"
    /\ req' = NoReq
    /\ cell' = NoCell
    /\ committed' = IF block = "none" THEN db' ELSE committed
    /\ outcome' = "ok"
    /\ UNCHANGED xact

(* ereport(ERROR): the request ends.  Not Atomic: the statements already  *)
(* issued stay.  Atomic, outside a block: the transaction of the statement *)
(* aborts and its statements are undone.  Atomic, inside a block: the     *)
(* block becomes aborted, and only ROLLBACK, ROLLBACK TO SAVEPOINT or      *)
(* COMMIT (which then rolls back) end it.                                   *)
Abort ==
    /\ \/ /\ ~Atomic \/ block = "none"
          /\ db' = IF Atomic THEN committed ELSE db
          /\ committed' = db'
          /\ UNCHANGED block
       \/ /\ Atomic /\ block # "none"
          /\ block' = "aborted"
          /\ UNCHANGED <<db, committed>>
    /\ pc' = "idle"
    /\ req' = NoReq
    /\ cells' = {}
    /\ cell' = NoCell
    /\ todrop' = <<>>
    /\ outcome' = "error"
    /\ UNCHANGED <<readOnly, saved>>

(* CREATE TABLE name: fails if a relation of that name exists.            *)
CreateTable(n, next) ==
    \/ /\ n \in db.tables
       /\ Abort
       /\ UNCHANGED <<clock, faults>>
    \/ /\ n \notin db.tables
       /\ db' = [db EXCEPT !.tables = @ \cup {n}]
       /\ pc' = next
       /\ UNCHANGED <<committed, req, cells, cell, todrop, clock, faults, outcome, xact>>

(* A request that is refused by ereport(ERROR) before it issues any        *)
(* statement: nothing to undo, but inside a block the block is aborted.    *)
Refuse ==
    /\ outcome' = "error"
    /\ block' = IF Atomic /\ block # "none" THEN "aborted" ELSE block
    /\ UNCHANGED <<db, committed, pc, req, cells, cell, todrop, clock, faults, readOnly, saved>>

-----------------------------------------------------------------------------
(***************************************************************************)
(* Both statements are refused in a read-only transaction                   *)
(* (check_xact_readonly lists T_CreateRStmt and T_DropRecStmt).             *)
(***************************************************************************)
ReadOnlyRejected ==
    /\ pc = "idle"
    /\ block # "aborted"
    /\ XactReadOnly
    /\ Refuse

\* In an aborted block every statement but COMMIT, ROLLBACK and ROLLBACK TO
\* is refused: "current transaction is aborted".
AbortedBlockRejected ==
    /\ pc = "idle"
    /\ block = "aborted"
    /\ Refuse

(***************************************************************************)
(* CREATE RECOMMENDER (case T_CreateRStmt, then itemSimilarity,             *)
(* userSimilarity or SVDSimilarity).                                        *)
(***************************************************************************)

\* validateCreateRStmt refuses a recommender that already exists.
BuildRejected(r) ==
    /\ pc = "idle"
    /\ block # "aborted" /\ ~XactReadOnly
    /\ Catalogued(db, r)
    /\ Refuse

\* Mutant: CREATE RECOMMENDER is missing from check_xact_readonly.
BuildStartIgnoringReadOnly(r, m, context) ==
    /\ pc = "idle"
    /\ block # "aborted"
    /\ ~Catalogued(db, r)
    /\ req' = [op |-> "build", rec |-> r, method |-> m, context |-> context]
    /\ pc' = "createCatalogue"
    /\ UNCHANGED <<db, committed, cells, cell, todrop, clock, faults, outcome, xact>>

BuildStart(r, m, context) ==
    /\ pc = "idle"
    /\ block # "aborted" /\ ~XactReadOnly
    /\ ~Catalogued(db, r)
    /\ req' = [op |-> "build", rec |-> r, method |-> m, context |-> context]
    /\ pc' = "createCatalogue"
    /\ UNCHANGED <<db, committed, cells, cell, todrop, clock, faults, outcome, xact>>

\* CREATE TABLE IF NOT EXISTS RecModelsCatalogue
CreateCatalogue ==
    /\ pc = "createCatalogue"
    /\ db' = [db EXCEPT !.catalogue = TRUE]
    /\ pc' = "insertCatRow"
    /\ UNCHANGED <<committed, req, cells, cell, todrop, clock, faults, outcome, xact>>

\* INSERT INTO RecModelsCatalogue VALUES (default, '%sIndex', ...)
InsertCatRow ==
    /\ pc = "insertCatRow"
    /\ db' = [db EXCEPT !.catRows = Append(@, [rec     |-> req.rec,
                                               method  |-> req.method,
                                               context |-> req.context])]
    /\ pc' = "checkProperties"
    /\ UNCHANGED <<committed, req, cells, cell, todrop, clock, faults, outcome, xact>>

\* Mutant: the properties table is created if missing and the defaults
\* inserted on every CREATE RECOMMENDER.
CheckPropertiesUnconditional ==
    /\ pc = "checkProperties"
    /\ db' = [db EXCEPT !.properties = TRUE]
    /\ pc' = "insertProperties"
    /\ UNCHANGED <<committed, req, cells, cell, todrop, clock, faults, outcome, xact>>

\* if (!relationExists("recathonproperties")) CREATE TABLE RecathonProperties
CheckProperties ==
    /\ pc = "checkProperties"
    /\ \/ /\ db.properties
          /\ pc' = "createIndex"
          /\ UNCHANGED db
       \/ /\ ~db.properties
          /\ db' = [db EXCEPT !.properties = TRUE]
          /\ pc' = "insertProperties"
    /\ UNCHANGED <<committed, req, cells, cell, todrop, clock, faults, outcome, xact>>

\* INSERT INTO RecathonProperties VALUES (0.5, 0, true)
InsertProperties ==
    /\ pc = "insertProperties"
    /\ db' = [db EXCEPT !.propRows = @ + 1]
    /\ pc' = "createIndex"
    /\ UNCHANGED <<committed, req, cells, cell, todrop, clock, faults, outcome, xact>>

\* CREATE TABLE %sIndex (...)
CreateIndex ==
    /\ pc = "createIndex"
    /\ CreateTable(IndexTable(req.rec), "openCursor")

\* vector_lengths / pearson_info over the whole rating table (CF only),
\* then recathon_queryStart of the SELECT DISTINCT over the context
\* attributes; a context-free recommender gets its one cell.
OpenCursor ==
    /\ pc = "openCursor"
    /\ cells' = Partition(req.context)
    /\ pc' = "fetch"
    /\ UNCHANGED <<db, committed, req, cell, todrop, clock, faults, outcome, xact>>

\* ExecProcNode returns the next combination; gettimeofday() names its cell.
FetchCell ==
    /\ pc = "fetch"
    /\ cells # {}
    /\ \E c \in cells, t \in IF ClockMayRepeat THEN {clock, clock + 1}
                                               ELSE {clock + 1} :
          /\ cells' = cells \ {c}
          /\ cell' = [ctx |-> c, t |-> t]
          /\ clock' = t
    /\ pc' = "createModel"
    /\ UNCHANGED <<db, committed, req, todrop, faults, outcome, xact>>

\* The cursor is exhausted: recathon_queryEnd, and the statement completes.
FinishBuild ==
    /\ pc = "fetch"
    /\ cells = {}
    /\ UNCHANGED <<db, cells, todrop, clock, faults>>
    /\ Finish

\* CREATE TABLE %sModel%ld%ld (item1, item2, similarity), or user1/user2,
\* or for SVD the first of the two factor tables %sUserModel%ld%ld.
CreateRecModel ==
    /\ pc = "createModel"
    /\ CreateTable(ModelNames(req.method, req.rec, cell.t)[1],
                   IF Family(req.method) = "svd" THEN "createItemModel"
                                                 ELSE "createView")

\* SVD: CREATE TABLE %sItemModel%ld%ld (items, feature, value)
CreateRecItemModel ==
    /\ pc = "createItemModel"
    /\ CreateTable(ModelNames(req.method, req.rec, cell.t)[2], "createView")

\* CREATE TABLE %sView%ld%ld (userkey, itemkey, recscore)
CreateRecView ==
    /\ pc = "createView"
    /\ CreateTable(RecView(req.rec, cell.t), "seedView")

\* INSERT INTO %sView%ld%ld VALUES(-1,-1,-1)
SeedView ==
    /\ pc = "seedView"
    /\ db' = [db EXCEPT !.seeded = @ \cup {RecView(req.rec, cell.t)}]
    /\ pc' = "populate"
    /\ UNCHANGED <<committed, req, cells, cell, todrop, clock, faults, outcome, xact>>

\* updateItemCosModel / ... / SVDsimilarity fill the model table(s) of the
\* cell, then INSERT INTO %sIndex VALUES (default, models, view, 0,
\* numRatings, 0, 0.0, 0.0, localtimestamp, attribute values).
PopulateModel ==
    /\ pc = "populate"
    /\ LET names == ModelNames(req.method, req.rec, cell.t)
           row   == [m1 |-> names[1], m2 |-> names[2],
                     view |-> RecView(req.rec, cell.t), ctx |-> cell.ctx]
       IN  db' = [db EXCEPT !.index[req.rec] = Append(@, row)]
    /\ pc' = "fetch"
    /\ UNCHANGED <<committed, req, cells, cell, todrop, clock, faults, outcome, xact>>

(***************************************************************************)
(* DROP RECOMMENDER (case T_DropRecStmt).                                   *)
(***************************************************************************)

\* "no recommenders have been created" / "recommender %s does not exist"
DropRejected(r) ==
    /\ pc = "idle"
    /\ block # "aborted" /\ ~XactReadOnly
    /\ ~Catalogued(db, r)
    /\ Refuse

\* The name is folded to lower case, found in RecModelsCatalogue, and
\* getRecInfo returns its method.
DropStart(r) ==
    /\ pc = "idle"
    /\ block # "aborted" /\ ~XactReadOnly
    /\ Catalogued(db, r)
    /\ req' = [op |-> "drop", rec |-> r, method |-> RecMethod(db, r), context |-> FALSE]
    /\ pc' = "scanIndex"
    /\ UNCHANGED <<db, committed, cells, cell, todrop, clock, faults, outcome, xact>>

\* select * from %sindex: every row becomes a cell_node; no rows is only a
\* WARNING.  The select fails if the index table does not exist.
ScanIndex ==
    /\ pc = "scanIndex"
    /\ LET idx  == IndexTable(req.rec)
           rows == db.index[req.rec]
       IN  \/ /\ idx \notin db.tables
              /\ Abort
              /\ UNCHANGED <<clock, faults>>
           \/ /\ idx \in db.tables
              /\ todrop' = FlattenSeq([i \in 1..Len(rows) |->
                                         DropList(CellNode(rows[i], req.method))])
              /\ pc' = "dropCells"
              /\ UNCHANGED <<db, committed, req, cells, cell, clock, faults, outcome, xact>>

\* drop table %s for the next model or view table of the list; a plain
\* DROP TABLE fails if the table does not exist.
DropCellTable ==
    /\ pc = "dropCells"
    /\ todrop # <<>>
    /\ LET n == Head(todrop) IN
          \/ /\ n \notin db.tables
             /\ Abort
             /\ UNCHANGED <<clock, faults>>
          \/ /\ n \in db.tables
             /\ db' = [db EXCEPT !.tables = @ \ {n}, !.seeded = @ \ {n}]
             /\ todrop' = Tail(todrop)
             /\ UNCHANGED <<committed, pc, req, cells, cell, clock, faults, outcome, xact>>

\* Mutant: the index table is not dropped.
DropIndexTableOmitted ==
    /\ pc = "dropCells"
    /\ todrop = <<>>
    /\ pc' = "deleteCatRow"
    /\ UNCHANGED <<db, committed, req, cells, cell, todrop, clock, faults, outcome, xact>>

\* drop table %sindex (the scan of this request has just read it, so only
\* an injected failure can stop it).
DropIndexTable ==
    /\ pc = "dropCells"
    /\ todrop = <<>>
    /\ db' = [db EXCEPT !.tables = @ \ {IndexTable(req.rec)},
                        !.index[req.rec] = <<>>]
    /\ pc' = "deleteCatRow"
    /\ UNCHANGED <<committed, req, cells, cell, todrop, clock, faults, outcome, xact>>

\* delete from recmodelscatalogue where recommenderindexname = '%sIndex'
DeleteCatRow ==
    /\ pc = "deleteCatRow"
    /\ db' = [db EXCEPT !.catRows = SelectSeq(@, LAMBDA row : row.rec # req.rec)]
    /\ Finish
    /\ UNCHANGED <<cells, todrop, clock, faults>>

(***************************************************************************)
(* Any statement of a request may fail: the engine or the modelling         *)
(* backend raises ERROR, or the statement is cancelled.                     *)
(***************************************************************************)
Fault ==
    /\ pc # "idle"
    /\ faults < MaxFaults
    /\ faults' = faults + 1
    /\ Abort
    /\ UNCHANGED clock

-----------------------------------------------------------------------------
(***************************************************************************)
(* Transaction control (case T_TransactionStmt), in a session that runs    *)
(* the recommender statements inside explicit blocks.  Only meaningful     *)
(* under Atomic.  A savepoint is named by its position in the stack: a     *)
(* name resolves to the newest savepoint of that name, so every position  *)
(* is some name's target.                                                  *)
(***************************************************************************)
TxnControl ==
    /\ Atomic /\ Blocks
    /\ pc = "idle"
    /\ UNCHANGED <<pc, req, cells, cell, todrop, clock, faults>>

\* A transaction statement raises ERROR: outside a block there is nothing
\* to undo; inside one the block becomes aborted.
TxnError ==
    /\ outcome' = "error"
    /\ block' = IF block = "none" THEN "none" ELSE "aborted"
    /\ UNCHANGED <<db, committed, readOnly, saved>>

\* BEGIN / START TRANSACTION [READ ONLY]: BeginTransactionBlock (only a
\* WARNING inside a block), then SET transaction_read_only for the option;
\* a block can always be made read-only, never read-write again.
BeginBlock(ro) ==
    /\ TxnControl
    /\ block # "aborted"
    /\ block' = "inprogress"
    /\ readOnly' = ((block = "inprogress" /\ readOnly) \/ ro)
    /\ outcome' = "ok"
    /\ UNCHANGED <<db, committed, saved>>

\* Mutant: COMMIT of an aborted block commits it.
CommitBlockIgnoringAbort ==
    /\ TxnControl
    /\ committed' = db
    /\ outcome' = "ok"
    /\ block' = "none" /\ readOnly' = FALSE /\ saved' = <<>>
    /\ UNCHANGED db

\* COMMIT: EndTransactionBlock commits, or in an aborted block rolls back
\* and reports "ROLLBACK"; outside a block only a WARNING.
CommitBlock ==
    /\ TxnControl
    /\ \/ /\ block = "inprogress"
          /\ committed' = db
          /\ outcome' = "ok"
          /\ UNCHANGED db
       \/ /\ block = "aborted"
          /\ db' = committed
          /\ outcome' = "rollback"
          /\ UNCHANGED committed
       \/ /\ block = "none"
          /\ outcome' = "ok"
          /\ UNCHANGED <<db, committed>>
    /\ block' = "none" /\ readOnly' = FALSE /\ saved' = <<>>

\* ROLLBACK: UserAbortTransactionBlock.
RollbackBlock ==
    /\ TxnControl
    /\ db' = committed
    /\ outcome' = "ok"
    /\ block' = "none" /\ readOnly' = FALSE /\ saved' = <<>>
    /\ UNCHANGED committed

\* SAVEPOINT: RequireTransactionChain, then DefineSavepoint.
DefineSavepoint ==
    /\ TxnControl
    /\ block # "aborted"
    /\ \/ /\ block = "none"
          /\ TxnError
       \/ /\ block = "inprogress"
          /\ Len(saved) < MaxSavepoints
          /\ saved' = Append(saved, [db |-> db, ro |-> readOnly])
          /\ outcome' = "ok"
          /\ UNCHANGED <<db, committed, block, readOnly>>

\* RELEASE SAVEPOINT: commits the subtransactions from savepoint i on into
\* the block; "no such savepoint" is an ERROR.
ReleaseSavepoint(i) ==
    /\ TxnControl
    /\ block # "aborted"
    /\ \/ /\ block = "none" \/ i > Len(saved)
          /\ TxnError
       \/ /\ block = "inprogress" /\ i <= Len(saved)
          /\ saved' = SubSeq(saved, 1, i - 1)
          /\ outcome' = "ok"
          /\ UNCHANGED <<db, committed, block, readOnly>>

\* Mutant: ROLLBACK TO leaves the changes made since the savepoint.
RollbackToSavepointKeepingChanges(i) ==
    /\ TxnControl
    /\ block # "none" /\ i <= Len(saved)
    /\ readOnly' = saved[i].ro
    /\ saved' = SubSeq(saved, 1, i)
    /\ block' = "inprogress"
    /\ outcome' = "ok"
    /\ UNCHANGED <<db, committed>>

\* ROLLBACK TO SAVEPOINT: undoes everything since savepoint i, restores
\* transaction_read_only as of it, leaves the savepoint defined, and
\* leaves an aborted block in progress again.
RollbackToSavepoint(i) ==
    /\ TxnControl
    /\ \/ /\ block = "none" \/ i > Len(saved)
          /\ TxnError
       \/ /\ block # "none" /\ i <= Len(saved)
          /\ db' = saved[i].db
          /\ readOnly' = saved[i].ro
          /\ saved' = SubSeq(saved, 1, i)
          /\ block' = "inprogress"
          /\ outcome' = "ok"
          /\ UNCHANGED committed

-----------------------------------------------------------------------------
Next ==
    \/ ReadOnlyRejected \/ AbortedBlockRejected
    \/ \E r \in Recs : BuildRejected(r) \/ DropRejected(r) \/ DropStart(r)
    \/ \E r \in Recs, m \in Methods, c \in BOOLEAN : BuildStart(r, m, c)
    \/ CreateCatalogue \/ InsertCatRow \/ CheckProperties \/ InsertProperties
    \/ CreateIndex \/ OpenCursor \/ FetchCell \/ FinishBuild
    \/ CreateRecModel \/ CreateRecItemModel \/ CreateRecView \/ SeedView
    \/ PopulateModel
    \/ ScanIndex \/ DropCellTable \/ DropIndexTable \/ DeleteCatRow
    \/ Fault
    \/ \E ro \in BOOLEAN : BeginBlock(ro)
    \/ CommitBlock \/ RollbackBlock \/ DefineSavepoint
    \/ \E i \in 1..MaxSavepoints : ReleaseSavepoint(i) \/ RollbackToSavepoint(i)

Spec == Init /\ [][Next]_vars

-----------------------------------------------------------------------------
(***************************************************************************)
(* Properties.  They are stated of committed, the database as every other   *)
(* session and every later request finds it.                                *)
(***************************************************************************)
TableNames ==
    {IndexTable(r) : r \in Recs} \cup
    {<<k, r, t>> : k \in CellKinds, r \in Recs, t \in 0..MaxClock + 1}

IndexRows == [m1 : TableNames, m2 : TableNames \cup {NoTable},
              view : TableNames, ctx : Combos \cup {NoCtx}]

DbType ==
    [catalogue : BOOLEAN, catRows : Seq([rec : Recs, method : Methods, context : BOOLEAN]),
     properties : BOOLEAN, propRows : Nat, tables : SUBSET TableNames,
     index : [Recs -> Seq(IndexRows)], seeded : SUBSET TableNames]

TypeOK ==
    /\ db \in DbType
    /\ committed \in DbType
    /\ pc \in {"idle", "createCatalogue", "insertCatRow", "checkProperties",
               "insertProperties", "createIndex", "openCursor", "fetch",
               "createModel", "createItemModel", "createView", "seedView",
               "populate", "scanIndex", "dropCells", "deleteCatRow"}
    /\ req \in {NoReq} \cup [op : {"build", "drop"}, rec : Recs,
                             method : Methods, context : BOOLEAN]
    /\ cells \subseteq Combos \cup {NoCtx}
    /\ cell \in [ctx : Combos \cup {NoCtx}, t : Nat]
    /\ todrop \in Seq(TableNames)
    /\ clock \in Nat
    /\ faults \in 0..MaxFaults
    /\ outcome \in {"none", "ok", "error", "rollback"}
    /\ block \in {"none", "inprogress", "aborted"}
    /\ readOnly \in BOOLEAN
    /\ saved \in Seq([db : DbType, ro : BOOLEAN])
    /\ Len(saved) <= MaxSavepoints

\* The tables an index row names.
RowTables(row) == {row.m1, row.view} \cup (IF row.m2 = NoTable THEN {} ELSE {row.m2})

\* The model and view tables of r that exist.
CellTablesOf(d, r) == {n \in d.tables : n[1] \in CellKinds /\ n[2] = r}

(* Every recommender name can be used again: a catalogued recommender has  *)
(* its index table and every table its index rows name, no two rows name   *)
(* the same table, so a DROP RECOMMENDER issued now drops them all without *)
(* error; and a name that is not catalogued has no index table, so CREATE  *)
(* RECOMMENDER can create it.  Broken by a build that stops between        *)
(* inserting the catalogue row and creating the index, or a drop that      *)
(* stops between its DROP TABLEs.                                          *)
Recoverable ==
    \A r \in Recs :
        LET rows == committed.index[r] IN
        IF Catalogued(committed, r)
        THEN /\ IndexTable(r) \in committed.tables
             /\ \A i \in 1..Len(rows) : RowTables(rows[i]) \subseteq committed.tables
             /\ \A i, j \in 1..Len(rows) :
                   i # j => RowTables(rows[i]) \cap RowTables(rows[j]) = {}
        ELSE IndexTable(r) \notin committed.tables

(* The model and view tables that exist are exactly those the index rows   *)
(* of catalogued recommenders name, and each of those views holds the      *)
(* placeholder row: DROP RECOMMENDER, which finds a cell only through its  *)
(* index row, leaves no table behind.  Broken by a build that stops after  *)
(* creating a cell's tables and before inserting its index row.            *)
ArtifactsMatchCatalogue ==
    \A r \in Recs :
        LET rows  == committed.index[r]
            named == UNION {RowTables(rows[i]) : i \in 1..Len(rows)}
        IN  /\ CellTablesOf(committed, r) = IF Catalogued(committed, r) THEN named ELSE {}
            /\ \A i \in 1..Len(rows) : rows[i].view \in committed.seeded

(* The recommenders as the abstract specification sees them: a catalogued  *)
(* recommender, its method and the bag of its cells' combinations.         *)
CommittedRecs ==
    [r \in Recs |->
        IF Catalogued(committed, r)
        THEN [method |-> RecMethod(committed, r),
              cells  |-> ToBag([i \in 1..Len(committed.index[r]) |->
                                  committed.index[r][i].ctx])]
        ELSE NoRec]

Abstract == INSTANCE RecommenderCatalog WITH recs <- CommittedRecs,
                                             props <- committed.propRows

(* Every request is all or nothing: the committed state only ever changes  *)
(* by a recommender appearing with exactly one cell per distinct context   *)
(* combination of the user table, or disappearing; and the properties row  *)
(* is inserted once, by the first CREATE RECOMMENDER, and never again.     *)
RefinesCatalog == Abstract!Spec

(* An index table is never left without the RecModelsCatalogue row that    *)
(* leads DROP RECOMMENDER to it, even when requests stop halfway: CREATE   *)
(* inserts the row before creating the index and DROP drops the index      *)
(* before deleting the row.  Otherwise the name could be neither created   *)
(* again (the index exists) nor dropped (it is not catalogued).            *)
IndexReachable ==
    \A r \in Recs : IndexTable(r) \in committed.tables => Catalogued(committed, r)

(* While the transaction is read-only no step changes the database: both   *)
(* recommender statements are refused by check_xact_readonly, and a        *)
(* ROLLBACK TO a savepoint taken while read-only has nothing to undo.  It  *)
(* needs ROLLBACK TO to restore transaction_read_only with the data: a     *)
(* block may turn read-only after writing, and back to read-write only by  *)
(* rolling back past that point.                                           *)
ReadOnlyWritesNothing ==
    [][XactReadOnly /\ XactReadOnly' => db' = db]_vars
====
