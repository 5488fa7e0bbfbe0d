--------------------------- MODULE RecathonSessions ---------------------------
(***************************************************************************)
(* CREATE and DROP RECOMMENDER run by several backends at once.  Each       *)
(* request is one transaction (autocommit) whose statements are issued one  *)
(* after another (standard_ProcessUtility, utility.c); what one session    *)
(* writes is seen by the others only once it commits (READ COMMITTED).     *)
(*                                                                          *)
(* The engine behaviour the statements meet:                                *)
(*  - CREATE TABLE of a name another open transaction has created waits on  *)
(*    the unique index of pg_class/pg_type until that transaction ends,     *)
(*    then fails if it committed ("duplicate key"), even with IF NOT EXISTS *)
(*    (whose existence test saw only committed tables);                     *)
(*  - SELECT takes AccessShareLock, DROP TABLE AccessExclusiveLock, both    *)
(*    held to the end of the transaction; a statement waiting on a lock    *)
(*    looks the table up again once it gets it;                             *)
(*  - DELETE of a row another open transaction deletes waits for it;        *)
(*  - a cycle of waits is broken by the deadlock detector, which aborts    *)
(*    one of the waiters.                                                   *)
(*                                                                          *)
(* Tables are Catalogue (RecModelsCatalogue), Properties                   *)
(* (RecathonProperties), <<"index", r>> and the cell tables <<"cell", r, s>>*)
(* named by session s's gettimeofday(): the cell loop, checked statement   *)
(* by statement in Recathon, is one step here, because its tables are      *)
(* private to the transaction until it commits.                             *)
(***************************************************************************)
EXTENDS Naturals, FiniteSets

CONSTANTS Sessions,   \* backends issuing recommender statements
          Recs,       \* recommender names
          NoReq,      \* no request in progress
          NoFail      \* the session's last request did not fail

VARIABLES pc,         \* per session: the statement it issues next
          req,        \* per session: [op, rec] of its request, or NoReq
          mk, rm,     \* per session: tables its open transaction created / dropped
          ins, del,   \* per session: catalogue rows it inserted / deleted
          pins,       \* per session: RecathonProperties rows it inserted
          nidx,       \* per session: cell tables named by rows of the index it created
          sh,         \* per session: tables it holds AccessShareLock on
          todrop,     \* per session: DROP's cell tables still to drop
          failed,     \* per session: the last failed request and the table it failed on
          ctables,    \* committed: tables that exist
          crows,      \* committed: RecModelsCatalogue rows <<rec, inserting session>>
          cprops,     \* committed: RecathonProperties rows
          cidx        \* committed: per recommender, the cell tables its index rows name

local  == <<pc, req, mk, rm, ins, del, pins, nidx, sh, todrop>>
shared == <<ctables, crows, cprops, cidx>>
vars   == <<local, failed, shared>>

Catalogue  == <<"catalogue">>
Properties == <<"properties">>
IndexTable(r) == <<"index", r>>
CellTable(r, s) == <<"cell", r, s>>
\* What a request fails on when no table is at fault.
Deadlock == <<"deadlock">>
Crash    == <<"crash">>

-----------------------------------------------------------------------------
(* What session s sees: committed state and its own open transaction.     *)
Visible(s) == (ctables \cup mk[s]) \ rm[s]
Rows(s)    == (crows \cup ins[s]) \ del[s]
RowsOf(s, r) == {row \in Rows(s) : row[1] = r}

\* recommenderExists / validateCreateRStmt: the catalogue exists and has a
\* row for the name.
Catalogued(s, r) == Catalogue \in Visible(s) /\ RowsOf(s, r) # {}

\* The sessions whose open transaction s's next statement waits for.
WaitsFor(s) ==
    LET others == Sessions \ {s}
        r      == req[s].rec
    IN  CASE pc[s] = "catalogueWait"    -> {o \in others : Catalogue \in mk[o]}
          [] pc[s] = "createProperties" -> {o \in others : Properties \in mk[o]}
          [] pc[s] = "createIndex"      -> {o \in others : IndexTable(r) \in mk[o]}
          [] pc[s] = "scanIndex"        -> {o \in others : IndexTable(r) \in rm[o]}
          [] pc[s] = "dropCells"        -> {o \in others : todrop[s] \cap (rm[o] \cup sh[o]) # {}}
          [] pc[s] = "dropIndex"        -> {o \in others : IndexTable(r) \in rm[o] \cup sh[o]}
          [] pc[s] = "deleteCatRow"     -> {o \in others : RowsOf(s, r) \cap del[o] # {}}
          [] OTHER                      -> {}

Ready(s) == WaitsFor(s) = {}

-----------------------------------------------------------------------------
Init ==
    /\ pc = [s \in Sessions |-> "idle"]
    /\ req = [s \in Sessions |-> NoReq]
    /\ mk = [s \in Sessions |-> {}]
    /\ rm = [s \in Sessions |-> {}]
    /\ ins = [s \in Sessions |-> {}]
    /\ del = [s \in Sessions |-> {}]
    /\ pins = [s \in Sessions |-> 0]
    /\ nidx = [s \in Sessions |-> {}]
    /\ sh = [s \in Sessions |-> {}]
    /\ todrop = [s \in Sessions |-> {}]
    /\ failed = [s \in Sessions |-> NoFail]
    /\ ctables = {}
    /\ crows = {}
    /\ cprops = 0
    /\ cidx = [r \in Recs |-> {}]

\* Mutant: the locks of the transaction outlive it.
EndXactKeepingLocks(s) ==
    /\ pc' = [pc EXCEPT ![s] = "idle"]
    /\ req' = [req EXCEPT ![s] = NoReq]
    /\ mk' = [mk EXCEPT ![s] = {}]
    /\ rm' = [rm EXCEPT ![s] = {}]
    /\ ins' = [ins EXCEPT ![s] = {}]
    /\ del' = [del EXCEPT ![s] = {}]
    /\ pins' = [pins EXCEPT ![s] = 0]
    /\ nidx' = [nidx EXCEPT ![s] = {}]
    /\ todrop' = [todrop EXCEPT ![s] = {}]
    /\ UNCHANGED sh

\* The transaction of s ends: its locks go and its own state is reset.
EndXact(s) ==
    /\ pc' = [pc EXCEPT ![s] = "idle"]
    /\ req' = [req EXCEPT ![s] = NoReq]
    /\ mk' = [mk EXCEPT ![s] = {}]
    /\ rm' = [rm EXCEPT ![s] = {}]
    /\ ins' = [ins EXCEPT ![s] = {}]
    /\ del' = [del EXCEPT ![s] = {}]
    /\ pins' = [pins EXCEPT ![s] = 0]
    /\ nidx' = [nidx EXCEPT ![s] = {}]
    /\ sh' = [sh EXCEPT ![s] = {}]
    /\ todrop' = [todrop EXCEPT ![s] = {}]

\* The writes M, R, I, D, P, N of a transaction become the committed state.
Publish(M, R, I, D, P, N) ==
    /\ ctables' = (ctables \ R) \cup M
    /\ crows' = (crows \ D) \cup I
    /\ cprops' = cprops + P
    /\ cidx' = [r \in Recs |-> IF IndexTable(r) \in M THEN N
                               ELSE IF IndexTable(r) \in R THEN {} ELSE cidx[r]]

\* COMMIT of the request's transaction, with the writes it has made
\* including those of its last statement.
CommitWith(s, M, R, I, D, P, N) ==
    /\ Publish(M, R, I, D, P, N)
    /\ EndXact(s)
    /\ UNCHANGED failed

\* Mutant: an ERROR leaves the statements already issued in place, as the
\* design document describes them.
AbortKeepingStatements(s, on) ==
    /\ Publish(mk[s], rm[s], ins[s], del[s], pins[s], nidx[s])
    /\ EndXact(s)
    /\ failed' = [failed EXCEPT ![s] = [op |-> req[s].op, rec |-> req[s].rec, on |-> on]]

\* ereport(ERROR) on table `on': the transaction aborts and nothing of the
\* request remains.
Abort(s, on) ==
    /\ EndXact(s)
    /\ failed' = [failed EXCEPT ![s] = [op |-> req[s].op, rec |-> req[s].rec, on |-> on]]
    /\ UNCHANGED shared

\* CREATE TABLE n: "already exists" if s sees n; waits (Ready) while
\* another open transaction has created n.
CreateTable(s, n, next) ==
    \/ /\ n \in Visible(s)
       /\ Abort(s, n)
    \/ /\ n \notin Visible(s)
       /\ mk' = [mk EXCEPT ![s] = @ \cup {n}]
       /\ pc' = [pc EXCEPT ![s] = next]
       /\ UNCHANGED <<req, rm, ins, del, pins, nidx, sh, todrop, failed, shared>>

-----------------------------------------------------------------------------
(* CREATE RECOMMENDER (case T_CreateRStmt).                                *)

\* validateCreateRStmt refuses a name the session sees catalogued.
BuildRejected(s, r) ==
    /\ pc[s] = "idle"
    /\ Catalogued(s, r)
    /\ failed' = [failed EXCEPT ![s] = NoFail]
    /\ UNCHANGED <<local, shared>>

BuildStart(s, r) ==
    /\ pc[s] = "idle"
    /\ ~Catalogued(s, r)
    /\ req' = [req EXCEPT ![s] = [op |-> "build", rec |-> r]]
    /\ pc' = [pc EXCEPT ![s] = "createCatalogue"]
    /\ failed' = [failed EXCEPT ![s] = NoFail]
    /\ UNCHANGED <<mk, rm, ins, del, pins, nidx, sh, todrop, shared>>

\* CREATE TABLE IF NOT EXISTS RecModelsCatalogue: skipped if s sees it;
\* otherwise created, or, if another open transaction created it, a wait.
CreateCatalogue(s) ==
    /\ pc[s] = "createCatalogue"
    /\ \/ /\ Catalogue \in Visible(s)
          /\ pc' = [pc EXCEPT ![s] = "insertCatRow"]
          /\ UNCHANGED mk
       \/ /\ Catalogue \notin Visible(s)
          /\ \A o \in Sessions : Catalogue \notin mk[o]
          /\ mk' = [mk EXCEPT ![s] = @ \cup {Catalogue}]
          /\ pc' = [pc EXCEPT ![s] = "insertCatRow"]
       \/ /\ Catalogue \notin Visible(s)
          /\ \E o \in Sessions \ {s} : Catalogue \in mk[o]
          /\ pc' = [pc EXCEPT ![s] = "catalogueWait"]
          /\ UNCHANGED mk
    /\ UNCHANGED <<req, rm, ins, del, pins, nidx, sh, todrop, failed, shared>>

\* The wait ends: the other transaction committed (duplicate key) or aborted.
CatalogueWait(s) ==
    /\ pc[s] = "catalogueWait"
    /\ Ready(s)
    /\ \/ /\ Catalogue \in ctables
          /\ Abort(s, Catalogue)
       \/ /\ Catalogue \notin ctables
          /\ mk' = [mk EXCEPT ![s] = @ \cup {Catalogue}]
          /\ pc' = [pc EXCEPT ![s] = "insertCatRow"]
          /\ UNCHANGED <<req, rm, ins, del, pins, nidx, sh, todrop, failed, shared>>

\* INSERT INTO RecModelsCatalogue VALUES (default, '%sIndex', ...): no
\* uniqueness on the name.
InsertCatRow(s) ==
    /\ pc[s] = "insertCatRow"
    /\ ins' = [ins EXCEPT ![s] = @ \cup {<<req[s].rec, s>>}]
    /\ pc' = [pc EXCEPT ![s] = "checkProperties"]
    /\ UNCHANGED <<req, mk, rm, del, pins, nidx, sh, todrop, failed, shared>>

\* relationExists("recathonproperties").
CheckProperties(s) ==
    /\ pc[s] = "checkProperties"
    /\ pc' = [pc EXCEPT ![s] = IF Properties \in Visible(s) THEN "createIndex"
                                                              ELSE "createProperties"]
    /\ UNCHANGED <<req, mk, rm, ins, del, pins, nidx, sh, todrop, failed, shared>>

CreateProperties(s) ==
    /\ pc[s] = "createProperties"
    /\ Ready(s)
    /\ CreateTable(s, Properties, "insertProperties")

\* INSERT INTO RecathonProperties VALUES (0.5, 0, true)
InsertProperties(s) ==
    /\ pc[s] = "insertProperties"
    /\ pins' = [pins EXCEPT ![s] = 1]
    /\ pc' = [pc EXCEPT ![s] = "createIndex"]
    /\ UNCHANGED <<req, mk, rm, ins, del, nidx, sh, todrop, failed, shared>>

\* CREATE TABLE %sIndex (...)
CreateIndex(s) ==
    /\ pc[s] = "createIndex"
    /\ Ready(s)
    /\ CreateTable(s, IndexTable(req[s].rec), "buildCells")

\* The cell loop: CREATE TABLE of the cell's tables named by this session's
\* reading, the index row naming them, then the statement completes and
\* its transaction commits.
BuildCells(s) ==
    /\ pc[s] = "buildCells"
    /\ LET c == CellTable(req[s].rec, s) IN
          \/ /\ c \in Visible(s)
             /\ Abort(s, c)
          \/ /\ c \notin Visible(s)
             /\ CommitWith(s, mk[s] \cup {c}, rm[s], ins[s], del[s], pins[s], {c})

-----------------------------------------------------------------------------
(* DROP RECOMMENDER (case T_DropRecStmt).                                  *)

\* "no recommenders have been created" / "recommender %s does not exist"
DropRejected(s, r) ==
    /\ pc[s] = "idle"
    /\ ~Catalogued(s, r)
    /\ failed' = [failed EXCEPT ![s] = NoFail]
    /\ UNCHANGED <<local, shared>>

DropStart(s, r) ==
    /\ pc[s] = "idle"
    /\ Catalogued(s, r)
    /\ req' = [req EXCEPT ![s] = [op |-> "drop", rec |-> r]]
    /\ pc' = [pc EXCEPT ![s] = "scanIndex"]
    /\ failed' = [failed EXCEPT ![s] = NoFail]
    /\ UNCHANGED <<mk, rm, ins, del, pins, nidx, sh, todrop, shared>>

\* Mutant: the cursor loop over the index rows stops before the last row.
ScanIndexMissingCells(s) ==
    /\ pc[s] = "scanIndex"
    /\ Ready(s)
    /\ LET idx == IndexTable(req[s].rec) IN
          \/ /\ idx \notin Visible(s)
             /\ Abort(s, idx)
          \/ /\ idx \in Visible(s)
             /\ sh' = [sh EXCEPT ![s] = @ \cup {idx}]
             /\ todrop' = [todrop EXCEPT ![s] = {}]
             /\ pc' = [pc EXCEPT ![s] = "dropCells"]
             /\ UNCHANGED <<req, mk, rm, ins, del, pins, nidx, failed, shared>>

\* select * from %sindex: AccessShareLock on the index, held to the end.
ScanIndex(s) ==
    /\ pc[s] = "scanIndex"
    /\ Ready(s)
    /\ LET idx == IndexTable(req[s].rec) IN
          \/ /\ idx \notin Visible(s)
             /\ Abort(s, idx)
          \/ /\ idx \in Visible(s)
             /\ sh' = [sh EXCEPT ![s] = @ \cup {idx}]
             /\ todrop' = [todrop EXCEPT ![s] = cidx[req[s].rec]]
             /\ pc' = [pc EXCEPT ![s] = "dropCells"]
             /\ UNCHANGED <<req, mk, rm, ins, del, pins, nidx, failed, shared>>

\* drop table %s of the next cell table.
DropCellTable(s) ==
    /\ pc[s] = "dropCells"
    /\ todrop[s] # {}
    /\ Ready(s)
    /\ \E n \in todrop[s] :
          \/ /\ n \notin Visible(s)
             /\ Abort(s, n)
          \/ /\ n \in Visible(s)
             /\ rm' = [rm EXCEPT ![s] = @ \cup {n}]
             /\ todrop' = [todrop EXCEPT ![s] = @ \ {n}]
             /\ UNCHANGED <<pc, req, mk, ins, del, pins, nidx, sh, failed, shared>>

DropCellsDone(s) ==
    /\ pc[s] = "dropCells"
    /\ todrop[s] = {}
    /\ pc' = [pc EXCEPT ![s] = "dropIndex"]
    /\ UNCHANGED <<req, mk, rm, ins, del, pins, nidx, sh, todrop, failed, shared>>

\* drop table %sindex: upgrades the scan's AccessShareLock.
DropIndexTable(s) ==
    /\ pc[s] = "dropIndex"
    /\ Ready(s)
    /\ LET idx == IndexTable(req[s].rec) IN
          \/ /\ idx \notin Visible(s)
             /\ Abort(s, idx)
          \/ /\ idx \in Visible(s)
             /\ rm' = [rm EXCEPT ![s] = @ \cup {idx}]
             /\ pc' = [pc EXCEPT ![s] = "deleteCatRow"]
             /\ UNCHANGED <<req, mk, ins, del, pins, nidx, sh, todrop, failed, shared>>

DeleteCatRow(s) ==
    /\ pc[s] = "deleteCatRow"
    /\ Ready(s)
    /\ CommitWith(s, mk[s], rm[s], ins[s], del[s] \cup RowsOf(s, req[s].rec),
                  pins[s], nidx[s])

\* The deadlock detector aborts a session that waits on one waiting on it.
DeadlockDetected(s) ==
    /\ \E o \in WaitsFor(s) : s \in WaitsFor(o)
    /\ Abort(s, Deadlock)

\* A backend dies (killed, or crashed): the postmaster ends every backend
\* and recovers from the WAL, which holds only committed transactions.
\* Every request in progress is lost with its locks; its client sees the
\* connection fail.
ServerCrash ==
    /\ \E s \in Sessions : pc[s] # "idle"
    /\ failed' = [s \in Sessions |->
                    IF pc[s] = "idle" THEN failed[s]
                    ELSE [op |-> req[s].op, rec |-> req[s].rec, on |-> Crash]]
    /\ pc' = [s \in Sessions |-> "idle"]
    /\ req' = [s \in Sessions |-> NoReq]
    /\ mk' = [s \in Sessions |-> {}]
    /\ rm' = [s \in Sessions |-> {}]
    /\ ins' = [s \in Sessions |-> {}]
    /\ del' = [s \in Sessions |-> {}]
    /\ pins' = [s \in Sessions |-> 0]
    /\ nidx' = [s \in Sessions |-> {}]
    /\ sh' = [s \in Sessions |-> {}]
    /\ todrop' = [s \in Sessions |-> {}]
    /\ UNCHANGED shared

-----------------------------------------------------------------------------
Step(s) ==
    \/ \E r \in Recs : BuildRejected(s, r) \/ BuildStart(s, r)
                       \/ DropRejected(s, r) \/ DropStart(s, r)
    \/ CreateCatalogue(s) \/ CatalogueWait(s) \/ InsertCatRow(s)
    \/ CheckProperties(s) \/ CreateProperties(s) \/ InsertProperties(s)
    \/ CreateIndex(s) \/ BuildCells(s)
    \/ ScanIndex(s) \/ DropCellTable(s) \/ DropCellsDone(s)
    \/ DropIndexTable(s) \/ DeleteCatRow(s)
    \/ DeadlockDetected(s)

Next == (\E s \in Sessions : Step(s)) \/ ServerCrash

Spec == Init /\ [][Next]_vars

\* Once a request has started, its backend keeps executing it: every
\* statement runs to completion or waits on a lock, a backend woken when
\* the transaction it waits for ends is runnable until the scheduler runs
\* it (strong fairness: enabled again and again, it eventually moves), and
\* the deadlock detector runs after deadlock_timeout.  Nothing obliges a
\* client to issue a request, so the starting steps are not fair.
Run(s) == Step(s) /\ pc[s] # "idle"

FairSpec == Spec /\ \A s \in Sessions : SF_vars(Run(s))

-----------------------------------------------------------------------------
(* RecModelsCatalogue never holds two rows for one recommender, although   *)
(* it has no unique constraint and validateCreateRStmt sees only committed *)
(* rows, so two sessions building one name both pass validation and both  *)
(* insert a row: the second CREATE TABLE %sIndex waits for the first       *)
(* transaction and fails, and its abort takes its row with it.             *)
UniqueCatalogue ==
    \A r \in Recs : Cardinality({row \in crows : row[1] = r}) <= 1

\* The tables of recommender r, whatever session's clock named them.
OwnTables(r) == {IndexTable(r)} \cup {CellTable(r, o) : o \in Sessions}

(* A CREATE RECOMMENDER fails only on a table of the recommender it        *)
(* builds, i.e. when another session builds the same name.  The shared     *)
(* tables are guarded by existence checks (IF NOT EXISTS on the catalogue, *)
(* relationExists before RecathonProperties), which see only committed     *)
(* tables: two first builds of different names both try to create them,    *)
(* and the second fails.  A crash, which ends every request, is not a     *)
(* failure of the build's statements.                                      *)
BuildFailsOnlyOnItsName ==
    \A s \in Sessions :
        failed[s] # NoFail /\ failed[s].op = "build" /\ failed[s].on # Crash
            => failed[s].on \in OwnTables(failed[s].rec)

-----------------------------------------------------------------------------
(* The committed state read as the abstract catalogue.  A recommender is   *)
(* there when it has a catalogue row, its index table and exactly the cell  *)
(* tables its index rows name; it is absent when none of its rows and       *)
(* tables exist.  Any other mix of committed rows and tables is an entry    *)
(* with no cells, which no abstract step creates or removes.  Sessions do   *)
(* not model the method or the context: every build has one cell.          *)
CommittedRec(r) ==
    LET rows == {row \in crows : row[1] = r}
        tabs == OwnTables(r) \cap ctables
    IN  IF rows = {} /\ tabs = {} THEN NoReq
        ELSE [method |-> "method",
              cells  |-> [c \in {"cell"} |->
                            IF rows # {} /\ tabs = {IndexTable(r)} \cup cidx[r]
                            THEN Cardinality(cidx[r]) ELSE 0]]

Catalog == INSTANCE RecommenderCatalog
               WITH recs <- [r \in Recs |-> CommittedRec(r)], props <- cprops,
                    Methods <- {"method"}, Combos <- {"cell"}, NoCtx <- "cell",
                    NoRec <- NoReq

(* However the statements of concurrent requests interleave, the committed *)
(* state changes only by one whole recommender (row, index and its one     *)
(* cell) appearing, or by one disappearing with every table DROP's scan of *)
(* its index named; RecathonProperties is committed once, with the first   *)
(* build.  Builds and drops are serializable and leave no stray tables.   *)
RefinesCatalogue == Catalog!Spec
====
