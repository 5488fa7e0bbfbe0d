--------------------------- MODULE UtilityCommands ---------------------------
(***************************************************************************)
(* How utility.c classifies a statement: whether check_xact_readonly        *)
(* refuses it in a read-only transaction, the command tag CreateCommandTag  *)
(* gives it (also the name in that refusal's error message), and the       *)
(* log_statement level GetCommandLogLevel gives it.  The three are          *)
(* separate switches over the node tag; Recathon added CREATE RECOMMENDER   *)
(* and DROP RECOMMENDER to each of them by hand.                            *)
(*                                                                          *)
(* A statement is [kind, opt, sub]: its node tag, the one field its tag or  *)
(* level depends on, and <<s>> for the statement it contains (PREPARE,      *)
(* EXECUTE, EXPLAIN, Query) or <<>>.  Object types are written with the     *)
(* SQL words their tags use.                                                *)
(***************************************************************************)
EXTENDS Sequences, TLC

LOCAL INSTANCE SequencesExt

\* Mutant: Recathon's two statements left out of check_xact_readonly.
RecommenderReadOnlyCheckedMissing == {}

\* check_xact_readonly: the cases Recathon added.
RecommenderReadOnlyChecked == {"CreateRStmt", "DropRecStmt"}

\* check_xact_readonly: the node tags refused when XactReadOnly.
ReadOnlyChecked ==
    {"AlterDatabaseStmt", "AlterDatabaseSetStmt", "AlterDomainStmt",
     "AlterFunctionStmt", "AlterRoleStmt", "AlterRoleSetStmt",
     "AlterObjectSchemaStmt", "AlterOwnerStmt", "AlterSeqStmt", "AlterTableStmt",
     "RenameStmt", "CommentStmt", "DefineStmt", "CreateCastStmt",
     "CreateConversionStmt", "CreatedbStmt", "CreateDomainStmt",
     "CreateFunctionStmt", "CreateRoleStmt", "IndexStmt", "CreatePLangStmt",
     "CreateOpClassStmt", "CreateOpFamilyStmt", "AlterOpFamilyStmt", "RuleStmt",
     "CreateSchemaStmt", "CreateSeqStmt", "CreateStmt", "CreateTableAsStmt", "CreateTableSpaceStmt",
     "CreateTrigStmt", "CompositeTypeStmt", "CreateEnumStmt", "CreateRangeStmt",
     "AlterEnumStmt", "ViewStmt", "DropStmt", "DropdbStmt",
     "DropTableSpaceStmt", "DropRoleStmt", "GrantStmt", "GrantRoleStmt",
     "AlterDefaultPrivilegesStmt", "TruncateStmt", "DropOwnedStmt",
     "ReassignOwnedStmt", "AlterTSDictionaryStmt", "AlterTSConfigurationStmt",
     "CreateExtensionStmt", "AlterExtensionStmt", "AlterExtensionContentsStmt",
     "CreateFdwStmt", "AlterFdwStmt", "CreateForeignServerStmt",
     "AlterForeignServerStmt", "CreateUserMappingStmt", "AlterUserMappingStmt",
     "DropUserMappingStmt", "AlterTableSpaceOptionsStmt",
     "CreateForeignTableStmt", "SecLabelStmt"} \cup RecommenderReadOnlyChecked

-----------------------------------------------------------------------------
(* CreateCommandTag.                                                        *)

\* AlterObjectTypeCommandTag: the ObjectType values it names.
AlterObjects ==
    {"AGGREGATE", "ATTRIBUTE", "CAST", "COLLATION", "COLUMN", "CONSTRAINT",
     "CONVERSION", "DATABASE", "DOMAIN", "EXTENSION", "FOREIGN DATA WRAPPER",
     "SERVER", "FOREIGN TABLE", "FUNCTION", "INDEX", "LANGUAGE", "LARGE OBJECT",
     "OPERATOR CLASS", "OPERATOR", "OPERATOR FAMILY", "ROLE", "RULE", "SCHEMA",
     "SEQUENCE", "TABLE", "TABLESPACE", "TRIGGER",
     "TEXT SEARCH CONFIGURATION", "TEXT SEARCH DICTIONARY",
     "TEXT SEARCH PARSER", "TEXT SEARCH TEMPLATE", "TYPE", "VIEW"}

AlterObjectTypeCommandTag(obj) ==
    CASE obj = "ATTRIBUTE"                  -> "ALTER TYPE"
      [] obj \in {"COLUMN", "CONSTRAINT"}    -> "ALTER TABLE"
      [] obj \in AlterObjects                -> "ALTER " \o obj
      [] OTHER                               -> "???"

\* case T_TransactionStmt: the tag of each TransactionStmtKind.
TransactionTag ==
    ("BEGIN" :> "BEGIN") @@ ("START" :> "START TRANSACTION") @@
    ("COMMIT" :> "COMMIT") @@ ("ROLLBACK" :> "ROLLBACK") @@
    ("ROLLBACK_TO" :> "ROLLBACK") @@ ("SAVEPOINT" :> "SAVEPOINT") @@
    ("RELEASE" :> "RELEASE") @@ ("PREPARE" :> "PREPARE TRANSACTION") @@
    ("COMMIT_PREPARED" :> "COMMIT PREPARED") @@
    ("ROLLBACK_PREPARED" :> "ROLLBACK PREPARED")

\* Mutant: the NEW FOR RECATHON cases left out of CreateCommandTag.
RecommenderTagsMissing == [k \in {} |-> "???"]

\* The tags of Recathon's two statements.
RecommenderTags ==
    ("CreateRStmt" :> "CREATE RECOMMENDER") @@ ("DropRecStmt" :> "DROP RECOMMENDER")

\* Fixed tags of the CREATE / ALTER statements on schemas, tables,
\* tablespaces, extensions, foreign data, and of Recathon's two statements.
ObjectTags ==
    ("CreateDomainStmt" :> "CREATE DOMAIN") @@ ("CreateSchemaStmt" :> "CREATE SCHEMA") @@
    ("CreateStmt" :> "CREATE TABLE") @@ RecommenderTags @@
    ("CreateTableSpaceStmt" :> "CREATE TABLESPACE") @@
    ("DropTableSpaceStmt" :> "DROP TABLESPACE") @@
    ("AlterTableSpaceOptionsStmt" :> "ALTER TABLESPACE") @@
    ("CreateExtensionStmt" :> "CREATE EXTENSION") @@
    ("AlterExtensionStmt" :> "ALTER EXTENSION") @@
    ("AlterExtensionContentsStmt" :> "ALTER EXTENSION") @@
    ("CreateFdwStmt" :> "CREATE FOREIGN DATA WRAPPER") @@
    ("AlterFdwStmt" :> "ALTER FOREIGN DATA WRAPPER") @@
    ("CreateForeignServerStmt" :> "CREATE SERVER") @@
    ("AlterForeignServerStmt" :> "ALTER SERVER") @@
    ("CreateUserMappingStmt" :> "CREATE USER MAPPING") @@
    ("AlterUserMappingStmt" :> "ALTER USER MAPPING") @@
    ("DropUserMappingStmt" :> "DROP USER MAPPING") @@
    ("CreateForeignTableStmt" :> "CREATE FOREIGN TABLE")

\* case T_DropStmt: the removeType values named, each "DROP <object>".
DropObjects ==
    {"TABLE", "SEQUENCE", "VIEW", "INDEX", "TYPE", "DOMAIN", "COLLATION",
     "CONVERSION", "SCHEMA", "TEXT SEARCH PARSER", "TEXT SEARCH DICTIONARY",
     "TEXT SEARCH TEMPLATE", "TEXT SEARCH CONFIGURATION", "FOREIGN TABLE",
     "EXTENSION", "FUNCTION", "AGGREGATE", "OPERATOR", "LANGUAGE", "CAST",
     "TRIGGER", "RULE", "FOREIGN DATA WRAPPER", "SERVER", "OPERATOR CLASS",
     "OPERATOR FAMILY"}

\* Fixed tags of the remaining utility statements.
OtherTags ==
    ("DeclareCursorStmt" :> "DECLARE CURSOR") @@ ("TruncateStmt" :> "TRUNCATE TABLE") @@
    ("CommentStmt" :> "COMMENT") @@ ("SecLabelStmt" :> "SECURITY LABEL") @@
    ("CopyStmt" :> "COPY") @@ ("AlterDomainStmt" :> "ALTER DOMAIN") @@
    ("AlterFunctionStmt" :> "ALTER FUNCTION") @@
    ("AlterDefaultPrivilegesStmt" :> "ALTER DEFAULT PRIVILEGES") @@
    ("CompositeTypeStmt" :> "CREATE TYPE") @@ ("CreateEnumStmt" :> "CREATE TYPE") @@
    ("CreateRangeStmt" :> "CREATE TYPE") @@ ("AlterEnumStmt" :> "ALTER TYPE") @@
    ("ViewStmt" :> "CREATE VIEW") @@ ("CreateFunctionStmt" :> "CREATE FUNCTION") @@
    ("IndexStmt" :> "CREATE INDEX") @@ ("RuleStmt" :> "CREATE RULE") @@
    ("CreateSeqStmt" :> "CREATE SEQUENCE") @@ ("AlterSeqStmt" :> "ALTER SEQUENCE") @@
    ("DoStmt" :> "DO") @@ ("CreatedbStmt" :> "CREATE DATABASE") @@
    ("AlterDatabaseStmt" :> "ALTER DATABASE") @@
    ("AlterDatabaseSetStmt" :> "ALTER DATABASE") @@ ("DropdbStmt" :> "DROP DATABASE") @@
    ("NotifyStmt" :> "NOTIFY") @@ ("ListenStmt" :> "LISTEN") @@
    ("UnlistenStmt" :> "UNLISTEN") @@ ("LoadStmt" :> "LOAD") @@
    ("ClusterStmt" :> "CLUSTER") @@ ("ExplainStmt" :> "EXPLAIN") @@
    ("VariableShowStmt" :> "SHOW") @@ ("CreateTrigStmt" :> "CREATE TRIGGER") @@
    ("CreatePLangStmt" :> "CREATE LANGUAGE") @@ ("CreateRoleStmt" :> "CREATE ROLE") @@
    ("AlterRoleStmt" :> "ALTER ROLE") @@ ("AlterRoleSetStmt" :> "ALTER ROLE") @@
    ("DropRoleStmt" :> "DROP ROLE") @@ ("DropOwnedStmt" :> "DROP OWNED") @@
    ("ReassignOwnedStmt" :> "REASSIGN OWNED") @@ ("LockStmt" :> "LOCK TABLE") @@
    ("ConstraintsSetStmt" :> "SET CONSTRAINTS") @@ ("CheckPointStmt" :> "CHECKPOINT") @@
    ("ReindexStmt" :> "REINDEX") @@ ("CreateConversionStmt" :> "CREATE CONVERSION") @@
    ("CreateCastStmt" :> "CREATE CAST") @@
    ("CreateOpClassStmt" :> "CREATE OPERATOR CLASS") @@
    ("CreateOpFamilyStmt" :> "CREATE OPERATOR FAMILY") @@
    ("AlterOpFamilyStmt" :> "ALTER OPERATOR FAMILY") @@
    ("AlterTSDictionaryStmt" :> "ALTER TEXT SEARCH DICTIONARY") @@
    ("AlterTSConfigurationStmt" :> "ALTER TEXT SEARCH CONFIGURATION") @@
    ("PrepareStmt" :> "PREPARE") @@ ("ExecuteStmt" :> "EXECUTE")

\* case T_DefineStmt: the kinds named, each "CREATE <object>".
DefineObjects ==
    {"AGGREGATE", "OPERATOR", "TYPE", "TEXT SEARCH PARSER",
     "TEXT SEARCH DICTIONARY", "TEXT SEARCH TEMPLATE",
     "TEXT SEARCH CONFIGURATION", "COLLATION"}

\* The tags that depend on one field of the statement: GRANT or REVOKE,
\* VACUUM or ANALYZE, SELECT INTO or CREATE TABLE AS, SET or RESET, the
\* DISCARD target, CLOSE and DEALLOCATE with or without a name, FETCH or MOVE.
OptionTag(s) ==
    CASE s.kind = "GrantStmt"         -> IF s.opt = "grant" THEN "GRANT" ELSE "REVOKE"
      [] s.kind = "GrantRoleStmt"     -> IF s.opt = "grant" THEN "GRANT ROLE" ELSE "REVOKE ROLE"
      [] s.kind = "VacuumStmt"        -> IF s.opt = "vacuum" THEN "VACUUM" ELSE "ANALYZE"
      [] s.kind = "CreateTableAsStmt" -> IF s.opt = "selectInto" THEN "SELECT INTO"
                                                                 ELSE "CREATE TABLE AS"
      [] s.kind = "VariableSetStmt"   -> IF s.opt = "reset" THEN "RESET" ELSE "SET"
      [] s.kind = "DiscardStmt"       -> "DISCARD " \o s.opt
      [] s.kind = "ClosePortalStmt"   -> IF s.opt = "all" THEN "CLOSE CURSOR ALL"
                                                          ELSE "CLOSE CURSOR"
      [] s.kind = "FetchStmt"         -> IF s.opt = "move" THEN "MOVE" ELSE "FETCH"
      [] s.kind = "DeallocateStmt"    -> IF s.opt = "all" THEN "DEALLOCATE ALL"
                                                          ELSE "DEALLOCATE"

OptionKinds ==
    {"GrantStmt", "GrantRoleStmt", "VacuumStmt", "CreateTableAsStmt",
     "VariableSetStmt", "DiscardStmt", "ClosePortalStmt", "FetchStmt",
     "DeallocateStmt"}

\* case T_PlannedStmt (and the non-utility commands of a Query): the tag
\* by commandType; a SELECT is told apart by its DECLARE CURSOR and rowMarks.
PlannedTag(cmd) ==
    CASE cmd = "cursor"    -> "DECLARE CURSOR"
      [] cmd = "forUpdate" -> "SELECT FOR UPDATE"
      [] cmd = "forShare"  -> "SELECT FOR SHARE"
      [] cmd = "select"    -> "SELECT"
      [] cmd = "update"    -> "UPDATE"
      [] cmd = "insert"    -> "INSERT"
      [] cmd = "delete"    -> "DELETE"
      [] OTHER             -> "???"

\* The raw plannable statements.
RawTag == ("InsertStmt" :> "INSERT") @@ ("DeleteStmt" :> "DELETE") @@
          ("UpdateStmt" :> "UPDATE") @@ ("SelectStmt" :> "SELECT")

\* CreateCommandTag: a Query of CMD_UTILITY takes the tag of its utility
\* statement; an unrecognized node tag or field gives "???".
RECURSIVE CommandTag(_)
CommandTag(s) ==
    CASE s.kind \in DOMAIN RawTag     -> RawTag[s.kind]
      [] s.kind = "TransactionStmt"   -> IF s.opt \in DOMAIN TransactionTag
                                         THEN TransactionTag[s.opt] ELSE "???"
      [] s.kind \in DOMAIN ObjectTags -> ObjectTags[s.kind]
      [] s.kind \in DOMAIN OtherTags  -> OtherTags[s.kind]
      [] s.kind = "DropStmt"          -> IF s.opt \in DropObjects
                                         THEN "DROP " \o s.opt ELSE "???"
      [] s.kind = "DefineStmt"        -> IF s.opt \in DefineObjects
                                         THEN "CREATE " \o s.opt ELSE "???"
      [] s.kind \in {"RenameStmt", "AlterObjectSchemaStmt", "AlterOwnerStmt",
                     "AlterTableStmt"} -> AlterObjectTypeCommandTag(s.opt)
      [] s.kind \in OptionKinds       -> OptionTag(s)
      [] s.kind = "PlannedStmt"       -> PlannedTag(s.opt)
      [] s.kind = "Query"             -> IF s.opt = "utility" THEN CommandTag(s.sub[1])
                                         ELSE PlannedTag(s.opt)
      [] OTHER                        -> "???"

-----------------------------------------------------------------------------
(* GetCommandLogLevel.                                                      *)

\* The node tags whose level is fixed: LOGSTMT_MOD, LOGSTMT_ALL, LOGSTMT_DDL.
ModKinds == {"InsertStmt", "DeleteStmt", "UpdateStmt", "TruncateStmt"}

AllKinds ==
    {"TransactionStmt", "DeclareCursorStmt", "ClosePortalStmt", "FetchStmt",
     "DeallocateStmt", "DoStmt", "NotifyStmt", "ListenStmt", "UnlistenStmt",
     "LoadStmt", "VacuumStmt", "VariableSetStmt", "VariableShowStmt",
     "DiscardStmt", "LockStmt", "ConstraintsSetStmt", "CheckPointStmt",
     "ReindexStmt"}

\* Mutant: Recathon's two cases left out of GetCommandLogLevel.
RecommenderDDLKindsMissing == {}

\* case T_CreateRStmt: case T_DropRecStmt: lev = LOGSTMT_DDL
RecommenderDDLKinds == {"CreateRStmt", "DropRecStmt"}

DDLKinds ==
    RecommenderDDLKinds \cup
    {"CreateSchemaStmt", "CreateStmt",
     "CreateForeignTableStmt", "CreateTableSpaceStmt", "DropTableSpaceStmt",
     "AlterTableSpaceOptionsStmt", "CreateExtensionStmt",
     "AlterExtensionStmt", "AlterExtensionContentsStmt", "CreateFdwStmt",
     "AlterFdwStmt", "CreateForeignServerStmt", "AlterForeignServerStmt",
     "CreateUserMappingStmt", "AlterUserMappingStmt", "DropUserMappingStmt",
     "DropStmt", "CommentStmt", "SecLabelStmt", "RenameStmt",
     "AlterObjectSchemaStmt", "AlterOwnerStmt", "AlterTableStmt",
     "AlterDomainStmt", "GrantStmt", "GrantRoleStmt",
     "AlterDefaultPrivilegesStmt", "DefineStmt", "CompositeTypeStmt",
     "CreateEnumStmt", "CreateRangeStmt", "AlterEnumStmt", "ViewStmt",
     "CreateFunctionStmt", "AlterFunctionStmt", "IndexStmt", "RuleStmt",
     "CreateSeqStmt", "AlterSeqStmt", "CreatedbStmt", "AlterDatabaseStmt",
     "AlterDatabaseSetStmt", "DropdbStmt", "ClusterStmt", "CreateTableAsStmt",
     "CreateTrigStmt", "CreatePLangStmt", "CreateDomainStmt",
     "CreateRoleStmt", "AlterRoleStmt", "AlterRoleSetStmt", "DropRoleStmt",
     "DropOwnedStmt", "ReassignOwnedStmt", "CreateConversionStmt",
     "CreateCastStmt", "CreateOpClassStmt", "CreateOpFamilyStmt",
     "AlterOpFamilyStmt", "AlterTSDictionaryStmt", "AlterTSConfigurationStmt"}

\* GetCommandLogLevel: SELECT INTO is DDL, COPY FROM is MOD; PREPARE,
\* EXECUTE of a statement that exists, EXPLAIN ANALYZE and a utility Query
\* look through to the statement they contain; an unrecognized node is ALL.
RECURSIVE LogLevel(_)
LogLevel(s) ==
    CASE s.kind = "SelectStmt"  -> IF s.opt = "into" THEN "DDL" ELSE "ALL"
      [] s.kind = "CopyStmt"    -> IF s.opt = "from" THEN "MOD" ELSE "ALL"
      [] s.kind = "PrepareStmt" -> LogLevel(s.sub[1])
      [] s.kind = "ExecuteStmt" -> IF s.sub # <<>> THEN LogLevel(s.sub[1]) ELSE "ALL"
      [] s.kind = "ExplainStmt" -> IF s.opt = "analyze" THEN LogLevel(s.sub[1]) ELSE "ALL"
      [] s.kind \in {"PlannedStmt", "Query"} /\ s.opt = "utility" -> LogLevel(s.sub[1])
      [] s.kind \in {"PlannedStmt", "Query"} ->
             IF s.opt \in {"update", "insert", "delete"} THEN "MOD" ELSE "ALL"
      [] s.kind \in ModKinds    -> "MOD"
      [] s.kind \in DDLKinds    -> "DDL"
      [] OTHER                  -> "ALL"

-----------------------------------------------------------------------------
(***************************************************************************)
(* The statements the parser hands to the backend, bounded to one level of *)
(* nesting: each node tag with each value of the field its tag or level    *)
(* depends on, and PREPARE, EXECUTE and EXPLAIN of the statements they     *)
(* accept.                                                                  *)
(***************************************************************************)
Stmt(k, o, sub) == [kind |-> k, opt |-> o, sub |-> sub]

NoStmt == Stmt("none", "none", <<>>)

Opts(k) ==
    CASE k = "TransactionStmt"   -> DOMAIN TransactionTag
      [] k = "DropStmt"          -> DropObjects
      [] k = "DefineStmt"        -> DefineObjects
      [] k \in {"RenameStmt", "AlterObjectSchemaStmt", "AlterOwnerStmt",
                "AlterTableStmt"} -> AlterObjects
      [] k \in {"GrantStmt", "GrantRoleStmt"} -> {"grant", "revoke"}
      [] k = "VacuumStmt"        -> {"vacuum", "analyze"}
      [] k = "CreateTableAsStmt" -> {"selectInto", "createAs"}
      [] k = "VariableSetStmt"   -> {"set", "reset"}
      [] k = "DiscardStmt"       -> {"ALL", "PLANS", "TEMP"}
      [] k \in {"ClosePortalStmt", "DeallocateStmt"} -> {"named", "all"}
      [] k = "FetchStmt"         -> {"fetch", "move"}
      [] k = "SelectStmt"        -> {"into", "plain"}
      [] k = "CopyStmt"          -> {"from", "to"}
      [] k = "IndexStmt"         -> {"plain", "concurrent"}
      [] k = "ReindexStmt"       -> {"INDEX", "TABLE", "DATABASE"}
      [] OTHER                   -> {"none"}

WrapperKinds == {"PrepareStmt", "ExecuteStmt", "ExplainStmt", "PlannedStmt", "Query"}

\* The node tags standard_ProcessUtility dispatches; any other is
\* "unrecognized node type".
DispatchedKinds ==
    {"TransactionStmt", "PlannedStmt", "ClosePortalStmt", "FetchStmt",
     "CreateSchemaStmt", "CreateStmt", "CreateForeignTableStmt",
     "CreateRStmt", "DropRecStmt", "CreateTableSpaceStmt",
     "DropTableSpaceStmt", "AlterTableSpaceOptionsStmt",
     "CreateExtensionStmt", "AlterExtensionStmt",
     "AlterExtensionContentsStmt", "CreateFdwStmt", "AlterFdwStmt",
     "CreateForeignServerStmt", "AlterForeignServerStmt",
     "CreateUserMappingStmt", "AlterUserMappingStmt", "DropUserMappingStmt",
     "DropStmt", "TruncateStmt", "CommentStmt", "SecLabelStmt", "CopyStmt",
     "PrepareStmt", "ExecuteStmt", "DeallocateStmt", "RenameStmt",
     "AlterObjectSchemaStmt", "AlterOwnerStmt", "AlterTableStmt",
     "AlterDomainStmt", "GrantStmt", "GrantRoleStmt",
     "AlterDefaultPrivilegesStmt", "DefineStmt", "CompositeTypeStmt",
     "CreateEnumStmt", "CreateRangeStmt", "AlterEnumStmt", "ViewStmt",
     "CreateFunctionStmt", "AlterFunctionStmt", "IndexStmt", "RuleStmt",
     "CreateSeqStmt", "AlterSeqStmt", "DoStmt", "CreatedbStmt",
     "AlterDatabaseStmt", "AlterDatabaseSetStmt", "DropdbStmt", "NotifyStmt",
     "ListenStmt", "UnlistenStmt", "LoadStmt", "ClusterStmt", "VacuumStmt",
     "ExplainStmt", "CreateTableAsStmt", "VariableSetStmt",
     "VariableShowStmt", "DiscardStmt", "CreateTrigStmt", "CreatePLangStmt",
     "CreateDomainStmt", "CreateRoleStmt", "AlterRoleStmt",
     "AlterRoleSetStmt", "DropRoleStmt", "DropOwnedStmt", "ReassignOwnedStmt",
     "LockStmt", "ConstraintsSetStmt", "CheckPointStmt", "ReindexStmt",
     "CreateConversionStmt", "CreateCastStmt", "CreateOpClassStmt",
     "CreateOpFamilyStmt", "AlterOpFamilyStmt", "AlterTSDictionaryStmt",
     "AlterTSConfigurationStmt"}

\* The statements classified on their own: the dispatched ones and the raw
\* plannable ones.
BaseKinds == (DispatchedKinds \cup DOMAIN RawTag) \ WrapperKinds

Base == UNION {{Stmt(k, o, <<>>) : o \in Opts(k)} : k \in BaseKinds}

\* Raw INSERT, UPDATE, DELETE and SELECT: what PREPARE accepts.
Preparable == {s \in Base : s.kind \in DOMAIN RawTag}

Wrapped ==
    {Stmt("PrepareStmt", "none", <<q>>) : q \in Preparable} \cup
    {Stmt("ExecuteStmt", "found", <<q>>) : q \in Preparable} \cup
    {Stmt("ExecuteStmt", "missing", <<>>)} \cup
    {Stmt("ExplainStmt", a, <<q>>) :
        a \in {"analyze", "plain"},
        q \in Preparable \cup {s \in Base : s.kind = "CreateTableAsStmt"}} \cup
    {Stmt("PlannedStmt", "cursor", <<>>)}

\* A Query wrapping a utility statement, or of each other commandType:
\* classified (CreateCommandTag and GetCommandLogLevel accept it) but never
\* passed to ProcessUtility.
Queries ==
    {Stmt("Query", c, <<>>) :
        c \in {"select", "cursor", "forUpdate", "forShare", "update", "insert", "delete"}} \cup
    {Stmt("Query", "utility", <<u>>) : u \in {s \in Base : s.kind \notin DOMAIN RawTag}}

\* What ProcessUtility receives: utility statements, not raw plannable ones.
UtilityStmts == {s \in Base \cup Wrapped : s.kind \notin DOMAIN RawTag}

-----------------------------------------------------------------------------
(* The checks the cases of the dispatch make before doing their work, and  *)
(* the contexts in which each raises ERROR.                                 *)

\* The session state they read: XactReadOnly, RecoveryInProgress(), a
\* transaction block, isTopLevel (false inside a function),
\* InSecurityRestrictedOperation(), superuser().  On a hot standby every
\* transaction is read-only (StartTransaction sets XactReadOnly).
Contexts ==
    {c \in [readOnly : BOOLEAN, recovery : BOOLEAN, inBlock : BOOLEAN,
            topLevel : BOOLEAN, restricted : BOOLEAN, superuser : BOOLEAN] :
        c.recovery => c.readOnly}

\* PreventTransactionChain refuses inside a block or a function;
\* RequireTransactionChain refuses a top-level statement outside a block;
\* PreventCommandDuringRecovery refuses on a hot standby;
\* CheckRestrictedOperation refuses within a security-restricted operation;
\* CHECKPOINT refuses a non-superuser.
GuardFails(g, c) ==
    CASE g = "preventChain"   -> c.inBlock \/ ~c.topLevel
      [] g = "requireChain"   -> ~c.inBlock /\ c.topLevel
      [] g = "duringRecovery" -> c.recovery
      [] g = "restricted"     -> c.restricted
      [] g = "superuser"      -> ~c.superuser

\* case T_TransactionStmt: the checks of each kind, in order.
TransactionGuards(kind) ==
    CASE kind = "PREPARE" -> <<"duringRecovery">>
      [] kind \in {"COMMIT_PREPARED", "ROLLBACK_PREPARED"} ->
             <<"preventChain", "duringRecovery">>
      [] kind \in {"SAVEPOINT", "RELEASE", "ROLLBACK_TO"} -> <<"requireChain">>
      [] OTHER -> <<>>

\* The checks each case of the dispatch makes, in order.  (DROP INDEX
\* CONCURRENTLY's PreventTransactionChain is left out: the concurrent flag
\* of a DropStmt is not among the fields modelled.)
Guards(s) ==
    CASE s.kind = "TransactionStmt" -> TransactionGuards(s.opt)
      [] s.kind \in {"CreateTableSpaceStmt", "DropTableSpaceStmt", "AlterEnumStmt",
                     "CreatedbStmt", "DropdbStmt"} -> <<"preventChain">>
      [] s.kind = "IndexStmt" /\ s.opt = "concurrent" -> <<"preventChain">>
      [] s.kind \in {"ClosePortalStmt", "PrepareStmt", "DeallocateStmt",
                     "DiscardStmt"} -> <<"restricted">>
      [] s.kind \in {"NotifyStmt", "ClusterStmt", "VacuumStmt"} -> <<"duringRecovery">>
      [] s.kind \in {"ListenStmt", "UnlistenStmt"} -> <<"duringRecovery", "restricted">>
      [] s.kind = "ReindexStmt" ->
             IF s.opt = "DATABASE" THEN <<"duringRecovery", "preventChain">>
                                   ELSE <<"duringRecovery">>
      [] s.kind = "LockStmt" -> <<"requireChain">>
      [] s.kind = "CheckPointStmt" -> <<"superuser">>
      [] OTHER -> <<>>

-----------------------------------------------------------------------------
VARIABLES stmt,          \* the statement last passed to ProcessUtility
          ctx,           \* the session state it was passed in
          result,        \* "none", "done", "refused" by check_xact_readonly,
                         \* or the check of its case that raised ERROR
          errTag         \* the command named in the read-only refusal

vars == <<stmt, ctx, result, errTag>>

Init ==
    /\ stmt = NoStmt
    /\ ctx \in Contexts
    /\ result = "none"
    /\ errTag = "none"

\* standard_ProcessUtility begins with check_xact_readonly: when XactReadOnly
\* and the node tag is in its list, PreventCommandIfReadOnly raises
\* "cannot execute <CreateCommandTag> in a read-only transaction".
\* Otherwise the case's checks run in order and the first that fails raises
\* ERROR; if none fails the statement is executed.
ProcessUtility(s, c) ==
    LET gs  == Guards(s)
        bad == SelectInSeq(gs, LAMBDA g : GuardFails(g, c))
    IN  /\ result = "none"
        /\ stmt' = s
        /\ ctx' = c
        /\ \/ /\ c.readOnly /\ s.kind \in ReadOnlyChecked
              /\ result' = "refused"
              /\ errTag' = CommandTag(s)
           \/ /\ ~(c.readOnly /\ s.kind \in ReadOnlyChecked)
              /\ result' = IF bad = 0 THEN "done" ELSE gs[bad]
              /\ errTag' = "none"

\* The statement's outcome is reported and the backend waits for the next
\* one, in whatever session state the statement left.
ReadyForQuery ==
    /\ result # "none"
    /\ stmt' = NoStmt
    /\ result' = "none"
    /\ errTag' = "none"
    /\ UNCHANGED ctx

Next == \/ \E s \in UtilityStmts, c \in Contexts : ProcessUtility(s, c)
        \/ ReadyForQuery

Spec == Init /\ [][Next]_vars

-----------------------------------------------------------------------------
(* A statement check_xact_readonly refuses is named in the error: its      *)
(* CreateCommandTag is a real tag, not "???".  Breaks when a node tag is   *)
(* added to check_xact_readonly (as T_CreateRStmt and T_DropRecStmt were)  *)
(* but not to CreateCommandTag.                                            *)
ReadOnlyRefusalNamed ==
    result = "refused" => errTag # "???"

(* A statement refused in a read-only transaction has a permanent effect,  *)
(* so GetCommandLogLevel puts it at LOGSTMT_DDL or LOGSTMT_MOD, and it is   *)
(* logged under log_statement = 'mod'.  Breaks when a writing statement is *)
(* missing from GetCommandLogLevel (its default is LOGSTMT_ALL) or placed  *)
(* at LOGSTMT_ALL.                                                          *)
ReadOnlyRefusalLogged ==
    result = "refused" => LogLevel(stmt) \in {"DDL", "MOD"}

\* The statements whose writes are made by the executor, which checks
\* XactReadOnly itself (COPY FROM, EXECUTE, EXPLAIN ANALYZE), and PREPARE,
\* which only stores the plan of the statement its level is taken from.
ExecutorChecked == {"CopyStmt", "ExecuteStmt", "ExplainStmt", "PrepareStmt"}

(* A hot standby executes no statement GetCommandLogLevel logs as DDL or    *)
(* MOD, other than those the executor checks: each is refused by            *)
(* check_xact_readonly (every standby transaction is read-only) or by the  *)
(* PreventCommandDuringRecovery of its case (CLUSTER, which read-only      *)
(* transactions allow).  Breaks when a writing statement, as CREATE and     *)
(* DROP RECOMMENDER were, is added to the dispatch and to                   *)
(* GetCommandLogLevel but to neither check.                                 *)
StandbyRunsNoDDL ==
    result = "done" /\ ctx.recovery /\ LogLevel(stmt) \in {"DDL", "MOD"}
        => stmt.kind \in ExecutorChecked
====
