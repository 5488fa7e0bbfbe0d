\* Postgres semantics inside explicit transaction blocks: BEGIN [READ ONLY],
\* COMMIT, ROLLBACK, SAVEPOINT, RELEASE and ROLLBACK TO between requests.
CONSTANTS
    r1 = r1
    r2 = r2
    c1 = c1
    c2 = c2
    Recs <- MC_Recs
    Combos <- MC_Combos
    Methods <- MC_BlockMethods
    NoCtx = NoCtx
    NoTable = NoTable
    NoReq = NoReq
    NoRec = NoRec
    MaxClock = 2
    MaxFaults = 1
    Atomic = TRUE
    ClockMayRepeat = TRUE
    Blocks = TRUE
    MaxSavepoints = 1
SPECIFICATION Spec
CONSTRAINT MC_Constraint
SYMMETRY MC_Symmetry
INVARIANTS
    Recoverable
    ArtifactsMatchCatalogue
PROPERTIES
    ReadOnlyWritesNothing
