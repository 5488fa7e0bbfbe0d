\* Postgres semantics: an ERROR aborts the transaction of the statement.
CONSTANTS
    r1 = r1
    r2 = r2
    c1 = c1
    c2 = c2
    Recs <- MC_Recs
    Combos <- MC_Combos
    Methods <- MC_Methods
    NoCtx = NoCtx
    NoTable = NoTable
    NoReq = NoReq
    NoRec = NoRec
    MaxClock = 4
    MaxFaults = 1
    Atomic = TRUE
    ClockMayRepeat = TRUE
    Blocks = FALSE
    MaxSavepoints = 1
SPECIFICATION Spec
CONSTRAINT MC_Constraint
SYMMETRY MC_Symmetry
INVARIANTS
    TypeOK
    Recoverable
    ArtifactsMatchCatalogue
PROPERTIES
    RefinesCatalog
