\* Recommender names longer than 38 characters: the cell names are
\* truncated to 63 characters and the suffix loses digits.
\* The build stops after MaxCells cells, so the system may stop.
CONSTANTS
    NameLens = {39, 43, 48, 63}
    Sec0 = 1700000000
    StartUsecs = {0, 9, 999990}
    Steps = {1, 10, 1000, 1000000}
    MaxCells = 3
    NAMEDATALEN = 64
SPECIFICATION Spec
INVARIANT CellNamesDistinct
CHECK_DEADLOCK FALSE
