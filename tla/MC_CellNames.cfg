\* Recommender names up to 38 characters, the longest for which an SVD
\* cell's <relname>UserModel<10-digit sec><6-digit usec> fits in 63.
\* The build stops after MaxCells cells, so the system may stop.
CONSTANTS
    NameLens = {1, 38}
    Sec0 = 1700000000
    StartUsecs = {0, 9, 999990}
    Steps = {1, 10, 1000, 1000000}
    MaxCells = 3
    NAMEDATALEN = 64
SPECIFICATION Spec
INVARIANT CellNamesDistinct
CHECK_DEADLOCK FALSE
