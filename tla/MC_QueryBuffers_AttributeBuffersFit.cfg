\* Column names of 44 bytes and values of 251 bytes, the longest that fit
\* char addition[64] and char addition[256]: the overrun found is of the
\* 1024-byte query that accumulates them.
CONSTANTS
    NameLens = {63}
    ColLens = {44}
    ValLens = {251}
    MaxAtts = 4
    Sec0 = 1700000000
    Usecs = {999999}
    Ratings = {2147483647}
SPECIFICATION Spec
INVARIANT AttributeBuffersFit
CHECK_DEADLOCK FALSE
