\* Names of one or two letters in either case, written quoted or not, and
\* either implementation of the catalogue lookup.
CONSTANTS
    Written <- MC_Written
SPECIFICATION Spec
INVARIANT IndexOwnedOnce
