\* Three backends issuing CREATE and DROP RECOMMENDER of two names, each
\* request in its own transaction.
CONSTANTS
    s1 = s1
    s2 = s2
    s3 = s3
    r1 = r1
    r2 = r2
    Sessions <- MC_Sessions
    Recs <- MC_Recs
    NoReq = NoReq
    NoFail = NoFail
SPECIFICATION Spec
SYMMETRY MC_Symmetry
INVARIANT BuildFailsOnlyOnItsName
