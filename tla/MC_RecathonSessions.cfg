\* Three backends and two recommender names, each request in its own
\* transaction; the server may crash at any point.  Safety only, so no
\* fairness; no symmetry, since the refinement is checked as a temporal
\* property.
CONSTANTS
    s1 = s1
    s2 = s2
    s3 = s3
    r1 = r1
    r2 = r2
    Sessions <- MC_Sessions
    Recs <- MC_Recs
    NoReq = NoReq
    NoFail = NoFail
SPECIFICATION Spec
INVARIANT UniqueCatalogue
PROPERTY RefinesCatalogue
