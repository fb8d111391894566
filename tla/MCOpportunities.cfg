\* Three calls for one posting and two baselines: two can race on what the third made,
\* or on making it.
SPECIFICATION Spec
CONSTANTS
    Calls = {c1, c2, c3}
    Baselines = {b1, b2}
    Postings = {p1}
    Fits = {650, 696, 850}
    NoJob = NoJob
    NoAnalysis = NoAnalysis
    NoWant = NoWant
    MaxAgeings = 1
SYMMETRY Symmetric
INVARIANTS
    TypeOK
PROPERTIES
    BandsStayExplained
    RejectedIsFinal
    AppliedNeedsFit
\* Every call ends: the tracker may come to rest.
CHECK_DEADLOCK FALSE
