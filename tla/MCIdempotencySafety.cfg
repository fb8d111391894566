\* Three runs, two keys: two attempts can race on a key that a third one failed,
\* while another key (a regeneration's second reservation) is in use.
SPECIFICATION Spec
CONSTANTS
    Keys = {k1, k2}
    Runs = {r1, r2, r3}
    NoRun = NoRun
    NoKey = NoKey
    MaxUpdates = 2
    MaxFaults = 1
SYMMETRY Symmetric
INVARIANTS
    TypeOK
    ReplayIsAnAcceptedResult
    DuplicateWorkNeedsAFailure
PROPERTIES
    SupersededForever
    
\* Every run ends: an attempt is made once.
CHECK_DEADLOCK FALSE
