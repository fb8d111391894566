\* Three requests for one pair, of two baseline versions, one crash or error.
SPECIFICATION Spec
CONSTANTS
    Runs = {r1, r2, r3}
    Versions = {v1, v2}
    Templates = {t1}
    NoRun = NoRun
    NoKey = NoKey
    NoInputs = NoInputs
    NoAnalysis = NoAnalysis
    NoBody = NoBody
    MaxUpsets = 1
SYMMETRY Symmetric
INVARIANTS
    TypeOK
    StudioTellsTheTruth
    
    LettersAreDistinct
PROPERTIES
    UsesReservationsAsSpecified
\* Every request ends: the system may stop.
CHECK_DEADLOCK FALSE
