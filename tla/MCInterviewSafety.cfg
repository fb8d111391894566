\* Two computations and three other requests about one answer and one target; one upset.
SPECIFICATION FairSpec
CONSTANTS
    Runs = {r1, r2}
    Edits = {e1, e2, e3}
    Texts = {a1}
    Targets = {t1}
    NoRun = NoRun
    NoFit = NoFit
    NoKey = NoKey
    Nothing = Nothing
    MaxUpsets = 1
INVARIANTS
    TypeOK
    
PROPERTIES
    FitStaysOfItsAnswers
    UsesReservationsAsSpecified
    KeysSettle
\* Every request ends: the system may stop.
CHECK_DEADLOCK FALSE
