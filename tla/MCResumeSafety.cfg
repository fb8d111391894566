\* Two requests for one pair, two inputs hashes of its assessment, one crash or error; no
\* symmetry, since liveness is checked too.
SPECIFICATION FairSpec
CONSTANTS
    Runs = {r1, r2}
    Versions = {v1}
    Hashes = {h1, h2}
    NoInputs = NoInputs
    NoAnalysis = NoAnalysis
    NoBody = NoBody
    MaxUpsets = 1
INVARIANTS
    TypeOK
    StudioTellsTheTruth
    ReusedWasAnswered
PROPERTIES
    UsableSurvivesFailures
    GenerationEnds
\* Every request ends: the system may stop.
CHECK_DEADLOCK FALSE
