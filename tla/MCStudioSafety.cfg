\* Three attempts on one row, two versions and two analyses: a resume and a letter
\* can be written while another attempt with other inputs is under way or lost.
\* No symmetry, since liveness is checked too.
SPECIFICATION FairSpec
CONSTANTS
    Attempts = {a1, a2, a3}
    Versions = {v1, v2}
    Analyses = {n1, n2}
    Hashes = {h1, h2}
    NoHash = NoHash
    NoInputs = NoInputs
    NoAnalysis = NoAnalysis
    NoBody = NoBody
    MaxFaults = 1
INVARIANTS
    TypeOK
    CompletedMeansGenerated
    InProgressHasAWorker
    ReadersAgree
    CompletedPairIsUsable
PROPERTIES
    GenerationEnds
\* Every attempt ends and the inputs hashes run out: the system may stop.
CHECK_DEADLOCK FALSE
