\* One request leaves a resume, one starts another, one reuses it.
SPECIFICATION Spec
CONSTANTS
    Runs = {r1, r2, r3}
    Versions = {v1}
    Hashes = {h1, h2}
    NoInputs = NoInputs
    NoAnalysis = NoAnalysis
    NoBody = NoBody
    MaxUpsets = 0
SYMMETRY Symmetric
INVARIANTS
    ReusedResumeIsOfItsInputs
\* Every request ends: the system may stop.
CHECK_DEADLOCK FALSE
