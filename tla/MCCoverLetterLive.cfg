\* One crash: every other request ends and every other status settles.
SPECIFICATION FairSpec
CONSTANTS
    Runs = {r1, r2}
    Versions = {v1, v2}
    Templates = {t1}
    NoRun = NoRun
    NoKey = NoKey
    NoInputs = NoInputs
    NoAnalysis = NoAnalysis
    NoBody = NoBody
    MaxUpsets = 1
PROPERTIES
    EveryRequestEnds
    GenerationEnds
\* Every request ends: the system may stop.
CHECK_DEADLOCK FALSE
