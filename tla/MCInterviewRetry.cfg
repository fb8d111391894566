\* A computation fails, and is asked for again with the same answers.
SPECIFICATION Spec
CONSTANTS
    Runs = {r1, r2}
    Edits = {e1}
    Texts = {a1}
    Targets = {t1}
    NoRun = NoRun
    NoFit = NoFit
    NoKey = NoKey
    Nothing = Nothing
    MaxUpsets = 1
INVARIANTS
    RetriesAreWorked
\* Every request ends: the system may stop.
CHECK_DEADLOCK FALSE
