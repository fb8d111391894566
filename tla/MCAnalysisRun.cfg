\* Three requests for one pair whose inputs change between two hashes; one upset.
SPECIFICATION FairSpec
CONSTANTS
    Runs = {r1, r2, r3}
    Hashes = {h1, h2}
    NoRun = NoRun
    NoHash = NoHash
    MaxUpsets = 1
INVARIANTS
    TypeOK
    
    AssessmentsAreThere
PROPERTIES
    UsesReservationsAsSpecified
    KeysSettle
\* Every request ends: the system may stop.
CHECK_DEADLOCK FALSE
