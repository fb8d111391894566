\* One request at a time over three baselines.
SPECIFICATION Spec
CONSTANTS
    Calls = {c1}
    MaxBaselines = 3
    MaxNumber = 3
PROPERTIES
    ArchiveKeepsPointer
