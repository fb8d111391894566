\* Two requests at a time over two baselines, version numbers up to three; states with more
\* than four versions are not followed.
SPECIFICATION Spec
CONSTANTS
    Calls = {c1, c2}
    MaxBaselines = 2
    MaxNumber = 3
SYMMETRY Symmetric
CONSTRAINT FewVersions
INVARIANTS
    TypeOK
    VersionsAreThere
PROPERTIES
    CurrentIsKept
