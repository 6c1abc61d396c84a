CONSTANTS
    Prefix <- MCPrefix
    MarkerMax = 6
    MaxChunk = 2
    MaxErr = 1
SPECIFICATION Spec
INVARIANTS Verbatim OwnWritesBetween StderrNotStranded
CHECK_DEADLOCK FALSE
