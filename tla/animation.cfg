CONSTANTS
    Shas = {"even", "uneven", "still"}
    Clip <- MCClip
    SourceBytes <- MCSourceBytes
    Docs <- MCDocs
    Others = {"even"}
    Sizes = {1, 2}
    frameBudget <- MCFrameBudget
    MaxSourceStoreBytes = 2
    MaxFrameStoreBytes = 6
    MaxPerDocument = 2
    MaxEdits = 3
    MaxErrors = 1
SPECIFICATION Spec
INVARIANTS BooksMatchDisk PlaysAsLong TroubleIsForgotten
PROPERTIES EveryImagePlays
CHECK_DEADLOCK FALSE
