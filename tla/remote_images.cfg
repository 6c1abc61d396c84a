CONSTANTS
    Urls = {"u1", "u2", "b"}
    Blocked = {"b"}
    Docs <- MCDocs
    MaxBytes = 1
    MaxCacheBytes = 1
    MaxCacheEntries = 2
    MaxRedirects = 1
    Timeout = 2
    NegativeTtl = 2
    TransientTtl = 1
    RetryDelay = 1
    MaxEdits = 3
    MaxFetches = 3
    MaxCount = 4
SPECIFICATION Spec
INVARIANTS HeldWithinBudget DeadlineHolds
PROPERTIES PlaceholdersEnd
CHECK_DEADLOCK FALSE
