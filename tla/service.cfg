CONSTANTS
  d1 = d1
  d2 = d2
  none = none
  Documents <- TwoDocuments
  NoRevision = none
  MaxDocuments = 2
  MaxPendingPerLane = 2
  MaxRequests = 3
  MaxCachedDocuments = 2
  MaxDocumentFrames = 2
  MaxRevision = 2
  Methods <- DirectMethods
  Actions = {"selection"}
  RemoteImages = FALSE
SPECIFICATION Spec
SYMMETRY Symmetry
INVARIANTS StaleExactlyIfOvertaken AnswersAreOwn
PROPERTIES KeepsThePromise
CHECK_DEADLOCK FALSE
