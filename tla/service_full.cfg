CONSTANTS
  d1 = d1
  d2 = d2
  none = none
  Documents <- TwoDocuments
  NoRevision = none
  MaxDocuments = 1
  MaxPendingPerLane = 1
  MaxRequests = 3
  MaxCachedDocuments = 1
  MaxDocumentFrames = 1
  MaxRevision = 1
  Methods <- AllMethods
  Actions = {"find"}
  RemoteImages = TRUE
SPECIFICATION FairSpec
INVARIANTS InteractionStateCurrent
PROPERTIES EveryRequestAnswered
CHECK_DEADLOCK FALSE
