CONSTANTS
  d1 = d1
  d2 = d2
  r1 = r1
  r2 = r2
  none = none
  Documents <- MCDocuments
  Revisions <- MCRevisions
  NoRevision = none
  MaxDocuments = 1
  MaxPendingPerLane = 2
  MaxRequests = 4
SPECIFICATION Spec
SYMMETRY MCSymmetry
INVARIANTS IInv NoSlotLeak
PROPERTIES RefinesLatestWins StaleIsFinal
CHECK_DEADLOCK FALSE
