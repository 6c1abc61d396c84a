CONSTANTS
  p1 = p1
  p2 = p2
  a1 = a1
  a2 = a2
  q1 = q1
  q2 = q2
  Candidates <- TwoCandidates
  Here <- OlderIsHere
  Attaches <- TwoAttaches
  Requests <- OneRequest
  Mishaps = 1
SPECIFICATION FairSpec
INVARIANTS OneTransport CallbacksKept HarmContained
PROPERTIES EveryAttachTold
CHECK_DEADLOCK FALSE
