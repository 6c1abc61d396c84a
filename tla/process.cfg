CONSTANTS
  Procs <- TwoProcs
  MaxRequests = 2
  MaxCloses = 1
  MaxFailures = 1
SPECIFICATION FairSpec
INVARIANTS CalledBackOnce NoGhostSelection
PROPERTIES RendererGoes
CHECK_DEADLOCK FALSE
