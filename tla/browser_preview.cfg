CONSTANTS
  h1 = h1
  Probes <- OneProbe
  Scales = {1, 2}
  MaxMade = 4
SPECIFICATION Spec
INVARIANTS ContextSound
CHECK_DEADLOCK FALSE
