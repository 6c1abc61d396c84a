CONSTANTS
  Positions = {0, 1}
  Budgets <- AllScenarios
  FastScroll = TRUE
  Spinner = TRUE
  CursorFollow = TRUE
  Batched = TRUE
  SilentFloats = FALSE
  FailFirst = FALSE
  MaxPipe = 3
SPECIFICATION FairSpec
INVARIANTS ScrollNeverStuck FrameIsPicture AwayShowsNothing
PROPERTIES Converges
CHECK_DEADLOCK FALSE
