SPECIFICATION FairSpec
CONSTANTS
  None = None
  Pages <- MCPages
  Matches <- MCMatches
  Clicks <- MCClicks
  Width = 100
  Readers <- MCReaders
INVARIANTS HighlightIsSelection HighlightCovers CaretFollowsKeys FindAgrees
PROPERTIES KeysAnswered
CHECK_DEADLOCK FALSE
