CONSTANTS
  sA = sA
  sB = sB
  sC = sC
  MaxItems = 3
  MaxEdits = 2
  Slugs = {sA, sB, sC}
  ItemChoices <- MCItems
  LiveChoices <- MCLive
SPECIFICATION Spec
INVARIANT ReferencesLive
INVARIANT LevelReady
INVARIANT LevelsPeel
INVARIANT BlockersExact
CHECK_DEADLOCK FALSE
