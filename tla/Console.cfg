\* The page, two refreshes at a time, and a server others use too.
SPECIFICATION FairSpec
CONSTANTS
  Callers <- OnePage
  MaxStrays = 1
  MaxPolls = 1
  Slots <- TwoSlots
INVARIANTS TypeOK NeverDeaf SettledLookIsSettled WriteAtMostOnce
PROPERTIES BusyEnds PollingEnds
