\* Every tab that writes, one with something under way at a time.
SPECIFICATION FairSpec
CONSTANTS
  Callers <- OneTab
  MaxStrays = 1
  MaxOthers = 1
  Sections <- TwoSections
  Subjects <- TwoSubjects
  Visits <- EachScreen
  Asks <- TwoAsks
  Records <- TwoRecords
  Hopeless <- OneHopeless
  Amount = 2
  Entries <- SmallBooks
INVARIANTS TypeOK ShownIsLive NothingElseChanges ClearedMeansSaved AnswersTheQuestion HeadlineIsTrue PhaseIsReal LatestAnswerIsShown BalanceFlagIsRight DrillShowsTheCard
PROPERTIES ButtonsComeBack
