\* Dry run, two records, one of an opted-out customer, no faults.
SPECIFICATION FairSpec
CONSTANTS
  r1 = r1
  r2 = r2
  Records <- TwoRecords
  HardCap = 2
  Actions <- AllActions
  ContactActions <- Links
  Ladder <- LinksAndRetry
  StalledLadder <- StalledRetry
  OptedOut <- SecondRecord
  Verdicts <- PassOnly
  Replies <- AllReplies
  RealEvents <- NoEvents
  Live = FALSE
  Failures = FALSE
  Crashes = FALSE
PROPERTY EveryRecordSettles
