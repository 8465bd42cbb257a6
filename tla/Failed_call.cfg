\* Dry run in which a write to Razorpay may fail.
SPECIFICATION FairSpec
CONSTANTS
  r1 = r1
  r2 = r2
  Records <- OneRecord
  HardCap = 2
  Actions <- AllActions
  ContactActions <- Links
  Ladder <- TwoLinks
  StalledLadder <- Stalled
  OptedOut <- NoRecords
  Verdicts <- PassOnly
  Replies <- AllReplies
  RealEvents <- NoEvents
  Live = FALSE
  Failures = TRUE
  Crashes = FALSE
PROPERTY FailedCallIsParked
