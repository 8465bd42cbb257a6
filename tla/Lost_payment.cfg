\* Live: the process may die between claiming a delivery and crediting it.
SPECIFICATION FairSpec
CONSTANTS
  r1 = r1
  r2 = r2
  Records <- OneRecord
  HardCap = 2
  Actions <- AllActions
  ContactActions <- Links
  Ladder <- TwoLinks
  StalledLadder <- Stalled
  OptedOut <- NoRecords
  Verdicts <- PassOnly
  Replies <- AllReplies
  RealEvents <- OnePayment
  Live = TRUE
  Failures = FALSE
  Crashes = TRUE
PROPERTY NoPaymentIsLost
