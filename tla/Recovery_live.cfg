\* Live: Razorpay's events race the batch, late, doubled, across failed calls and crashes.
SPECIFICATION FairSpec
CONSTANTS
  r1 = r1
  r2 = r2
  Records <- OneRecord
  HardCap = 2
  Actions <- AllActions
  ContactActions <- Links
  Ladder <- TwoLinks
  StalledLadder <- Stalled
  OptedOut <- NoRecords
  Verdicts <- PassOnly
  Replies <- AllReplies
  RealEvents <- Reported
  Live = TRUE
  Failures = TRUE
  Crashes = TRUE
PROPERTIES CreditIsPermanent PaymentIsBooked
