\* Live: one payment on the first of two links, reported by two events.
SPECIFICATION Spec
CONSTANTS
  r1 = r1
  r2 = r2
  Records <- OneRecord
  HardCap = 2
  Actions <- AllActions
  ContactActions <- Links
  Ladder <- TwoLinks
  StalledLadder <- Stalled
  OptedOut <- NoRecords
  Verdicts <- PassOnly
  Replies <- AllReplies
  RealEvents <- PaymentAndFailure
  Live = TRUE
  Failures = FALSE
  Crashes = FALSE
INVARIANT OneCreditPerPayment
