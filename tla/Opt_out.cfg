\* Dry run in which a customer may ask us to stop.
SPECIFICATION Spec
CONSTANTS
  r1 = r1
  r2 = r2
  Records <- OneRecord
  HardCap = 2
  Actions <- AllActions
  ContactActions <- Links
  Ladder <- TwoLinks
  StalledLadder <- Stalled
  OptedOut <- NoRecords
  Verdicts <- PassOnly
  Replies <- AllReplies
  RealEvents <- NoEvents
  Live = FALSE
  Failures = FALSE
  Crashes = FALSE
PROPERTY OptOutIsFinal
