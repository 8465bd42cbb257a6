\* Dry run, one record, every verdict and reply, failed calls and crashes.
SPECIFICATION Spec
CONSTANTS
  r1 = r1
  r2 = r2
  Records <- OneRecord
  HardCap = 2
  Actions <- AllActions
  ContactActions <- Links
  Ladder <- ThreeLinks
  StalledLadder <- Stalled
  OptedOut <- NoRecords
  Verdicts <- AllVerdicts
  Replies <- AllReplies
  RealEvents <- NoEvents
  Live = FALSE
  Failures = TRUE
  Crashes = TRUE
INVARIANTS TypeOK SettledIsNobodysWork EscalatedIsSomebodysWork AttemptsAreReal OneUnanswered CapHolds OneCreditPerPayment
PROPERTIES PromiseIsRespected RecordLifeSpec LetGoIsLeftAlone
