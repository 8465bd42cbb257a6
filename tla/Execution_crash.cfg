\* Two processes, one key of each kind, crashes anywhere; the link may land late.
SPECIFICATION Spec
CONSTANTS
  w1 = w1
  w2 = w2
  link = link
  order = order
  escalation = escalation
  Callers <- TwoWorkers
  Keys <- AllKinds
  LinkKeys <- OneLink
  ContactKeys <- OneLink
  RecordOnlyKeys <- Escalation
  MaxAttempts = 3
  LateKeys <- OneLink
  Crashes = TRUE
SYMMETRY WorkerSymmetry
INVARIANTS IInv NoDoubleCharge NoDoubleContact LedgerIsTruthful
PROPERTIES OncePerKeySpec ClaimIsRecorded
