\* One thread that edits a rule and then, nothing else running, replays the batch.
SPECIFICATION Spec
CONSTANTS
  a1 = a1
  w1 = w1
  w2 = w2
  b1 = b1
  Editors <- OneReplay
  Replayers <- OneReplay
  Runners <- OneReplay
  MaxEdits = 1
  MaxReplays = 1
  Wipes = FALSE
PROPERTIES VariantStartsFromLive
