\* An editor, a replay and a batch.
SPECIFICATION Spec
CONSTANTS
  a1 = a1
  w1 = w1
  w2 = w2
  b1 = b1
  Editors <- OneEditor
  Replayers <- OneReplay
  Runners <- OneRunner
  MaxEdits = 1
  MaxReplays = 1
  Wipes = TRUE
INVARIANTS IInv HandleIsLent OnlyStraddlersGoStale
PROPERTIES ReplayWritesNothing
