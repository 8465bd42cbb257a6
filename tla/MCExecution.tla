---------------------------- MODULE MCExecution ----------------------------
(* Small instances of Execution for TLC. *)
EXTENDS Execution, TLC

CONSTANTS w1, w2, link, order, escalation

TwoWorkers == {w1, w2}
WorkerSymmetry == Permutations(TwoWorkers)
AllKinds == {link, order, escalation}
OneLink == {link}
Escalation == {escalation}
=============================================================================
