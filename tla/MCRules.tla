------------------------------ MODULE MCRules ------------------------------
(* Small instances of RulesStudio for TLC. *)
EXTENDS RulesStudio

CONSTANTS a1, w1, w2, b1

OneEditor == {a1}
OneReplay == {w1}
TwoReplays == {w1, w2}
OneRunner == {b1}
=============================================================================
