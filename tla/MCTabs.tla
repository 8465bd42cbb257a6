------------------------------- MODULE MCTabs -------------------------------
(* A small instance of Tabs for TLC. *)
EXTENDS Tabs

OneTab == {"tab"}
TwoSections == {1, 2}
TwoSubjects == {"x", "y"}
EachScreen == {{"rules"}, {"classify"}, {"lab", "checkout"}, {"views"}}
TwoAsks == {1, 2}
TwoRecords == {"r1", "r2"}
OneHopeless == {"r1"}
SmallBooks ==
  {[state |-> s, got |-> 0] : s \in {"AT_RISK", "CLOSED", "RECOVERED"}}
  \union {[state |-> "RECOVERED", got |-> g] : g \in 1 .. 3}
  \union {[state |-> "ESCALATED", got |-> 2]}
=============================================================================
