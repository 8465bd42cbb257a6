----------------------------- MODULE MCConsole -----------------------------
(* A small instance of Console for TLC. *)
EXTENDS Console

OnePage == {"page"}
TwoSlots == {1, 2}
=============================================================================
