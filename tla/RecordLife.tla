----------------------------- MODULE RecordLife -----------------------------
(***************************************************************************)
(* The life of an at-risk record as an outsider may rely on it, with no    *)
(* mention of ticks, snapshots, sessions, threads or crashes: who has to   *)
(* do with it, whether it lies on the desk of a person, what was tried for *)
(* it, and which of the tries was credited with money.                     *)
(*                                                                         *)
(* A try is a triple whose first element is its record.                    *)
(***************************************************************************)
CONSTANTS Records, Tries

VARIABLES
  owner,     \* owner[r]: "agent", "person", "nobody" (closed) or "paid"
  desk,      \* records with an open row in the human queue
  tried,     \* tries that were begun
  credited   \* tries that money was credited to

vars == <<owner, desk, tried, credited>>

Init ==
  /\ owner = [r \in Records |-> "agent"]
  /\ desk = {}
  /\ tried = {}
  /\ credited = {}

Give(r, to) == owner' = [owner EXCEPT ![r] = to]

\* A record is tried while it is the agent's, or else for the first time: the
\* fixture a tick falls back on holds every record, but names the first try only.
Try(i) ==
  /\ i \notin tried
  /\ owner[i[1]] = "agent" \/ \A j \in tried : j[1] # i[1]
  /\ tried' = tried \union {i}
  /\ UNCHANGED <<owner, desk, credited>>

HandOver(r) ==
  /\ owner[r] = "agent"
  /\ Give(r, "person")
  /\ desk' = desk \union {r}
  /\ UNCHANGED <<tried, credited>>

\* A promise hands the record back to the agent; its row stays on the desk.
TakeBack(r) ==
  /\ owner[r] = "person"
  /\ Give(r, "agent")
  /\ UNCHANGED <<desk, tried, credited>>

GiveUp(r) ==
  /\ owner[r] = "agent"
  /\ Give(r, "nobody")
  /\ desk' = desk \ {r}
  /\ UNCHANGED <<tried, credited>>

\* Money that came through a try is welcome whoever has the record, once a try.
PayFor(i) ==
  /\ i \in tried \ credited
  /\ Give(i[1], "paid")
  /\ desk' = desk \ {i[1]}
  /\ credited' = credited \union {i}
  /\ UNCHANGED tried

\* Money nobody prompted is credited to no try.
PayUnprompted(r) ==
  /\ owner[r] \in {"agent", "person"}
  /\ Give(r, "paid")
  /\ desk' = desk \ {r}
  /\ UNCHANGED <<tried, credited>>

Next ==
  \/ \E i \in Tries : Try(i) \/ PayFor(i)
  \/ \E r \in Records : HandOver(r) \/ TakeBack(r) \/ GiveUp(r) \/ PayUnprompted(r)

Spec == Init /\ [][Next]_vars
=============================================================================
