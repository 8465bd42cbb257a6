-------------------------------- MODULE Views --------------------------------
(***************************************************************************)
(* The views of the dashboard, which read only: the scoreboard with its    *)
(* charts (Dashboard.tsx, charts.tsx), the recovery queue (Queue.tsx), the *)
(* human queue, promises, evidence and the audit trail of a record.        *)
(*                                                                         *)
(* The page holds what its last refresh has read; the dashboard and the    *)
(* queues are drawn from that, the others, and the comparison with the     *)
(* baseline on the dashboard, from a request of their own.  The money on   *)
(* the scoreboard is computed as measure/scoreboard.py does.               *)
(***************************************************************************)
EXTENDS Naturals, FiniteSets

CONSTANTS
  Records,    \* the records of the batch; those visitors submit are left out
  Hopeless,   \* those whose cause is in UNRECOVERABLE_CAUSES
  Amount,     \* what each of them owes
  Entries     \* the states and credits the books may show: a bound

Untried == [state |-> "AT_RISK", got |-> 0]

ASSUME ViewsAssumption ==
  /\ IsFiniteSet(Records)
  /\ Hopeless \subseteq Records
  /\ Amount \in Nat \ {0}
  /\ Untried \in Entries
  /\ Entries \subseteq
       [state : {"AT_RISK", "PROMISED", "ESCALATED", "CLOSED", "RECOVERED"},
        got : 0 .. 2 * Amount]

VARIABLES
  seen,     \* seen[r]: the state of r, and what was credited for it
  view,     \* the view that is up, or "none"
  filter,   \* the filter of the queue
  search,   \* what is searched for: "nothing", or a record, which it matches
  drilled,  \* history: the queue is as a card of the dashboard opened it
  loads,    \* the requests of the view in flight: the one for what is "wanted", and
            \* one it has "superseded"
  got,      \* the answer shown: "none", the one "wanted", or an "outdated" one
  broken    \* the view shows that a request has failed

viewVars == <<seen, view, filter, search, drilled, loads, got, broken>>

\* The views with a request of their own.
Asking == {"dashboard", "promises", "evidence", "audit"}
Filters == {"all"} \union {e.state : e \in Entries}

-----------------------------------------------------------------------------
(* Scoreboard.compute, over the books b: each record is in one bucket. *)

Recovered(b) == {r \in Records : b[r].state = "RECOVERED" /\ b[r].got > 0}
Organic(b) == {r \in Records : b[r].state = "RECOVERED" /\ b[r].got = 0}
WrittenOff(b) ==
  {r \in Records : b[r].state # "RECOVERED" /\ (r \in Hopeless \/ b[r].state = "CLOSED")}
StillOpen(b) == Records \ (Recovered(b) \union Organic(b) \union WrittenOff(b))

Owed(rs) == Amount * Cardinality(rs)

\* The sum of the amounts in f, by counting their rupees.
Rupees(f) == UNION {{x} \X (1 .. f[x]) : x \in DOMAIN f}
Total(f) == Cardinality(Rupees(f))

RecoveredMoney(b) == Total([r \in Recovered(b) |-> b[r].got])

\* Mutation: the rest of a part payment, whatever its sign.
OpenMoneySigned(b) == Owed(StillOpen(b)) + Owed(Recovered(b)) - RecoveredMoney(b)

\* What is missing from a part payment is still open.
Missing(n) == IF n < Amount THEN Amount - n ELSE 0

OpenMoney(b) ==
  Owed(StillOpen(b)) + Total([r \in Recovered(b) |-> Missing(b[r].got)])

\* The segments of the money band, each drawn as its share of the three.
Segments(b) ==
  [green |-> RecoveredMoney(b), amber |-> OpenMoney(b), hatch |-> Owed(WrittenOff(b))]

\* balances: every rupee is in exactly one bucket.  Money that came by itself is in
\* none of the three segments.
Balances(b) ==
  LET band == Segments(b)
  IN band.green + Owed(Organic(b)) + band.amber + band.hatch = Owed(Records)

\* The cards of the dashboard, by the filter they open the queue with.
Counted(b, f) ==
  CASE f = "all" -> Records
    [] f = "RECOVERED" -> Recovered(b)
    [] f = "AT_RISK" -> StillOpen(b)
    [] f = "CLOSED" -> WrittenOff(b)

Cards == {"all", "RECOVERED", "AT_RISK", "CLOSED"} \intersect Filters

\* The rows of the queue.  The filters that look at the guardrails or at the kind
\* of leak are left out.
Rows(b, f, q) ==
  {r \in Records : (f = "all" \/ b[r].state = f) /\ (q = "nothing" \/ q = r)}

-----------------------------------------------------------------------------
\* The page opens on a batch as it was generated; a refresh may find any other.
ViewsInit ==
  /\ seen = [r \in Records |-> Untried]
  /\ view = "none"
  /\ filter = "all" /\ search = "nothing" /\ drilled = FALSE
  /\ loads = {} /\ got = "none" /\ broken = FALSE

\* A view is mounted: it asks, if it has something to ask; what the view before it
\* was still waiting for is nobody's.
Mount(v) ==
  /\ view' = v
  /\ loads' = IF v \in Asking THEN {"wanted"} ELSE {}
  /\ got' = "none" /\ broken' = FALSE

\* The page has refreshed.  The dashboard compares again when the money recovered
\* has changed.
Refreshed(b) ==
  /\ seen' = b
  /\ IF view = "dashboard" /\ RecoveredMoney(b) # RecoveredMoney(seen)
       THEN /\ loads' = {"wanted"} \union (IF loads = {} THEN {} ELSE {"superseded"})
            /\ got' = IF got = "none" THEN "none" ELSE "outdated"
       ELSE UNCHANGED <<loads, got>>
  /\ UNCHANGED <<view, filter, search, drilled, broken>>

\* setTab, from the menu; "none" is a screen that writes.
GoTo(v) ==
  /\ view # v
  /\ Mount(v)
  /\ drilled' = FALSE
  /\ UNCHANGED <<seen, filter, search>>

\* Mutation: what was searched for is kept.
DrillAndSearch(f) ==
  /\ view = "dashboard"
  /\ Mount("queue")
  /\ filter' = f /\ drilled' = TRUE
  /\ UNCHANGED <<seen, search>>

\* drill: a card of the dashboard opens the queue.
Drill(f) ==
  /\ view = "dashboard"
  /\ Mount("queue")
  /\ filter' = f /\ search' = "nothing" /\ drilled' = TRUE
  /\ UNCHANGED seen

\* The search box of the header: a word of it goes to the queue.
SearchFor(q) ==
  /\ search' = q /\ search # q
  /\ IF q # "nothing" /\ view # "queue" THEN Mount("queue")
     ELSE UNCHANGED <<view, loads, got, broken>>
  /\ drilled' = FALSE
  /\ UNCHANGED <<seen, filter>>

\* The filter bar, with its counts, is the queue's.
ChooseFilter(f) ==
  /\ view = "queue" /\ filter # f
  /\ filter' = f /\ drilled' = FALSE
  /\ UNCHANGED <<seen, view, search, loads, got, broken>>

\* The rows of the human queue, ranked by the API, and those of the promise book and
\* of the replies, any of which may be there; empty after a request that failed.
Desk(b) == {r \in Records : b[r].state = "ESCALATED"}
Book == IF got = "wanted" THEN Records ELSE {}

\* The rows of the view, each of which can be clicked.
Listed ==
  CASE view = "queue" -> Rows(seen, filter, search)
    [] view = "human" -> Desk(seen)
    [] view = "promises" -> Book
    [] OTHER -> {}

\* openAudit: a row of a list is clicked.  The audit trail lists nothing to click,
\* so that another record is never opened in the same one.
OpenAudit ==
  /\ Listed # {}
  /\ Mount("audit")
  /\ drilled' = FALSE
  /\ UNCHANGED <<seen, filter, search>>

\* The answer, or the answers, to what the view asked.
ViewAnswered ==
  /\ "wanted" \in loads
  /\ loads' = loads \ {"wanted"}
  /\ got' = "wanted"
  /\ UNCHANGED <<seen, view, filter, search, drilled, broken>>

\* Nothing resets this but leaving the view.
ViewFails ==
  /\ "wanted" \in loads
  /\ loads' = loads \ {"wanted"}
  /\ broken' = TRUE
  /\ UNCHANGED <<seen, view, filter, search, drilled, got>>

\* Mutation: the effect has no clean-up.
LateAnswerShown ==
  /\ "superseded" \in loads
  /\ loads' = loads \ {"superseded"}
  /\ got' = "outdated"
  /\ UNCHANGED <<seen, view, filter, search, drilled, broken>>

\* The answer to the request of an effect that was cleaned up, or its failure.
LateAnswer ==
  /\ "superseded" \in loads
  /\ loads' = loads \ {"superseded"}
  /\ UNCHANGED <<seen, view, filter, search, drilled, got, broken>>

\* What the card for the view's request holds.  Promises and evidence show a request
\* that failed as an empty list.  The other cards of the dashboard that are drawn
\* from the comparison do not ask whether the last one failed.
MainCard ==
  CASE broken /\ view \in {"promises", "evidence"} -> "empty"
    [] broken /\ view \in {"dashboard", "audit"} -> "unavailable"
    [] ~broken /\ got = "none" -> "skeleton"
    [] OTHER -> got

ViewSteps ==
  \/ \E b \in [Records -> Entries] : Refreshed(b)
  \/ \E v \in Asking \union {"queue", "human", "none"} : v # "audit" /\ GoTo(v)
  \/ \E f \in Cards : Drill(f)
  \/ \E q \in Records \union {"nothing"} : SearchFor(q)
  \/ \E f \in Filters : ChooseFilter(f)
  \/ OpenAudit
  \/ ViewAnswered \/ ViewFails \/ LateAnswer

-----------------------------------------------------------------------------
ViewsTypeOK ==
  /\ seen \in [Records -> Entries]
  /\ view \in Asking \union {"queue", "human", "none"}
  /\ filter \in Filters /\ search \in Records \union {"nothing"}
  /\ loads \subseteq {"wanted", "superseded"}
  /\ got \in {"none", "wanted", "outdated"}
  /\ {drilled, broken} \subseteq BOOLEAN

\* A view that is not waiting shows the answer to what it last asked, or none: a
\* comparison with figures that are gone, or the trail of the record opened before,
\* is never left on screen, nor are the skeletons.
LatestAnswerIsShown ==
  view \in Asking /\ "wanted" \notin loads =>
    MainCard \in {"wanted", "unavailable", "empty"}

\* The scoreboard balances when, and only when, no record was credited with more
\* than it owes: money that came by itself, part payments and credits of a record
\* that was then taken for open or closed upset nothing, and a payment that was
\* credited twice shows.
BalanceFlagIsRight ==
  Balances(seen) <=>
    \A r \in Records : seen[r].state = "RECOVERED" => seen[r].got <= Amount

\* A card of the dashboard that counts all records, or the recovered ones, opens
\* the queue with every record it counted on it.
DrillShowsTheCard ==
  drilled /\ filter \in {"all", "RECOVERED"} =>
    Counted(seen, filter) \subseteq Rows(seen, filter, search)
=============================================================================
