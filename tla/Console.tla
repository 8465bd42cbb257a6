------------------------------- MODULE Console -------------------------------
(***************************************************************************)
(* The page shell (ui/src/app/page.tsx): it reads the numbers and the      *)
(* health of the API in one refresh of parallel GETs, shows a banner while *)
(* a job runs, and keeps one timer that asks again while there is a reason *)
(* to.  Its buttons start a job, advance the clock or flip the kill        *)
(* switch.  The server (api/app.py) runs one job at a time; other people   *)
(* use it too.                                                             *)
(*                                                                         *)
(* The three GETs that read the records stand as one, "numbers".           *)
(***************************************************************************)
EXTENDS ApiCall

CONSTANTS
  MaxPolls,   \* MAX_POLLS
  Slots       \* the refreshes that may be in flight at once: a bound

ASSUME ConsoleAssumption ==
  /\ MaxPolls \in Nat
  /\ Slots \subseteq Nat /\ 1 \in Slots
  /\ "page" \in Callers

VARIABLES
  job,        \* the server: a batch, a tick, a replay ... holds _seed_lock; the flag
              \* that health reports is set and cleared with it
  board,      \* the numbers shown: "none", "whole", "partial" (read while a job
              \* ran) or "torn" (partial, in a refresh that saw no job as well)
  health,     \* the last health shown
  connected,  \* "unknown", "yes" or "no"
  seeding,    \* the banner: a job is running
  busy,       \* the button whose act() is pending, or "none"
  error,      \* the red banner: "none", "refresh" or "act"
  timer,      \* a poll is scheduled
  polls,      \* polls.current
  gaveUp,     \* history: the poll effect saw polls.current past MAX_POLLS
  reads       \* reads[s]: a refresh in flight and what it has got

pageVars == <<board, health, connected, seeding, busy, error, timer, polls,
              gaveUp, reads>>
vars == <<callVars, job, pageVars>>

\* Run batch and the clock buttons, which differ in their job, and the kill switch.
Buttons == {"job", "kill"}
NoRead == [for |-> "nobody", numbers |-> "none", health |-> "none"]

Reading(s) == reads[s].for # "nobody"
Waiting == connected # "yes" \/ seeding

\* Mutation: nobody gives up.
RearmForEver(p) ==
  /\ polls' = IF Waiting' THEN p ELSE 0
  /\ timer' = Waiting'
  /\ gaveUp' = FALSE

\* The poll effect, which runs when beat, connected or seeding has changed: it
\* clears the old timer and sets one while there is a reason to ask again.
Rearm(p) ==
  /\ polls' = IF Waiting' THEN p ELSE 0
  /\ timer' = (Waiting' /\ p <= MaxPolls)
  /\ gaveUp' = (Waiting' /\ p > MaxPolls)

\* refresh(): the four GETs leave together.
StartRefresh(for) ==
  \E s \in Slots :
    /\ ~Reading(s)
    /\ \A t \in Slots : t < s => Reading(t)
    /\ reads' = [reads EXCEPT ![s] = [NoRead EXCEPT !.for = for]]

Init ==
  /\ CallInit /\ job \in BOOLEAN
  /\ board = "none" /\ health = "none"
  /\ connected = "unknown" /\ seeding = FALSE
  /\ busy = "none" /\ error = "none"
  /\ timer = TRUE /\ polls = 0 /\ gaveUp = FALSE
  /\ reads = [s \in Slots |->
                IF s = 1 THEN [NoRead EXCEPT !.for = "poll"] ELSE NoRead]

-----------------------------------------------------------------------------
\* GET /api/scoreboard, /api/records and /api/human-queue, answered now.
ReadNumbers(s) ==
  /\ Reading(s)
  /\ reads[s].numbers = "none"
  /\ reads' = [reads EXCEPT ![s].numbers =
                 CASE ~job -> "whole"
                   [] job /\ reads[s].health = "quiet" -> "torn"
                   [] OTHER -> "partial"]
  /\ UNCHANGED <<callVars, job, board, health, connected, seeding, busy, error, timer,
                 polls, gaveUp>>

\* GET /api/health, answered now.
ReadHealth(s) ==
  /\ Reading(s)
  /\ reads[s].health = "none"
  /\ reads' = [reads EXCEPT ![s].health = IF job THEN "seeding" ELSE "quiet"]
  /\ UNCHANGED <<callVars, job, board, health, connected, seeding, busy, error, timer,
                 polls, gaveUp>>

\* act() awaits its own refresh; the polls' answers end nothing.
EndRefresh(s) ==
  /\ reads' = [reads EXCEPT ![s] = NoRead]
  /\ busy' = IF reads[s].for = "act" THEN "none" ELSE busy

\* All four answers are in.
RefreshDone(s) ==
  /\ reads[s].numbers # "none"
  /\ reads[s].health # "none"
  /\ EndRefresh(s)
  /\ board' = reads[s].numbers
  /\ health' = reads[s].health
  /\ error' = "none"
  /\ connected' = "yes"
  /\ seeding' = (reads[s].health = "seeding")
  /\ Rearm(polls)
  /\ UNCHANGED <<callVars, job>>

\* Mutation: beat is bumped after a good answer only.
RefreshFailsUnheard(s) ==
  /\ Reading(s)
  /\ EndRefresh(s)
  /\ error' = "refresh"
  /\ connected' = "no"
  /\ seeding' = FALSE
  /\ IF <<connected, seeding>> # <<"no", FALSE>>
       THEN Rearm(polls)
       ELSE UNCHANGED <<polls, timer, gaveUp>>
  /\ UNCHANGED <<callVars, job, board, health>>

\* Mutation: the page stays "live" when a refresh of its own click fails.
RefreshFailsQuietly(s) ==
  /\ Reading(s)
  /\ EndRefresh(s)
  /\ error' = "refresh"
  /\ connected' = IF reads[s].for = "act" THEN connected ELSE "no"
  /\ seeding' = FALSE
  /\ Rearm(polls)
  /\ UNCHANGED <<callVars, job, board, health>>

\* One of the four fails or times out.
RefreshFails(s) ==
  /\ Reading(s)
  /\ EndRefresh(s)
  /\ error' = "refresh"
  /\ connected' = "no"
  /\ seeding' = FALSE
  /\ Rearm(polls)
  /\ UNCHANGED <<callVars, job, board, health>>

\* Mutation: the polls are not counted.
PollUncounted ==
  /\ timer
  /\ timer' = FALSE
  /\ StartRefresh("poll")
  /\ UNCHANGED <<callVars, job, board, health, connected, seeding, busy, error, polls,
                 gaveUp>>

\* The timer fires.
Poll ==
  /\ timer
  /\ timer' = FALSE
  /\ polls' = polls + 1
  /\ StartRefresh("poll")
  /\ UNCHANGED <<callVars, job, board, health, connected, seeding, busy, error, gaveUp>>

\* A screen of the page calls refresh() once a write of its own was taken.
TabChanged ==
  /\ board # "none"
  /\ StartRefresh("poll")
  /\ UNCHANGED <<callVars, job, board, health, connected, seeding, busy, error, timer,
                 polls, gaveUp>>

-----------------------------------------------------------------------------
\* The buttons are disabled while one is busy or a job runs; the kill switch also
\* until the health is known.
Enabled(b) ==
  /\ busy = "none" /\ ~seeding
  /\ b = "kill" => health # "none"

\* act(), up to the await of the POST.
Click(b) ==
  /\ Enabled(b)
  /\ Send("page", [kind |-> b])
  /\ busy' = b
  /\ UNCHANGED <<job, board, health, connected, seeding, error, timer, polls, gaveUp,
                 reads>>

\* The API accepted: the banner goes up at once, and a refresh is awaited.
ActAccepted ==
  /\ Returns("page", "done")
  /\ seeding' = TRUE
  /\ error' = "none"
  /\ StartRefresh("act")
  /\ UNCHANGED connected
  /\ IF seeding THEN polls' = 0 /\ UNCHANGED <<timer, gaveUp>> ELSE Rearm(0)
  /\ UNCHANGED <<job, board, health, busy>>

\* 409: something else is running, which is information and not an error.
ActBusy ==
  /\ Returns("page", "busy")
  /\ seeding' = TRUE
  /\ busy' = "none"
  /\ UNCHANGED connected
  /\ IF seeding THEN polls' = 0 /\ UNCHANGED <<timer, gaveUp>> ELSE Rearm(0)
  /\ UNCHANGED <<job, board, health, error, reads>>

\* Mutation: no finally block.
ActFailsBusy ==
  /\ Returns("page", "denied") \/ GivesUp("page")
  /\ error' = "act"
  /\ UNCHANGED <<job, board, health, connected, seeding, busy, timer, polls, gaveUp,
                 reads>>

\* Anything else is shown.
ActFails ==
  /\ Returns("page", "denied") \/ GivesUp("page")
  /\ error' = "act"
  /\ busy' = "none"
  /\ UNCHANGED <<job, board, health, connected, seeding, timer, polls, gaveUp, reads>>

-----------------------------------------------------------------------------
\* The endpoints: a job takes the lock or is refused; the kill switch needs the
\* token only, and its position is left out.
Verdict(w, with) == Answer(w, with, IF w.kind = "job" /\ job THEN "busy" ELSE "done")

\* The server handles a write of the page, awaited or not.
ServerWrite ==
  /\ \E r \in {"done", "busy", "denied"}, b \in Buttons :
       /\ job' = (job \/ (b = "job" /\ r = "done"))
       /\ \/ /\ call["page"].what.kind = b
             /\ r = Verdict(call["page"].what, call["page"].with)
             /\ Serve("page", r)
          \/ \E s \in stray :
               /\ s.what.kind = b
               /\ r = Verdict(s.what, s.with)
               /\ ServeStray(s, r)
  /\ UNCHANGED pageVars

\* Somebody else's job takes the lock: the wrapper of _in_background, the replay ...
OthersJob == ~job /\ job' = TRUE /\ UNCHANGED <<callVars, pageVars>>

\* ... and every job ends: _end().
EndJob ==
  /\ job /\ job' = FALSE
  /\ reads' = [s \in Slots |->
                 IF reads[s].numbers = "partial" /\ reads[s].health = "none"
                   THEN [reads[s] EXCEPT !.numbers = "torn"] ELSE reads[s]]
  /\ UNCHANGED <<callVars, board, health, connected, seeding, busy, error, timer,
                 polls, gaveUp>>

PageCall ==
  /\ AskForAdminToken("page") \/ LoseStray
  /\ UNCHANGED <<job, pageVars>>

Next ==
  \/ \E s \in Slots :
       ReadNumbers(s) \/ ReadHealth(s) \/ RefreshDone(s) \/ RefreshFails(s)
  \/ Poll \/ TabChanged
  \/ \E b \in Buttons : Click(b)
  \/ ActAccepted \/ ActBusy \/ ActFails
  \/ PageCall \/ ServerWrite
  \/ OthersJob \/ EndJob

Spec == Init /\ [][Next]_vars

\* Every request ends, by its answer or its time limit; timers fire; a job ends.
\* Nobody has to click, and nothing says that a refresh succeeds.
FairSpec ==
  /\ Spec
  /\ \A s \in Slots : WF_vars(RefreshFails(s))
  /\ WF_vars(Poll)
  /\ WF_vars(ActAccepted) /\ WF_vars(ActBusy) /\ WF_vars(ActFails)
  /\ WF_vars(EndJob)

-----------------------------------------------------------------------------
TypeOK ==
  /\ CallTypeOK
  /\ job \in BOOLEAN
  /\ board \in {"none", "partial", "torn", "whole"}
  /\ connected \in {"unknown", "yes", "no"}
  /\ {seeding, timer, gaveUp} \subseteq BOOLEAN
  /\ health \in {"none", "seeding", "quiet"}
  /\ busy \in Buttons \union {"none"}
  /\ error \in {"none", "refresh", "act"}
  /\ polls \in 0 .. MaxPolls + 1
  /\ \A s \in Slots : reads[s].for \in {"nobody", "poll", "act"}

\* The page is never left waiting with nothing under way, which is how one slow
\* cold start became a page stuck on skeletons; only MAX_POLLS ends the asking.
NeverDeaf == Waiting => timer \/ gaveUp \/ \E s \in Slots : Reading(s)

\* No banner over numbers of a job that was still running when they were read and
\* when the health was: a settled look was earned by the refresh on screen.  A job
\* that ends, or begins, between the two reads of one refresh tears it: then the
\* page can look settled over half a batch.
SettledLookIsSettled == connected = "yes" /\ ~seeding => board # "partial"

\* A click ends, whatever the server does.
BusyEnds == busy # "none" ~> busy = "none"

\* Both reasons to ask again end on their own: a page nobody touches falls silent.
PollingEnds ==
  <>[](busy = "none") /\ <>[][~TabChanged]_vars => <>[]~timer
=============================================================================
