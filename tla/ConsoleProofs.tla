---------------------------- MODULE ConsoleProofs ----------------------------
(***************************************************************************)
(* Proofs about Console, for any number of polls, of refreshes in flight   *)
(* and of writes that were given up on: the page is never left waiting for *)
(* nothing, never looks settled over numbers it knew to be partial, and no *)
(* click is done twice by the server.                                      *)
(***************************************************************************)
EXTENDS Console, ApiCallProofs

Writes == [kind : Buttons \union {"nothing"}]

-----------------------------------------------------------------------------
Read == [for : {"nobody", "poll", "act"}, numbers : {"none", "whole", "partial", "torn"},
         health : {"none", "seeding", "quiet"}]

PageShape ==
  /\ job \in BOOLEAN
  /\ board \in {"none", "partial", "torn", "whole"}
  /\ health \in {"none", "seeding", "quiet"}
  /\ connected \in {"unknown", "yes", "no"}
  /\ seeding \in BOOLEAN /\ timer \in BOOLEAN /\ gaveUp \in BOOLEAN
  /\ busy \in Buttons \union {"none"}
  /\ error \in {"none", "refresh", "act"}
  /\ polls \in 0 .. MaxPolls + 1
  /\ timer => polls <= MaxPolls
  /\ reads \in [Slots -> Read]

\* A refresh that read numbers of a job's middle has seen the job, or will.
PartialIsKnown ==
  \A s \in Slots :
    reads[s].numbers = "partial" =>
      reads[s].health = "seeding" \/ (reads[s].health = "none" /\ job)

PageInv == PageShape /\ PartialIsKnown /\ NeverDeaf /\ SettledLookIsSettled

-----------------------------------------------------------------------------
\* The poll effect, whatever it is told of the polls so far.
LEMMA RearmKeeps ==
  ASSUME NEW p \in 0 .. MaxPolls + 1, Waiting' \in BOOLEAN, Rearm(p)
  PROVE  /\ polls' \in 0 .. MaxPolls + 1 /\ timer' \in BOOLEAN /\ gaveUp' \in BOOLEAN
         /\ timer' => polls' <= MaxPolls
         /\ Waiting' => timer' \/ gaveUp'
<1> DEFINE few == p <= MaxPolls
           many == p > MaxPolls
<1>1. few \in BOOLEAN /\ many \in BOOLEAN /\ (few \/ many)
  BY ConsoleAssumption
<1>2. /\ polls' = IF Waiting' THEN p ELSE 0
      /\ timer' = (Waiting' /\ few)
      /\ gaveUp' = (Waiting' /\ many)
  BY DEF Rearm
<1>3. polls' \in 0 .. MaxPolls + 1
  BY <1>2, ConsoleAssumption
<1>4. (Waiting' /\ few) => polls' <= MaxPolls
  BY <1>2
<1> HIDE DEF few, many
<1> QED
  BY <1>1, <1>2, <1>3, <1>4, Zenon

\* A refresh that starts reads nothing yet, and is somebody reading.
LEMMA StartKeeps ==
  ASSUME PageInv, NEW for \in {"poll", "act"}, StartRefresh(for), job' = job
  PROVE  /\ reads' \in [Slots -> Read]
         /\ PartialIsKnown'
         /\ \E s \in Slots : Reading(s)'
<1>1. PICK s \in Slots : reads' = [reads EXCEPT ![s] = [NoRead EXCEPT !.for = for]]
  BY DEF StartRefresh
<1>2. /\ reads \in [Slots -> Read]
      /\ [NoRead EXCEPT !.for = for] = [for |-> for, numbers |-> "none", health |-> "none"]
  BY DEF PageInv, PageShape, NoRead
<1>3. reads' \in [Slots -> Read] /\ reads'[s].for = for /\ reads'[s].numbers = "none"
  BY <1>1, <1>2 DEF Read
<1>4. PartialIsKnown'
  BY <1>1, <1>2, <1>3 DEF PageInv, PartialIsKnown
<1> QED
  BY <1>3, <1>4 DEF Reading

\* One that ends, ends for itself.
LEMMA EndKeeps ==
  ASSUME PageInv, NEW s \in Slots, EndRefresh(s), job' = job
  PROVE  /\ reads' \in [Slots -> Read]
         /\ PartialIsKnown'
         /\ busy' \in Buttons \union {"none"}
<1>1. /\ reads' = [reads EXCEPT ![s] = NoRead]
      /\ reads \in [Slots -> Read] /\ NoRead \in Read /\ NoRead.numbers = "none"
  BY DEF EndRefresh, PageInv, PageShape, NoRead, Read
<1>2. PartialIsKnown'
  BY <1>1 DEF PageInv, PartialIsKnown
<1> QED
  BY <1>1, <1>2 DEF EndRefresh, PageInv, PageShape

\* What changes neither the server's job nor what the page is shown by.
LEMMA PageUnchanged ==
  ASSUME PageInv, UNCHANGED pageVars, job' \in BOOLEAN, job => job'
  PROVE  PageInv'
  BY DEF PageInv, PageShape, PartialIsKnown, NeverDeaf, SettledLookIsSettled, pageVars,
         Waiting, Reading

\* Every step of the page and of the server keeps the page in order.
LEMMA PageStep == PageInv /\ CallInv(Writes) /\ [Next]_vars => PageInv'
<1> SUFFICES ASSUME PageInv, CallInv(Writes), [Next]_vars PROVE PageInv'
  OBVIOUS
<1> USE ConsoleAssumption
<1>1. ASSUME NEW s \in Slots, ReadNumbers(s) PROVE PageInv'
  <2>1. reads[s] \in Read /\ reads \in [Slots -> Read] /\ job \in BOOLEAN
    BY DEF PageInv, PageShape
  <2>2. PICK n \in {"whole", "partial", "torn"} :
          /\ reads' = [reads EXCEPT ![s].numbers = n]
          /\ n = "partial" => job /\ reads[s].health # "quiet"
    BY <1>1, <2>1 DEF ReadNumbers
  <2>3. reads' \in [Slots -> Read] /\ \A t \in Slots : reads'[t].for = reads[t].for
    BY <2>1, <2>2 DEF Read
  <2>4. PartialIsKnown'
    BY <1>1, <2>1, <2>2 DEF ReadNumbers, PageInv, PartialIsKnown, Read
  <2> QED
    BY <1>1, <2>3, <2>4 DEF ReadNumbers, PageInv, PageShape, NeverDeaf,
       SettledLookIsSettled, Waiting, Reading
<1>2. ASSUME NEW s \in Slots, ReadHealth(s) PROVE PageInv'
  <2>1. reads[s] \in Read /\ reads \in [Slots -> Read] /\ job \in BOOLEAN
    BY DEF PageInv, PageShape
  <2>2. /\ reads' = [reads EXCEPT ![s].health = IF job THEN "seeding" ELSE "quiet"]
        /\ job' = job
    BY <1>2 DEF ReadHealth
  <2>3. reads' \in [Slots -> Read] /\ \A t \in Slots : reads'[t].for = reads[t].for
    BY <2>1, <2>2 DEF Read
  <2>4. PartialIsKnown'
    BY <1>2, <2>1, <2>2 DEF ReadHealth, PageInv, PartialIsKnown, Read
  <2> QED
    BY <1>2, <2>3, <2>4 DEF ReadHealth, PageInv, PageShape, NeverDeaf,
       SettledLookIsSettled, Waiting, Reading
<1>3. ASSUME NEW s \in Slots, RefreshDone(s) PROVE PageInv'
  <2>1. /\ reads' \in [Slots -> Read] /\ PartialIsKnown'
        /\ busy' \in Buttons \union {"none"}
    BY <1>3, EndKeeps DEF RefreshDone
  <2>2. /\ reads[s] \in Read
        /\ reads[s].numbers = "partial" => reads[s].health = "seeding"
    BY <1>3 DEF RefreshDone, PageInv, PageShape, PartialIsKnown
  <2>3. /\ board' \in {"whole", "partial", "torn"} /\ health' \in {"seeding", "quiet"}
        /\ seeding' = (health' = "seeding")
        /\ board' = "partial" => health' = "seeding"
        /\ connected' = "yes" /\ error' = "none" /\ job' = job
    BY <1>3, <2>2 DEF RefreshDone, Read
  <2>4. Waiting' \in BOOLEAN
    BY DEF Waiting
  <2>5. /\ polls' \in 0 .. MaxPolls + 1 /\ timer' \in BOOLEAN /\ gaveUp' \in BOOLEAN
        /\ timer' => polls' <= MaxPolls
        /\ Waiting' => timer' \/ gaveUp'
    BY <1>3, <2>4, RearmKeeps DEF RefreshDone, PageInv, PageShape
  <2>6. PageShape'
    BY <2>1, <2>3, <2>5 DEF PageInv, PageShape
  <2>7. SettledLookIsSettled'
    BY <2>3 DEF SettledLookIsSettled
  <2> QED
    BY <2>1, <2>5, <2>6, <2>7 DEF PageInv, NeverDeaf
<1>4. ASSUME NEW s \in Slots, RefreshFails(s) PROVE PageInv'
  <2>1. /\ reads' \in [Slots -> Read] /\ PartialIsKnown'
        /\ busy' \in Buttons \union {"none"}
    BY <1>4, EndKeeps DEF RefreshFails
  <2>2. Waiting' \in BOOLEAN
    BY DEF Waiting
  <2>3. /\ polls' \in 0 .. MaxPolls + 1 /\ timer' \in BOOLEAN /\ gaveUp' \in BOOLEAN
        /\ timer' => polls' <= MaxPolls
        /\ Waiting' => timer' \/ gaveUp'
    BY <1>4, <2>2, RearmKeeps DEF RefreshFails, PageInv, PageShape
  <2>4. PageShape'
    BY <1>4, <2>1, <2>3 DEF RefreshFails, PageInv, PageShape
  <2>5. SettledLookIsSettled'
    BY <1>4 DEF RefreshFails, SettledLookIsSettled
  <2> QED
    BY <2>1, <2>3, <2>4, <2>5 DEF PageInv, NeverDeaf
<1>5. CASE Poll
  <2>1. /\ reads' \in [Slots -> Read] /\ PartialIsKnown'
        /\ \E s \in Slots : Reading(s)'
    BY <1>5, StartKeeps DEF Poll
  <2>2. polls' \in 0 .. MaxPolls + 1 /\ timer' = FALSE
    BY <1>5 DEF Poll, PageInv, PageShape
  <2> QED
    BY <1>5, <2>1, <2>2 DEF Poll, PageInv, PageShape, NeverDeaf, SettledLookIsSettled
<1>6. CASE TabChanged
  <2>1. /\ reads' \in [Slots -> Read] /\ PartialIsKnown'
        /\ \E s \in Slots : Reading(s)'
    BY <1>6, StartKeeps DEF TabChanged
  <2> QED
    BY <1>6, <2>1 DEF TabChanged, PageInv, PageShape, NeverDeaf, SettledLookIsSettled
<1>7. ASSUME NEW b \in Buttons, Click(b) PROVE PageInv'
  BY <1>7 DEF Click, PageInv, PageShape, PartialIsKnown, NeverDeaf,
     SettledLookIsSettled, Waiting, Reading
<1>8. CASE ActAccepted
  <2>1. /\ reads' \in [Slots -> Read] /\ PartialIsKnown'
        /\ \E s \in Slots : Reading(s)'
    BY <1>8, StartKeeps DEF ActAccepted
  <2>2. Waiting' \in BOOLEAN /\ 0 \in 0 .. MaxPolls + 1
    BY DEF Waiting
  <2>3. /\ polls' \in 0 .. MaxPolls + 1 /\ timer' \in BOOLEAN /\ gaveUp' \in BOOLEAN
        /\ timer' => polls' <= MaxPolls
    <3>1. CASE seeding
      BY <1>8, <2>2, <3>1 DEF ActAccepted, PageInv, PageShape
    <3>2. CASE ~seeding
      BY <1>8, <2>2, <3>2, RearmKeeps DEF ActAccepted
    <3> QED
      BY <3>1, <3>2
  <2> QED
    BY <1>8, <2>1, <2>3 DEF ActAccepted, PageInv, PageShape, NeverDeaf,
       SettledLookIsSettled
<1>9. CASE ActBusy
  <2>1. Waiting' \in BOOLEAN /\ 0 \in 0 .. MaxPolls + 1
    BY DEF Waiting
  <2>2. /\ polls' \in 0 .. MaxPolls + 1 /\ timer' \in BOOLEAN /\ gaveUp' \in BOOLEAN
        /\ timer' => polls' <= MaxPolls
        /\ NeverDeaf'
    <3>1. CASE seeding
      BY <1>9, <2>1, <3>1 DEF ActBusy, PageInv, PageShape, NeverDeaf, Waiting, Reading
    <3>2. CASE ~seeding
      BY <1>9, <2>1, <3>2, RearmKeeps DEF ActBusy, NeverDeaf
    <3> QED
      BY <3>1, <3>2
  <2> QED
    BY <1>9, <2>2 DEF ActBusy, PageInv, PageShape, PartialIsKnown, SettledLookIsSettled
<1>10. CASE ActFails
  BY <1>10 DEF ActFails, PageInv, PageShape, PartialIsKnown, NeverDeaf,
     SettledLookIsSettled, Waiting, Reading
<1>11. CASE PageCall
  BY <1>11, PageUnchanged DEF PageCall, PageInv, PageShape
<1>12. CASE ServerWrite
  <2>1. UNCHANGED pageVars /\ job' \in BOOLEAN /\ (job => job')
    BY <1>12 DEF ServerWrite, PageInv, PageShape
  <2> QED
    BY <2>1, PageUnchanged
<1>13. CASE OthersJob
  BY <1>13, PageUnchanged DEF OthersJob
<1>14. CASE EndJob
  <2>1. /\ reads \in [Slots -> Read]
        /\ \A s \in Slots :
             reads'[s] = IF reads[s].numbers = "partial" /\ reads[s].health = "none"
                           THEN [reads[s] EXCEPT !.numbers = "torn"] ELSE reads[s]
    BY <1>14 DEF EndJob, PageInv, PageShape
  <2>2. reads' \in [Slots -> Read] /\ \A s \in Slots : reads'[s].for = reads[s].for
    BY <1>14, <2>1 DEF EndJob, Read
  <2>3. PartialIsKnown'
    BY <2>1, <2>2 DEF PageInv, PartialIsKnown, Read
  <2> QED
    BY <1>14, <2>2, <2>3 DEF EndJob, PageInv, PageShape, NeverDeaf,
       SettledLookIsSettled, Waiting, Reading
<1>15. CASE UNCHANGED vars
  BY <1>15, PageUnchanged DEF vars, PageInv, PageShape
<1> QED
  BY <1>1, <1>2, <1>3, <1>4, <1>5, <1>6, <1>7, <1>8, <1>9, <1>10, <1>11, <1>12,
     <1>13, <1>14, <1>15 DEF Next

\* Every step of either keeps the books of the writes.
LEMMA CallStep == PageInv /\ CallInv(Writes) /\ [Next]_vars => CallInv(Writes)'
<1> SUFFICES ASSUME PageInv, CallInv(Writes), [Next]_vars PROVE CallInv(Writes)'
  OBVIOUS
<1>0. "page" \in Callers /\ NoCall.what \in Writes
  BY ConsoleAssumption DEF NoCall, Writes
<1>1. ASSUME NEW b \in Buttons, Click(b) PROVE CallInv(Writes)'
  <2>1. [kind |-> b] \in Writes
    BY DEF Writes
  <2> QED
    BY <1>0, <1>1, <2>1, SendKeeps DEF Click
<1>2. CASE ActAccepted \/ ActBusy \/ ActFails
  <2>1. GivesUp("page") \/ \E r \in Replies : Returns("page", r)
    BY <1>2 DEF ActAccepted, ActBusy, ActFails, Replies
  <2> QED
    BY <1>0, <2>1, GivesUpKeeps, ReturnsKeeps
<1>3. CASE PageCall
  BY <1>0, <1>3, AskKeeps, LoseStrayKeeps DEF PageCall
<1>4. CASE ServerWrite
  <2>1. \E r \in Replies \ {"none"} : Serve("page", r) \/ \E s \in stray : ServeStray(s, r)
    BY <1>4 DEF ServerWrite, Replies
  <2> QED
    BY <1>0, <2>1, ServeKeeps, ServeStrayKeeps
<1>5. CASE \/ \E s \in Slots :
                ReadNumbers(s) \/ ReadHealth(s) \/ RefreshDone(s) \/ RefreshFails(s)
           \/ Poll \/ TabChanged \/ OthersJob \/ EndJob \/ UNCHANGED vars
  <2>1. UNCHANGED callVars
    BY <1>5 DEF ReadNumbers, ReadHealth, RefreshDone, RefreshFails, Poll, TabChanged,
       OthersJob, EndJob, vars
  <2> QED
    BY <2>1, UnchangedKeeps
<1> QED
  BY <1>1, <1>2, <1>3, <1>4, <1>5 DEF Next

-----------------------------------------------------------------------------
\* The two together are inductive.
THEOREM Inductive == Spec => [](PageInv /\ CallInv(Writes))
<1>1. Init => CallInv(Writes)
  BY ConsoleAssumption
     DEF Init, CallInit, NoCall, CallInv, CallShape, OnceEach, InFlight, Tokens, Replies,
         Writes
<1>2. Init => PageInv
  <2> SUFFICES ASSUME Init PROVE PageInv
    OBVIOUS
  <2> USE ConsoleAssumption DEF Init
  <2>1. reads \in [Slots -> Read] /\ \A s \in Slots : reads[s].numbers = "none"
    BY DEF NoRead, Read
  <2>2. PageShape
    <3>1. polls \in 0 .. MaxPolls + 1 /\ polls <= MaxPolls
      OBVIOUS
    <3>2. /\ job \in BOOLEAN /\ seeding \in BOOLEAN /\ timer \in BOOLEAN
          /\ gaveUp \in BOOLEAN
      BY Zenon
    <3> QED
      BY <2>1, <3>1, <3>2 DEF PageShape
  <2>3. PartialIsKnown /\ NeverDeaf /\ SettledLookIsSettled
    BY <2>1 DEF PartialIsKnown, NeverDeaf, SettledLookIsSettled
  <2> QED
    BY <2>2, <2>3 DEF PageInv
<1>3. PageInv /\ CallInv(Writes) /\ [Next]_vars => (PageInv /\ CallInv(Writes))'
  BY PageStep, CallStep
<1> QED
  BY <1>1, <1>2, <1>3, PTL DEF Spec

\* Types hold in every reachable state: the polls are counted up to one past
\* MAX_POLLS, and no further.
THEOREM TypeCorrect == Spec => []TypeOK
<1>1. PageInv /\ CallInv(Writes) => TypeOK
  BY DEF PageInv, PageShape, CallInv, CallShape, TypeOK, CallTypeOK, Read
<1> QED
  BY <1>1, Inductive, PTL

\* A page that has a reason to ask again is always about to, until it has asked
\* MAX_POLLS times: the poll effect hears of every refresh that ends.
THEOREM PageIsNeverDeaf == Spec => []NeverDeaf
<1>1. PageInv /\ CallInv(Writes) => NeverDeaf
  BY DEF PageInv
<1> QED
  BY <1>1, Inductive, PTL

\* A page that looks settled does not show numbers that were read while the job
\* ran of which its own refresh was told.
THEOREM SettledLook == Spec => []SettledLookIsSettled
<1>1. PageInv /\ CallInv(Writes) => SettledLookIsSettled
  BY DEF PageInv
<1> QED
  BY <1>1, Inductive, PTL

\* However a click is answered, denied, sent again or given up on, the server does
\* what it asked for at most once.
THEOREM EachWriteOnce == Spec => []WriteAtMostOnce
<1>1. PageInv /\ CallInv(Writes) => WriteAtMostOnce
  BY DEF CallInv, OnceEach, WriteAtMostOnce
<1> QED
  BY <1>1, Inductive, PTL
=============================================================================
