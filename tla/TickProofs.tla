----------------------------- MODULE TickProofs -----------------------------
(***************************************************************************)
(* Proofs about Recovery that follow a record through a tick: what the     *)
(* tick read of it still stands when its turn comes (TickInv), its first   *)
(* claim is the first rung of its own ladder (ClaimInv), and in a dry run  *)
(* that nothing interrupts each of its attempts is answered before the     *)
(* tick ends (CalmInv).                                                    *)
(***************************************************************************)
EXTENDS RecoveryProofs

-----------------------------------------------------------------------------
\* What a tick knows of the records it has not worked yet.  The batch is inside
\* handle() only while it settles, or while promises are due ...
HandInTick ==
  ~Free("batch") => stage = "settle" \/ (stage = "promises" /\ Due # {})

\* ... its sessions write to records that were worked ...
TaskInTick ==
  /\ stage = "promises" => task.do \in {"nothing", "due"}
  /\ stage = "work" =>
       \/ task.do \in {"nothing", "record"}
       \/ /\ task.do \in {"queue", "close"}
          /\ task.rec \in DOMAIN todo /\ todo[task.rec].worked

\* ... so a record read as the agent's own is still its own when its turn comes,
\* unless it was read from the fixture, untried; and what is the agent's own was
\* read with its attempts counted.
SeenAsIs(r) ==
  /\ ~todo[r].worked /\ todo[r].state \in Owned =>
       state[r] \in Owned \/ (todo[r].attempts = 0 /\ r \notin broken)
  /\ state[r] \in Owned => todo[r].attempts = attempts[r]

SeenInTick ==
  stage = "work" \/ (stage = "promises" /\ Due = {}) =>
    \A r \in DOMAIN todo : SeenAsIs(r)

\* A promise found broken is stalled on from the next statement on.
BrokenInTick == stage = "promises" => broken = {}

TickInv == HandInTick /\ TaskInTick /\ BrokenInTick /\ SeenInTick

\* A step that leaves the tick alone, outside of handle().
LEMMA CalmTick ==
  ASSUME TickInv,
         UNCHANGED <<stage, todo, task, broken, promise, date, state, attempts, hand>>
  PROVE  TickInv'
BY DEF TickInv, HandInTick, TaskInTick, BrokenInTick, SeenInTick, SeenAsIs, Due, Free

\* Stages in which nothing is known, and nothing needs to be.
LEMMA LateTick ==
  ASSUME stage' \in {"idle", "refresh", "settle", "replies"},
         stage' = "settle" \/ Free("batch")'
  PROVE  TickInv'
BY DEF TickInv, HandInTick, TaskInTick, BrokenInTick, SeenInTick

\* The turn of one record.
LEMMA WorkTick ==
  ASSUME CountInv, TickInv, NEW r \in Records, Work(r)
  PROVE  TickInv'
<1>1. /\ stage = "work" /\ stage' = "work" /\ task = Nothing /\ Free("batch")
      /\ hand' = hand /\ state' = state /\ attempts' = attempts /\ broken' = broken
      /\ r \in DOMAIN todo
      /\ todo' = [todo EXCEPT ![r].worked = TRUE]
      /\ \/ task' = Nothing \/ task'.do = "record"
         \/ task'.do \in {"queue", "close"} /\ task'.rec = r
  BY DEF Work, At, Leave, HandOver, Stop, Execute, Worked, books, Nothing
<1>2. todo[r] \in [state : States, attempts : Nat, worked : BOOLEAN]
  BY <1>1 DEF CountInv, TypeInv, TypeOK, BatchTypeOK
<1>3. /\ DOMAIN todo' = DOMAIN todo /\ todo'[r].worked
      /\ todo'[r].attempts = todo[r].attempts
      /\ \A x \in DOMAIN todo \ {r} : todo'[x] = todo[x]
  BY <1>1, <1>2
<1>4. HandInTick'
  BY <1>1 DEF HandInTick, Free
<1>5. TaskInTick'
  BY <1>1, <1>3 DEF TaskInTick, Nothing
<1>6. \A x \in DOMAIN todo : SeenAsIs(x)
  BY <1>1 DEF TickInv, SeenInTick
<1>7. \A x \in DOMAIN todo' : SeenAsIs(x)'
  BY <1>1, <1>3, <1>6 DEF SeenAsIs
<1> QED
  BY <1>1, <1>4, <1>5, <1>7 DEF TickInv, BrokenInTick, SeenInTick

\* The commit of a session of the batch.
LEMMA CommitTick ==
  ASSUME CountInv, DeskInv, TickInv, Commit
  PROVE  TickInv'
<1>1. /\ stage' = stage /\ todo' = todo /\ task' = Nothing /\ hand' = hand
      /\ broken' = broken /\ task # Nothing
      /\ task.do \in {"record", "queue", "close", "human", "promise"}
  BY DEF Commit, hooks, PutInQueue, Close, RecordRow, ReplyToHuman, RecordPromise,
     Nothing
<1>2. HandInTick' /\ TaskInTick'
  BY <1>1 DEF TickInv, DeskInv, HandInTick, TaskInTick, Free, Nothing
<1>3. stage # "promises"
  BY <1>1 DEF TickInv, TaskInTick
<1>4. ASSUME stage = "work", NEW x \in DOMAIN todo PROVE SeenAsIs(x)'
  <2>0. task.do \in {"record", "queue", "close"} /\ attempts' = attempts
    BY <1>1, <1>4 DEF TickInv, TaskInTick, Commit, PutInQueue, Close, RecordRow,
       ReplyToHuman, RecordPromise
  <2>1. SeenAsIs(x)
    BY <1>4 DEF TickInv, SeenInTick
  <2>2. CASE task.do = "record"
    <3>1. state' = state
      BY <2>2 DEF Commit, PutInQueue, Close, RecordRow, ReplyToHuman, RecordPromise
    <3> QED
      BY <1>1, <2>0, <2>1, <3>1 DEF SeenAsIs
  <2>3. CASE task.do \in {"queue", "close"} /\ todo[task.rec].worked
    <3>1. \A r \in Records : r # task.rec => state'[r] = state[r]
      BY <2>3 DEF Commit, PutInQueue, Close, RecordRow, ReplyToHuman,
         RecordPromise, CountInv, TypeInv, TypeOK, BooksTypeOK
    <3>2. x \in Records
      BY DEF CountInv, TypeInv, TypeOK, BatchTypeOK
    <3>3. state'[x] \in Owned => state[x] \in Owned
      <4>1. state'[x] \in {state[x], "ESCALATED", "CLOSED"}
        BY <2>3, <3>2 DEF Commit, PutInQueue, Close, RecordRow, ReplyToHuman,
           RecordPromise, CountInv, TypeInv, TypeOK, BooksTypeOK
      <4> QED
        BY <4>1 DEF Owned
    <3> QED
      BY <1>1, <2>0, <2>1, <2>3, <3>1, <3>2, <3>3 DEF SeenAsIs
  <2> QED
    BY <1>1, <1>4, <2>2, <2>3 DEF TickInv, TaskInTick
<1> QED
  BY <1>1, <1>2, <1>3, <1>4 DEF TickInv, BrokenInTick, SeenInTick

\* What a tick knows survives every step of a dry run.
LEMMA TickStepKept ==
  ASSUME DryRun, CountInv, DeskInv, TickInv, [Next]_vars
  PROVE  TickInv'
<1>1. CASE Begin
  <2>1. /\ stage' = "promises" /\ task' = Nothing /\ Free("batch")'
        /\ state' = state /\ attempts' = attempts /\ broken' = {}
    BY <1>1, BeginMoves DEF At, Free, books, hooks
  <2>2. HandInTick' /\ TaskInTick'
    BY <2>1 DEF HandInTick, TaskInTick, Nothing
  <2>3. \A r \in DOMAIN todo' : SeenAsIs(r)'
    BY <1>1, <2>1, BeginMoves DEF Taken, Read, SeenAsIs
  <2> QED
    BY <2>1, <2>2, <2>3 DEF TickInv, BrokenInTick, SeenInTick
<1>2. CASE ReadDue
  <2>1. /\ stage = "promises" /\ Free("batch") /\ hand' = hand /\ state' = state
        /\ todo' = todo /\ promise' = promise /\ date' = date /\ task = Nothing
        /\ broken' = broken /\ attempts' = attempts
    BY <1>2 DEF ReadDue, At, books, hooks
  <2>2. CASE Due = {}
    <3>1. stage' = "work" /\ task' = Nothing
      BY <1>2, <2>1, <2>2 DEF ReadDue, Go
    <3>2. \A r \in DOMAIN todo' : SeenAsIs(r)'
      BY <2>1, <2>2 DEF TickInv, SeenInTick, SeenAsIs
    <3> QED
      BY <2>1, <3>1, <3>2 DEF TickInv, HandInTick, TaskInTick, BrokenInTick,
         SeenInTick, Free, Nothing
  <2>3. CASE Due # {}
    <3>1. stage' = "promises" /\ task'.do = "due" /\ Due' # {}
      BY <1>2, <2>1, <2>3 DEF ReadDue, Due
    <3> QED
      BY <2>1, <3>1 DEF TickInv, HandInTick, TaskInTick, BrokenInTick, SeenInTick,
         Free
  <2> QED
    BY <2>2, <2>3
<1>3. CASE ResolveDue
  <2>1. stage' = "refresh" /\ hand' = hand /\ task # Nothing
    BY <1>3 DEF ResolveDue, Go, hooks, Nothing
  <2> QED
    BY <2>1, LateTick DEF DeskInv, Free
<1>4. CASE Refresh
  <2>1. /\ stage' = "work" /\ task' = Nothing /\ Free("batch")' /\ state' = state
        /\ todo' = Snapshot(DOMAIN todo) /\ attempts' = attempts
    BY <1>4 DEF Refresh, At, Go, Free, books, hooks
  <2>2. \A r \in DOMAIN todo' : SeenAsIs(r)'
    BY <2>1 DEF SeenAsIs, Snapshot, Read
  <2> QED
    BY <2>1, <2>2 DEF TickInv, HandInTick, TaskInTick, BrokenInTick, SeenInTick,
       Nothing
<1>5. CASE BeginSettle \/ EndSettle \/ EndTick
  BY <1>5, LateTick DEF BeginSettle, EndSettle, EndTick, Go, At, Free, hooks
<1>6. ASSUME NEW r \in Records, ReadReply(r) \/ AdvanceClock(r) PROVE TickInv'
  BY <1>6, LateTick DEF ReadReply, AdvanceClock, At, Free, hooks
<1>7. ASSUME NEW r \in Records, SettlePromise(r) PROVE TickInv'
  <2>1. stage = "promises" /\ Due # {} /\ UNCHANGED batch /\ state' = state
    BY <1>7 DEF SettlePromise, At, Receive, books
  <2>2. stage' = "promises" /\ Due' # {} /\ task' = task
    BY <2>1 DEF batch, Due
  <2> QED
    BY <2>1, <2>2 DEF TickInv, HandInTick, TaskInTick, BrokenInTick, SeenInTick, batch
<1>8. ASSUME NEW r \in Records, SelfCure(r) PROVE TickInv'
  BY <1>8, LateTick DEF SelfCure, At, batch
<1>9. ASSUME NEW i \in pending, Settle(i) PROVE TickInv'
  BY <1>9, LateTick DEF Settle, At
<1>10. ASSUME NEW r \in Records, Work(r) PROVE TickInv'
  BY <1>10, WorkTick
<1>11. CASE Commit
  BY <1>11, CommitTick
<1>12. CASE HandleStep("batch") /\ UNCHANGED batch
  <2>1. ~Free("batch")
    BY <1>12 DEF HandleStep, Look, Apply, SettleEventRow, Free, Idle
  <2>2. stage' = stage /\ Due' = Due /\ task' = task
    BY <1>12 DEF batch, Due
  <2> QED
    BY <1>12, <2>1, <2>2 DEF TickInv, HandInTick, TaskInTick, BrokenInTick, SeenInTick,
       batch
<1>13. CASE Crash
  BY <1>13, LateTick DEF Crash, Free, Hands
<1>14. CASE ServerStep
  <2>1. ~Free("server")
    BY <1>14 DEF ServerStep, HandleStep, Look, Apply, SettleEventRow, Free, Idle
  <2> QED
    BY <2>1 DEF DryRun, CountInv, Quiet
<1>15. CASE Customer \/ UNCHANGED vars
  BY <1>15, CalmTick DEF Customer, CustomerPays, CustomerFails,
     CustomerPaysUnprompted, vars, hooks, books, batch
<1> QED
  BY <1>1, <1>2, <1>3, <1>4, <1>5, <1>6, <1>7, <1>8, <1>9, <1>10, <1>11, <1>12,
     <1>13, <1>14, <1>15 DEF Next, TickStep, DryRun

-----------------------------------------------------------------------------
\* What the claims of a record say of it, live or dry, whatever the ladders: what
\* was sent was claimed, the first claim is the first rung of the record's own
\* ladder, and nobody is heard from who was not reached first.
Reached(r) == \E i \in claimed : RecordOf(i) = r

HeldClaimed == task.do = "record" => task.iv \in claimed

FirstClaim ==
  \A i \in claimed :
    <<RecordOf(i), 1, Rung(Ladder[RecordOf(i)], 1)>> \in claimed

Heard(r) ==
  \/ promise[r].is # "none" \/ r \in broken \/ r \in replied
  \/ task.do = "promise" /\ task.rec = r
  \/ task.do = "due" /\ r \in DOMAIN task.saw

HeardReached == \A r \in Records : Heard(r) => Reached(r)

ClaimInv ==
  /\ TodoBehind
  /\ SentClaimed
  /\ HeldClaimed
  /\ FirstClaim
  /\ HeardReached

\* A customer is heard from again, or for the first time on what was just settled.
LEMMA HeardFrom ==
  ASSUME TypeInv, [Next]_vars, NEW r \in Records, Heard(r)'
  PROVE  Heard(r) \/ \E i \in pending : RecordOf(i) = r
<1> USE DEF Heard
<1>1. ASSUME promise' = promise, broken' = broken \/ broken' = {},
             replied' = replied \/ replied' = {},
             task' = task \/ task'.do \notin {"promise", "due"}
      PROVE  Heard(r)
  BY <1>1
<1>2. CASE Begin \/ Refresh \/ BeginSettle \/ EndSettle \/ EndTick \/ Crash
  BY <1>1, <1>2, BeginMoves DEF Refresh, BeginSettle, EndSettle, EndTick, Crash, Nothing
<1>3. CASE ReadDue
  BY <1>3 DEF ReadDue, Due, At, Nothing
<1>4. CASE ResolveDue
  BY <1>4 DEF ResolveDue, Nothing, TypeInv, TypeOK, BatchTypeOK
<1>5. CASE Commit
  <2>1. CASE RecordPromise
    BY <1>5, <2>1 DEF Commit, RecordPromise, Nothing, TypeInv, TypeOK, BatchTypeOK
  <2>2. CASE PutInQueue \/ Close \/ RecordRow \/ ReplyToHuman
    BY <1>1, <1>5, <2>2 DEF Commit, PutInQueue, Close, RecordRow, ReplyToHuman, Nothing
  <2> QED
    BY <1>5, <2>1, <2>2 DEF Commit
<1>6. ASSUME NEW x \in Records, Work(x) PROVE Heard(r)
  <2>1. task'.do \notin {"promise", "due"}
    BY <1>6 DEF Work, Leave, HandOver, Stop, Execute, At, Nothing
  <2> QED
    BY <1>1, <1>6, <2>1 DEF Work
<1>7. ASSUME NEW x \in Records, ReadReply(x) PROVE Heard(r)
  BY <1>7 DEF ReadReply, At, Nothing
<1>8. ASSUME NEW i \in pending, Settle(i)
      PROVE  Heard(r) \/ RecordOf(i) = r
  BY <1>8 DEF Settle, SettlePaid, SettleFailed, SettleSilence
<1>9. ASSUME NEW x \in Records, SettlePromise(x) \/ SelfCure(x) \/ AdvanceClock(x)
      PROVE  Heard(r)
  BY <1>1, <1>9 DEF SettlePromise, SelfCure, AdvanceClock, batch
<1>10. CASE UNCHANGED batch
  BY <1>1, <1>10 DEF batch
<1> QED
  BY <1>2, <1>3, <1>4, <1>5, <1>6, <1>7, <1>8, <1>9, <1>10
     DEF Next, TickStep, Deliver, ServerStep, Customer, vars

\* What was sent was claimed before.
LEMMA SentClaimedStep ==
  ASSUME TypeInv, SentClaimed, HeldClaimed, [Next]_vars
  PROVE  SentClaimed' /\ HeldClaimed' /\ claimed \subseteq claimed'
<1>1. claimed \subseteq claimed'
  BY ClaimMoves DEF ClaimsNothing, Claims
<1>2. HeldClaimed'
  BY ClaimMoves DEF ClaimsNothing, Claims, HeldClaimed, At, Nothing
<1>3. CASE rows' = rows
  BY <1>1, <1>2, <1>3 DEF SentClaimed, SentTo
<1>4. CASE AddRow
  <2>1. /\ task.iv \in claimed
        /\ \A x \in Records : SentTo(x)' \subseteq SentTo(x) \union {task.iv}
    BY <1>4, RecordRowSent DEF AddRow, RecordRow, HeldClaimed
  <2> QED
    BY <1>1, <1>2, <2>1 DEF SentClaimed
<1>5. ASSUME NEW h \in Hands, Answer(h) PROVE rows' = rows
  BY <1>5 DEF Answer, Credit, FailAgain
<1>6. ASSUME NEW i \in pending, Silence(i) PROVE rows' = rows
  BY <1>6 DEF Silence, MarkNoResponse
<1> QED
  BY <1>3, <1>4, <1>5, <1>6, BookMoves DEF Still

\* A record nobody claimed is untried, so its claim is its own first rung.
LEMMA FirstProposal ==
  ASSUME CountInv, ClaimInv, NEW r \in Records, Claims(r), ~Reached(r)
  PROVE  Proposal(r) = <<r, 1, Rung(Ladder[r], 1)>>
<1>1. SentTo(r) = {}
  <2>1. ASSUME NEW i \in SentTo(r) PROVE FALSE
    BY <2>1 DEF ClaimInv, SentClaimed, Reached, CountInv, TypeInv, RowsOwn
  <2> QED
    BY <2>1
<1>2. attempts[r] \in Nat /\ attempts[r] <= 0
  <2>1. SentWith(r, Results \ {"none"}) = {}
    BY <1>1 DEF SentWith
  <2>2. Cardinality({}) = 0
    BY FS_EmptySet
  <2> QED
    BY <2>1, <2>2 DEF CountInv, AttemptsAreReal, TypeInv, TypeOK, BooksTypeOK
<1>3. NextAttempt(r) = 1
  <2>1. /\ r \in DOMAIN todo /\ todo[r].attempts \in Nat
        /\ todo[r].attempts <= attempts[r]
    BY DEF Claims, ClaimInv, TodoBehind, CountInv, TypeInv, TypeOK, BatchTypeOK
  <2> QED
    BY <1>2, <2>1 DEF NextAttempt
<1>4. r \notin broken
  BY DEF ClaimInv, HeardReached, Heard
<1> QED
  BY <1>3, <1>4 DEF Proposal, Decide, Rung

\* The claims say so after every step of every actor.
LEMMA ClaimInvStep ==
  ASSUME CountInv, ClaimInv, [Next]_vars
  PROVE  ClaimInv'
<1> USE DEF ClaimInv, CountInv
<1>1. TodoBehind' /\ SentClaimed' /\ HeldClaimed' /\ claimed \subseteq claimed'
  BY TodoStep, SentClaimedStep
<1>2. HeardReached'
  <2> SUFFICES ASSUME NEW r \in Records, Heard(r)' PROVE Reached(r)'
    BY DEF HeardReached
  <2>1. CASE Heard(r)
    BY <1>1, <2>1 DEF HeardReached, Reached
  <2>2. CASE \E i \in pending : RecordOf(i) = r
    BY <1>1, <2>2 DEF PendingSent, SentClaimed, Reached
  <2> QED
    BY <2>1, <2>2, HeardFrom
<1>3. FirstClaim'
  <2>1. CASE ClaimsNothing
    BY <2>1 DEF ClaimsNothing, FirstClaim
  <2>2. ASSUME NEW r \in Records, Claims(r) PROVE FirstClaim'
    <3>1. claimed' = claimed \union {Proposal(r)} /\ RecordOf(Proposal(r)) = r
      BY <2>2 DEF Claims, Proposal, RecordOf
    <3>2. <<r, 1, Rung(Ladder[r], 1)>> \in claimed'
      BY <2>2, <3>1, FirstProposal DEF FirstClaim, Reached
    <3> QED
      BY <3>1, <3>2 DEF FirstClaim
  <2> QED
    BY <2>1, <2>2, ClaimMoves
<1> QED
  BY <1>1, <1>2, <1>3

\* Nothing is claimed at the start.
LEMMA InitClaim == Init => ClaimInv
<1> SUFFICES ASSUME Init PROVE ClaimInv
  OBVIOUS
<1>1. TodoBehind /\ SentClaimed
  BY InitNumber DEF NumberInv
<1>2. HeldClaimed /\ FirstClaim /\ HeardReached
  BY DEF Init, HeldClaimed, FirstClaim, HeardReached, Heard, Nothing, NoPromise
<1> QED
  BY <1>1, <1>2 DEF ClaimInv

\* For a record that has a claim, whatever the gate lets through is for a record
\* the agent owns: from the fixture it would be its first rung, which is taken.
LEMMA OnlyItsOwn ==
  ASSUME TickInv, ClaimInv, NEW r \in Records, Claims(r), Reached(r)
  PROVE  state[r] \in Owned
<1> SUFFICES ASSUME state[r] \notin Owned PROVE FALSE
  OBVIOUS
<1>1. /\ stage = "work" /\ r \in DOMAIN todo /\ ~todo[r].worked
      /\ todo[r].state \in Owned /\ Proposal(r) \notin claimed
  BY DEF Claims, At, Blocking
<1>2. todo[r].attempts = 0 /\ r \notin broken
  BY <1>1 DEF TickInv, SeenInTick, SeenAsIs
<1>3. Proposal(r) = <<r, 1, Rung(Ladder[r], 1)>>
  BY <1>2 DEF Proposal, NextAttempt, Decide, Rung
<1> QED
  BY <1>1, <1>3 DEF ClaimInv, FirstClaim, Reached

\* Money is not chased twice: after its first claim a record is worked only while
\* it is the agent's own, whatever a tick falls back on and wherever one dies, for
\* any ladders.
THEOREM LetGoStaysAlone ==
  ASSUME DryRun
  PROVE  Spec => LetGoIsLeftAlone
<1> DEFINE Inv == CountInv /\ DeskInv /\ TickInv /\ ClaimInv
<1>1. Init => Inv
  <2> SUFFICES ASSUME Init PROVE TickInv
    BY InitClaim, InitDry
  <2>1. stage = "idle" /\ Free("batch")
    BY DEF Init, HooksInit, Free, Hands
  <2> QED
    BY <2>1 DEF TickInv, HandInTick, TaskInTick, BrokenInTick, SeenInTick
<1>2. DryRun /\ Inv /\ [Next]_vars => Inv'
  BY CountInvStep, DeskStep, TickStepKept, ClaimInvStep
<1>3. Inv /\ [Next]_vars =>
        [\A i \in Started : \A j \in claimed :
           RecordOf(j) = RecordOf(i) => state[RecordOf(i)] \in Owned]_vars
  <2> SUFFICES ASSUME Inv, [Next]_vars, NEW i \in Started, NEW j \in claimed,
                      RecordOf(j) = RecordOf(i)
               PROVE  state[RecordOf(i)] \in Owned
    OBVIOUS
  <2>1. PICK r \in Records : Claims(r)
    BY ClaimMoves DEF Started, ClaimsNothing
  <2>2. i = Proposal(r)
    BY <2>1 DEF Started, Claims
  <2>3. RecordOf(i) = r
    BY <2>2 DEF Proposal, RecordOf
  <2> QED
    BY <2>1, <2>3, OnlyItsOwn DEF Reached
<1> QED
  BY <1>1, <1>2, <1>3, PTL DEF Spec, LetGoIsLeftAlone
-----------------------------------------------------------------------------
\* A dry run that nothing interrupts answers what it sent before the tick ends, so
\* a record is never tried again with an attempt uncounted, whatever the ladders.
Calm == DryRun /\ ~Crashes

InHand(i) ==
  /\ ~Free("batch")
  /\ hand["batch"].at \in {"claimed", "looked"}
  /\ hand["batch"].ev.link = i

\* What is unanswered was sent by this tick, and the tick will settle it ...
AllAnswered ==
  \A r \in Records : \A i \in SentWith(r, {"none"}) :
    \/ stage = "work" /\ r \in DOMAIN todo /\ todo[r].worked
    \/ stage = "settle" /\ (i \in pending \/ InHand(i))

\* ... the simulator's events are not claimed in vain ...
InboxAnswered ==
  \A e \in DOMAIN inbox :
    e.by = "ref" => result[e.link] # "none" \/ InHand(e.link)

\* ... and so only the last row can be unanswered, and the counter is the rows.
OnlyLast ==
  \A r \in Records : \A n \in 1..(Len(rows[r]) - 1) : result[rows[r][n]] # "none"

Counted ==
  \A r \in Records : state[r] # "RECOVERED" =>
    attempts[r] = IF rows[r] # <<>> /\ result[LastSent(r)] = "none"
                  THEN Len(rows[r]) - 1 ELSE Len(rows[r])

\* The call in hand is for a record of this tick with nothing unanswered.
HeldNext ==
  task.do = "record" =>
    LET r == RecordOf(task.iv)
    IN  /\ stage = "work" /\ r \in DOMAIN todo /\ todo[r].worked
        /\ task.iv \notin SentTo(r) /\ Len(rows[r]) + 1 <= task.iv[2]
        /\ SentWith(r, {"none"}) = {}
        /\ state[r] # "RECOVERED" => attempts[r] = Len(rows[r])

CalmInv ==
  /\ AllAnswered
  /\ InboxAnswered
  /\ RowsClimb
  /\ OnlyLast
  /\ Counted
  /\ HeldNext

\* Promises are resolved in the statement that read them.
DueInTick == task.do = "due" => stage = "promises"

ReadInv == CountInv /\ DeskInv /\ TickInv /\ ClaimInv /\ DueInTick

LEMMA DueStep ==
  ASSUME DueInTick, [Next]_vars
  PROVE  DueInTick'
<1>1. CASE TickStep
  <2>1. CASE ReadDue \/ ResolveDue \/ Refresh \/ BeginSettle \/ EndSettle \/ EndTick
    BY <2>1 DEF ReadDue, ResolveDue, Refresh, BeginSettle, EndSettle, EndTick, At, Go,
       DueInTick, Nothing
  <2>2. ASSUME NEW r \in Records, SettlePromise(r) \/ Work(r) \/ ReadReply(r) \/ SelfCure(r)
        PROVE  DueInTick'
    BY <2>2 DEF SettlePromise, Work, Leave, HandOver, Stop, Execute, ReadReply,
       SelfCure, At, batch, DueInTick, Nothing
  <2>3. CASE Commit
    BY <2>3 DEF Commit, DueInTick, Nothing
  <2>4. ASSUME NEW i \in pending, Settle(i) PROVE DueInTick'
    BY <2>4 DEF Settle, DueInTick
  <2>5. CASE UNCHANGED batch
    BY <2>5 DEF batch, DueInTick
  <2> QED
    BY <1>1, <2>1, <2>2, <2>3, <2>4, <2>5 DEF TickStep
<1>2. CASE Begin \/ Crash \/ \E r \in Records : AdvanceClock(r)
  <2>1. CASE Begin
    BY <2>1, BeginMoves DEF At, DueInTick
  <2> QED
    BY <1>2, <2>1 DEF Crash, AdvanceClock, DueInTick, Nothing
<1>3. CASE UNCHANGED batch
  BY <1>3 DEF batch, DueInTick
<1> QED
  BY <1>1, <1>2, <1>3 DEF Next, Deliver, ServerStep, Customer, vars

\* What was answered stays answered.
LEMMA ResultKept ==
  ASSUME CountInv, [Next]_vars, NEW i \in Interventions, result[i] # "none"
  PROVE  result'[i] # "none"
<1>1. CASE Still \/ AddRow
  BY <1>1 DEF Still, AddRow, RecordRow
<1>2. CASE (\E h \in Hands : Answer(h)) \/ (\E j \in pending : Silence(j))
  <2>1. PICK j \in Interventions :
          \/ \E h \in Hands : j = hand[h].iv /\ Answer(h)
          \/ j \in pending /\ Silence(j)
    BY <1>2 DEF CountInv, Answer, HandsFresh, FreshRead, TypeInv, TypeOK, BatchTypeOK
  <2> QED
    BY <2>1, Resolves DEF CountInv, TypeInv, TypeOK, BooksTypeOK
<1> QED
  BY <1>1, <1>2, BookMoves DEF CountInv

\* While the batch is inside handle(), or inside a call, nothing else happens.
LEMMA HandOnly ==
  ASSUME Calm, CountInv, DeskInv, ~Free("batch") \/ task.do = "record", [Next]_vars
  PROVE  \/ HandleStep("batch") /\ ~Free("batch") /\ UNCHANGED batch
         \/ Commit /\ task.do = "record"
         \/ UNCHANGED <<books, inbox, hand, batch>>
<1>1. /\ Free("server") /\ ~At("idle") /\ ~At("promises") /\ ~At("refresh")
      /\ ~At("work") /\ ~At("settle") /\ ~At("replies") /\ task.do # "due"
      /\ ~Free("batch") => task = Nothing
  BY DEF Calm, DryRun, CountInv, Quiet, DeskInv, At, Nothing
<1>2. ~ServerStep
  BY <1>1 DEF ServerStep, HandleStep, Look, Apply, SettleEventRow, Free, Idle
<1>3. CASE TickStep
  <2>1. Commit \/ (HandleStep("batch") /\ UNCHANGED batch)
    BY <1>1, <1>3 DEF TickStep, ReadDue, ResolveDue, Refresh, SettlePromise, Work,
       ReadReply, SelfCure, BeginSettle, Settle, EndSettle, EndTick
  <2>2. ASSUME Commit PROVE task.do = "record"
    BY <1>1, <2>2 DEF Commit, PutInQueue, Close, RecordRow, ReplyToHuman,
       RecordPromise, Nothing
  <2>3. ASSUME HandleStep("batch") PROVE ~Free("batch")
    BY <2>3 DEF HandleStep, Look, Apply, SettleEventRow, Free, Idle
  <2> QED
    BY <2>1, <2>2, <2>3
<1>4. CASE Customer \/ UNCHANGED vars
  BY <1>4 DEF Customer, CustomerPays, CustomerFails, CustomerPaysUnprompted, vars, hooks
<1>5. /\ ~Begin /\ ~Crash
      /\ \A r \in Records : ~AdvanceClock(r)
  BY <1>1 DEF Begin, BeginTick, BeginOnly, AdvanceClock, Crash, Calm
<1>6. RealEvents = {}
  BY DEF Calm, DryRun
<1> QED
  BY <1>2, <1>3, <1>4, <1>5, <1>6 DEF Next

\* What the batch has in hand, it answers.
LEMMA InHandKept ==
  ASSUME Calm, CountInv, DeskInv, [Next]_vars,
         NEW i \in Interventions, InHand(i), result'[i] = "none"
  PROVE  InHand(i)' /\ UNCHANGED batch
<1> DEFINE b == hand["batch"]
<1>1. /\ ~Free("batch") /\ task = Nothing /\ "batch" \in Hands
      /\ b.ev \in emitted /\ b.ev.link = i
      /\ b.at \in {"claimed", "looked"}
      /\ "batch" \in DOMAIN hand
  BY DEF InHand, DeskInv, CountInv, TypeInv, TypeOK, HooksTypeOK, HandsOwn, Hands
<1>2. i # NoLink
  <2>1. Len(i) = 3 /\ Len(<<>>) = 0
    BY DEF Interventions
  <2> QED
    BY <2>1 DEF NoLink
<1>3. b.ev.by = "ref" /\ i \in SentTo(b.ev.rec)
  BY <1>1, <1>2 DEF DeskInv, EventsKnown
<1>4. CASE UNCHANGED <<books, inbox, hand, batch>>
  BY <1>4 DEF InHand, Free
<1>5. CASE Look("batch") /\ UNCHANGED batch
  <2>1. Found(b.ev) = {i}
    BY <1>1, <1>3 DEF Found
  <2>2. hand' = [hand EXCEPT !["batch"] =
                   [at |-> "looked", ev |-> b.ev, iv |-> i, result |-> result[i],
                    state |-> state[RecordOf(i)], attempts |-> attempts[RecordOf(i)]]]
    BY <1>5, <2>1 DEF Look
  <2>3. hand'["batch"].at = "looked" /\ hand'["batch"].ev = b.ev
    BY <1>1, <2>2
  <2> QED
    BY <1>1, <1>5, <2>3 DEF InHand, Free, Idle
<1>6. CASE Apply("batch") /\ UNCHANGED batch
  <2>1. /\ b.at = "looked" /\ b.iv = i /\ b.result = result[i]
        /\ \/ b.result = "RECOVERED" /\ UNCHANGED books
           \/ Credit(i, b.state)
           \/ FailAgain(i, b.result, b.attempts)
    BY <1>1, <1>6 DEF Apply, CountInv, HandsFresh, FreshRead, DeskInv, HandKnows
  <2>2. result'[i] # "none"
    BY <2>1 DEF books, Credit, FailAgain, CountInv, TypeInv, TypeOK, BooksTypeOK
  <2> QED
    BY <2>2
<1>7. ~SettleEventRow("batch")
  BY <1>1 DEF SettleEventRow
<1> QED
  BY <1>1, <1>4, <1>5, <1>6, <1>7, HandOnly DEF HandleStep, Nothing

\* What is new among the claimed events is in the batch's hand.
LEMMA NewInHand ==
  ASSUME Calm, CountInv, DeskInv, [Next]_vars,
         NEW e \in DOMAIN inbox', e \notin DOMAIN inbox
  PROVE  InHand(e.link)'
<1>1. ASSUME NEW x, Receive("batch", x) PROVE InHand(e.link)'
  <2>1. e = x /\ hand'["batch"] = [at |-> "claimed", ev |-> e]
    BY <1>1 DEF Receive, CountInv, TypeInv, HandsOwn, Hands
  <2> QED
    BY <2>1 DEF InHand, Free, Idle
<1>2. DOMAIN inbox' # DOMAIN inbox
  OBVIOUS
<1>3. ASSUME NEW h \in Hands PROVE ~HandleStep(h)
  BY <1>2, <1>3 DEF HandleStep, Look, Apply, SettleEventRow
<1>4. CASE TickStep
  <2>1. ~ReadDue /\ ~ResolveDue /\ ~Refresh /\ ~Commit /\ ~BeginSettle /\ ~EndSettle
        /\ ~EndTick /\ \A r \in Records : ~Work(r) /\ ~ReadReply(r)
    BY <1>2 DEF ReadDue, ResolveDue, Refresh, Commit, BeginSettle, EndSettle, EndTick,
       Work, ReadReply, hooks
  <2>2. ASSUME NEW r \in Records, SettlePromise(r) \/ SelfCure(r)
        PROVE  InHand(e.link)'
    BY <1>1, <2>2 DEF SettlePromise, SelfCure
  <2>3. ASSUME NEW i \in pending, Settle(i) PROVE InHand(e.link)'
    BY <1>1, <1>2, <2>3 DEF Settle, SettlePaid, SettleFailed, SettleSilence, hooks
  <2> QED
    BY <1>3, <1>4, <2>1, <2>2, <2>3 DEF TickStep, Hands
<1>5. /\ ~Begin /\ ~Customer /\ ~Crash /\ vars' # vars
      /\ \A r \in Records : ~AdvanceClock(r)
  BY <1>2 DEF Begin, BeginTick, BeginOnly, Customer, CustomerPays, CustomerFails,
     CustomerPaysUnprompted, Crash, AdvanceClock, hooks, vars
<1>6. RealEvents = {} /\ ~ServerStep
  BY <1>3 DEF Calm, DryRun, ServerStep, Hands
<1> QED
  BY <1>4, <1>5, <1>6 DEF Next

\* No event of the simulator is claimed in vain.
LEMMA InboxStep ==
  ASSUME Calm, CountInv, DeskInv, InboxAnswered, [Next]_vars
  PROVE  InboxAnswered'
<1> SUFFICES ASSUME NEW e \in DOMAIN inbox', e.by = "ref"
             PROVE  result'[e.link] # "none" \/ InHand(e.link)'
  BY DEF InboxAnswered
<1>1. CASE e \notin DOMAIN inbox
  BY <1>1, NewInHand
<1>2. CASE e \in DOMAIN inbox
  <2>1. e.link \in Interventions
    BY <1>2 DEF CountInv, TypeInv, TypeOK, HooksTypeOK, EventsOwn, RowsOwn, DeskInv,
       EventsKnown
  <2>2. result[e.link] # "none" \/ InHand(e.link)
    BY <1>2 DEF InboxAnswered
  <2> QED
    BY <2>1, <2>2, ResultKept, InHandKept
<1> QED
  BY <1>1, <1>2

\* What is unanswered after a step was unanswered before it, or is the row it wrote.
LEMMA StillUnanswered ==
  ASSUME CountInv, [Next]_vars, NEW r \in Records, NEW i \in SentWith(r, {"none"})'
  PROVE  /\ i \in Interventions /\ RecordOf(i) = r /\ result[i] = "none"
         /\ \/ i \in SentWith(r, {"none"})
            \/ AddRow /\ i = task.iv
<1>1. i \in SentTo(r)' /\ result'[i] = "none"
  BY DEF SentWith
<1>2. i \in Interventions /\ RecordOf(i) = r
  BY <1>1, TypeStep DEF CountInv, TypeInv, RowsOwn
<1>3. result[i] = "none"
  BY <1>1, <1>2, ResultKept
<1>4. CASE rows' = rows
  BY <1>1, <1>2, <1>3, <1>4 DEF SentWith, SentTo
<1>5. CASE AddRow
  BY <1>1, <1>2, <1>3, <1>5, RecordRowSent DEF CountInv, AddRow, RecordRow, SentWith
<1>6. ASSUME NEW h \in Hands, Answer(h) PROVE rows' = rows
  BY <1>6 DEF Answer, Credit, FailAgain
<1>7. ASSUME NEW j \in pending, Silence(j) PROVE rows' = rows
  BY <1>7 DEF Silence, MarkNoResponse
<1> QED
  BY <1>2, <1>3, <1>4, <1>5, <1>6, <1>7, BookMoves DEF CountInv, Still

\* What the tick has sent waits for the tick to settle it.
LEMMA AnsweredStep ==
  ASSUME Calm, ReadInv, AllAnswered, InboxAnswered, HeldNext, [Next]_vars
  PROVE  AllAnswered'
<1> USE DEF ReadInv
<1> SUFFICES ASSUME NEW r \in Records, NEW i \in SentWith(r, {"none"})'
             PROVE  \/ stage' = "work" /\ r \in DOMAIN todo' /\ todo'[r].worked
                    \/ stage' = "settle" /\ (i \in pending' \/ InHand(i)')
  BY DEF AllAnswered
<1>1. /\ i \in Interventions /\ RecordOf(i) = r /\ result[i] = "none"
      /\ result'[i] = "none"
      /\ i \in SentWith(r, {"none"}) \/ (AddRow /\ i = task.iv)
  BY StillUnanswered DEF SentWith
<1>2. ASSUME UNCHANGED <<stage, todo, pending>>, i \notin SentWith(r, {"none"}) \/ ~InHand(i)
      PROVE  \/ stage' = "work" /\ r \in DOMAIN todo' /\ todo'[r].worked
             \/ stage' = "settle" /\ (i \in pending' \/ InHand(i)')
  <2>1. CASE i \in SentWith(r, {"none"})
    BY <1>2, <2>1 DEF AllAnswered
  <2>2. CASE i \notin SentWith(r, {"none"})
    BY <1>1, <1>2, <2>2 DEF HeldNext, AddRow, RecordRow
  <2> QED
    BY <2>1, <2>2
<1>3. CASE i \notin SentWith(r, {"none"})
  <2>1. Commit
    <3>1. task.do = "record" /\ task' = Nothing
      BY <1>1, <1>3 DEF AddRow, RecordRow
    <3>2. task' # task /\ ~(HandleStep("batch") /\ ~Free("batch"))
      BY <3>1 DEF Nothing, DeskInv
    <3> QED
      BY <3>1, <3>2, HandOnly DEF batch
  <2> QED
    BY <1>2, <1>3, <2>1 DEF Commit
<1>4. CASE InHand(i)
  <2>1. InHand(i)' /\ UNCHANGED batch /\ task = Nothing
    BY <1>1, <1>4, InHandKept DEF InHand, DeskInv
  <2>2. i \in SentWith(r, {"none"})
    BY <1>1, <2>1 DEF AddRow, RecordRow, Nothing
  <2> QED
    BY <2>1, <2>2 DEF AllAnswered, batch
<1>5. CASE i \in SentWith(r, {"none"}) /\ ~InHand(i)
  <2>1. \/ stage = "work" /\ r \in DOMAIN todo /\ todo[r].worked
        \/ stage = "settle" /\ i \in pending
    BY <1>5 DEF AllAnswered
  <2>2. CASE UNCHANGED <<stage, todo, pending>>
    BY <1>2, <1>5, <2>2
  <2>3. ASSUME NEW x \in Records, Work(x)
        PROVE  stage' = "work" /\ r \in DOMAIN todo' /\ todo'[r].worked
    <3>1. /\ stage = "work" /\ stage' = stage /\ todo' = [todo EXCEPT ![x].worked = TRUE]
      BY <2>3 DEF Work, At, Leave, HandOver, Stop, Execute, Worked
    <3>2. todo[r] \in [state : States, attempts : Nat, worked : BOOLEAN]
      BY <2>1, <3>1 DEF CountInv, TypeInv, TypeOK, BatchTypeOK
    <3> QED
      BY <2>1, <3>1, <3>2
  <2>4. CASE BeginSettle
    <3>1. r \in DOMAIN todo /\ i \notin linked
      BY <2>1, <2>4 DEF BeginSettle, At, Calm, DryRun, CountInv, Quiet
    <3> QED
      BY <1>1, <1>5, <2>4, <3>1 DEF BeginSettle, Unanswered, SentWith, Go
  <2>5. ASSUME NEW j \in pending, Settle(j)
        PROVE  stage' = "settle" /\ (i \in pending' \/ InHand(i)')
    <3>1. stage' = "settle" /\ pending' = pending \ {j} /\ i \in pending /\ Free("batch")
      BY <2>1, <2>5 DEF Settle, At
    <3>2. CASE i # j
      BY <3>1, <3>2
    <3>3. CASE i = j
      <4>1. ASSUME NEW e, e.by = "ref", e.link = i, Receive("batch", e)
            PROVE  InHand(i)'
        <5>1. e \notin DOMAIN inbox
          BY <1>1, <3>1, <4>1 DEF InboxAnswered, InHand
        <5>2. hand'["batch"] = [at |-> "claimed", ev |-> e]
          BY <4>1, <5>1 DEF Receive, CountInv, TypeInv, HandsOwn, Hands
        <5> QED
          BY <4>1, <5>2 DEF InHand, Free, Idle
      <4>2. ~SettleSilence(j)
        BY <1>1, <3>3 DEF SettleSilence, MarkNoResponse, CountInv, TypeInv, TypeOK,
           BooksTypeOK
      <4>3. LinkPaid(i, <<"settle", 0>>).by = "ref"
            /\ LinkPaid(i, <<"settle", 0>>).link = i
            /\ Failed(i, "ref", <<"settle", 0>>).by = "ref"
            /\ Failed(i, "ref", <<"settle", 0>>).link = i
        BY DEF LinkPaid, Failed, Event
      <4>4. InHand(i)'
        BY <2>5, <3>3, <4>1, <4>2, <4>3 DEF Settle, SettlePaid, SettleFailed
      <4> QED
        BY <3>1, <4>4
    <3> QED
      BY <3>2, <3>3
  <2>6. /\ ~Begin /\ ~ReadDue /\ ~ResolveDue /\ ~Refresh /\ ~EndSettle /\ ~EndTick
        /\ ~Crash
    <3>1. ~ResolveDue
      BY <2>1 DEF ResolveDue, DueInTick
    <3> QED
      BY <2>1, <3>1 DEF Begin, BeginTick, BeginOnly, ReadDue, Refresh, EndSettle, EndTick,
         At, Crash, Calm
  <2>7. ASSUME NEW x \in Records,
               SettlePromise(x) \/ ReadReply(x) \/ SelfCure(x) \/ AdvanceClock(x)
        PROVE  UNCHANGED <<stage, todo, pending>>
    BY <2>7 DEF SettlePromise, ReadReply, SelfCure, AdvanceClock, batch
  <2>8. CASE Commit \/ UNCHANGED batch
    BY <2>2, <2>8 DEF Commit, batch
  <2> QED
    BY <2>2, <2>3, <2>4, <2>5, <2>6, <2>7, <2>8
       DEF Next, TickStep, Deliver, ServerStep, Customer, vars
<1> QED
  BY <1>3, <1>4, <1>5

\* The turn of one record: what it sends next is one above its rows.
LEMMA HeldStep ==
  ASSUME Calm, ReadInv, CalmInv, [Next]_vars
  PROVE  HeldNext'
<1> SUFFICES ASSUME task'.do = "record" PROVE HeldNext'
  BY DEF HeldNext
<1> USE DEF ReadInv
<1>1. CASE ClaimsNothing
  <2>1. task' = task /\ task.do = "record"
    BY <1>1 DEF ClaimsNothing
  <2>2. UNCHANGED books /\ UNCHANGED batch
    <3>1. ~Commit /\ Free("batch")
      BY <2>1 DEF Commit, Nothing, DeskInv
    <3> QED
      BY <2>1, <3>1, HandOnly
  <2> QED
    BY <2>1, <2>2 DEF CalmInv, HeldNext, SentWith, SentTo, books, batch
<1>2. ASSUME NEW x \in Records, Claims(x) PROVE HeldNext'
  <2>0. task = Nothing /\ task' # task /\ stage = "work" /\ Free("batch")
    BY <1>2 DEF Claims, At, Nothing
  <2>1. PICK r \in Records : Work(r)
    <3>1. claimed' # claimed
      <4>1. Proposal(x) \notin claimed
        BY <1>2 DEF Claims, Blocking
      <4> QED
        BY <1>2, <4>1 DEF Claims
    <3>2. CASE TickStep
      <4>1. ASSUME NEW i \in pending PROVE ~Settle(i)
        BY <3>1 DEF Settle
      <4>2. ~ReadDue /\ ~ResolveDue /\ ~Refresh /\ ~Commit /\ ~BeginSettle /\ ~EndSettle
            /\ ~EndTick /\ ~UNCHANGED batch
            /\ \A r \in Records : ~SettlePromise(r) /\ ~ReadReply(r) /\ ~SelfCure(r)
        BY <3>1 DEF ReadDue, ResolveDue, Refresh, Commit, BeginSettle, EndSettle,
           EndTick, SettlePromise, ReadReply, SelfCure, batch
      <4> QED
        BY <3>2, <4>1, <4>2 DEF TickStep
    <3>3. /\ ~Begin /\ ~Crash /\ ~UNCHANGED batch /\ vars' # vars
          /\ \A r \in Records : ~AdvanceClock(r)
      BY <3>1 DEF Begin, BeginTick, BeginOnly, Crash, AdvanceClock, batch, vars
    <3> QED
      BY <3>2, <3>3 DEF Next, Deliver, ServerStep, Customer
  <2>2. /\ Execute(r) /\ r \in DOMAIN todo /\ ~todo[r].worked
        /\ \E verdict \in Verdicts : ~Blocking(r, verdict)
        /\ Decide(r) \in Actions
        /\ stage' = stage /\ UNCHANGED hand
    <3>1. ~HandOver(r)
      BY <2>0 DEF HandOver, Nothing
    <3>2. ~Stop(r)
      BY <2>0 DEF Stop, Nothing
    <3>3. ~Leave(r)
      BY <2>0 DEF Leave
    <3> QED
      BY <2>1, <3>1, <3>2, <3>3 DEF Work
  <2>3. /\ task' = [do |-> "record", iv |-> Proposal(r)]
        /\ todo' = [todo EXCEPT ![r].worked = TRUE]
        /\ UNCHANGED books
    BY <2>0, <2>2 DEF Execute, Worked
  <2>4. Claims(r)
    BY <2>0, <2>1, <2>2, <2>3 DEF Claims, Execute, Work, At
  <2>5. /\ Proposal(r) \in Interventions /\ RecordOf(Proposal(r)) = r
        /\ Proposal(r)[2] = NextAttempt(r) /\ Proposal(r) \notin claimed
    BY <2>2, ProposalType DEF CountInv
  <2>6. r \in DOMAIN todo' /\ todo'[r].worked
    <3>1. todo[r] \in [state : States, attempts : Nat, worked : BOOLEAN]
      BY <2>2 DEF CountInv, TypeInv, TypeOK, BatchTypeOK
    <3> QED
      BY <2>2, <2>3, <3>1
  <2>7. SentWith(r, {"none"}) = {}
    <3>1. ASSUME NEW i \in SentWith(r, {"none"}) PROVE FALSE
      BY <2>0, <2>2, <3>1 DEF CalmInv, AllAnswered
    <3> QED
      BY <3>1
  <2>8. rows[r] \in Seq(Interventions) /\ Len(rows[r]) \in Nat
    BY DEF CountInv, TypeInv, TypeOK, BooksTypeOK
  <2>9. state[r] # "RECOVERED" => attempts[r] = Len(rows[r])
    <3>1. CASE rows[r] = <<>>
      BY <3>1 DEF CalmInv, Counted
    <3>2. CASE rows[r] # <<>>
      <4>1. LastSent(r) \in SentTo(r)
        BY <3>2, LastIsSent DEF CountInv, TypeInv, TypeOK
      <4>2. result[LastSent(r)] # "none"
        BY <2>7, <4>1 DEF SentWith
      <4> QED
        BY <4>2 DEF CalmInv, Counted
    <3> QED
      BY <3>1, <3>2
  <2>10. Len(rows[r]) + 1 <= NextAttempt(r)
    <3>1. CASE Reached(r)
      <4>1. state[r] \in Owned
        BY <2>4, <3>1, OnlyItsOwn
      <4>2. todo[r].attempts = attempts[r]
        BY <2>0, <2>2, <4>1 DEF TickInv, SeenInTick, SeenAsIs
      <4> QED
        BY <2>8, <2>9, <4>1, <4>2 DEF NextAttempt, Owned
    <3>2. CASE ~Reached(r)
      <4>1. Proposal(r) = <<r, 1, Rung(Ladder[r], 1)>>
        BY <2>4, <3>2, FirstProposal
      <4>2. NextAttempt(r) = 1
        BY <2>5, <4>1
      <4>3. Len(rows[r]) = 0
        <5> SUFFICES ASSUME Len(rows[r]) # 0 PROVE FALSE
          OBVIOUS
        <5>1. Len(rows[r]) \in 1..Len(rows[r])
          BY <2>8
        <5>2. rows[r][Len(rows[r])] \in SentTo(r)
          BY <5>1 DEF SentTo
        <5> QED
          BY <3>2, <5>2 DEF ClaimInv, SentClaimed, Reached, CountInv, TypeInv, RowsOwn
      <4> QED
        BY <4>2, <4>3
    <3> QED
      BY <3>1, <3>2
  <2>11. Proposal(r) \notin SentTo(r)
    BY <2>5 DEF ClaimInv, SentClaimed
  <2>12. /\ state' = state /\ attempts' = attempts /\ rows' = rows /\ result' = result
         /\ task'.iv = Proposal(r)
    BY <2>3 DEF books
  <2>13. SentWith(r, {"none"})' = SentWith(r, {"none"}) /\ SentTo(r)' = SentTo(r)
    BY <2>12 DEF SentWith, SentTo
  <2> QED
    BY <2>0, <2>2, <2>5, <2>6, <2>7, <2>9, <2>10, <2>11, <2>12, <2>13 DEF HeldNext
<1> QED
  BY <1>1, <1>2, ClaimMoves

\* A row is written for a record with nothing unanswered, one above its rows.
LEMMA RowCalm ==
  ASSUME ReadInv, CalmInv, AddRow, [Next]_vars
  PROVE  RowsClimb' /\ OnlyLast' /\ Counted'
<1> DEFINE i == task.iv
           r == RecordOf(i)
<1> USE DEF ReadInv, CalmInv
<1>1. /\ task.do = "record" /\ i \in Interventions /\ r \in Records
      /\ rows' = [rows EXCEPT ![r] = Append(@, i)]
      /\ UNCHANGED <<state, result, attempts>>
  BY RecordRowSent DEF AddRow, RecordRow, CountInv
<1>2. /\ i \notin SentTo(r) /\ Len(rows[r]) + 1 <= i[2] /\ SentWith(r, {"none"}) = {}
      /\ state[r] # "RECOVERED" => attempts[r] = Len(rows[r])
  BY <1>1 DEF HeldNext
<1>3. result[i] = "none"
  BY <1>1, <1>2 DEF CountInv, SentResolve
<1>4. /\ rows[r] \in Seq(Interventions) /\ Len(rows[r]) \in Nat
      /\ \A x \in Records : rows'[x] = IF x = r THEN Append(rows[r], i) ELSE rows[x]
  BY <1>1 DEF CountInv, TypeInv, TypeOK, BooksTypeOK
<1>5. /\ Len(Append(rows[r], i)) = Len(rows[r]) + 1
      /\ Append(rows[r], i)[Len(rows[r]) + 1] = i
      /\ \A n \in 1..Len(rows[r]) : Append(rows[r], i)[n] = rows[r][n]
      /\ Append(rows[r], i) # <<>>
  BY <1>1, <1>4
<1>6. \A n \in 1..Len(rows[r]) : result[rows[r][n]] # "none"
  BY <1>2 DEF SentWith, SentTo
<1>7. RowsClimb'
  <2>1. ASSUME NEW n \in 1..(Len(rows[r]) + 1) PROVE n <= Append(rows[r], i)[n][2]
    <3>1. CASE n = Len(rows[r]) + 1
      BY <1>2, <1>5, <3>1
    <3>2. CASE n \in 1..Len(rows[r])
      BY <1>1, <1>5, <3>2 DEF RowsClimb
    <3> QED
      BY <1>4, <3>1, <3>2
  <2> QED
    BY <1>4, <1>5, <2>1 DEF RowsClimb
<1>8. OnlyLast'
  <2>1. ASSUME NEW x \in Records, NEW n \in 1..(Len(rows'[x]) - 1)
        PROVE  result[rows'[x][n]] # "none"
    <3>1. CASE x = r
      <4>1. rows'[x] = Append(rows[r], i)
        BY <1>4, <3>1
      <4>2. Len(rows'[x]) - 1 = Len(rows[r])
        BY <1>4, <1>5, <4>1
      <4> QED
        BY <1>5, <1>6, <2>1, <4>1, <4>2
    <3>2. CASE x # r
      BY <1>4, <3>2 DEF OnlyLast
    <3> QED
      BY <3>1, <3>2
  <2> QED
    BY <1>1, <2>1 DEF OnlyLast
<1>9. Counted'
  <2>1. \A x \in Records \ {r} : rows'[x] = rows[x]
    BY <1>4
  <2>2. rows'[r] = Append(rows[r], i)
    BY <1>1, <1>4
  <2>3. \A x \in Records \ {r} : LastSent(x)' = LastSent(x)
    BY <2>1 DEF LastSent
  <2>4. \A x \in Records : x = r => LastSent(x)' = i
    BY <1>4, <1>5, <2>2 DEF LastSent
  <2>5. state[r] # "RECOVERED" => attempts[r] = Len(rows'[r]) - 1
    BY <1>2, <1>4, <1>5, <2>2
  <2> SUFFICES ASSUME NEW x \in Records, state[x] # "RECOVERED"
               PROVE  attempts[x] = IF rows'[x] # <<>> /\ result[LastSent(x)'] = "none"
                                    THEN Len(rows'[x]) - 1 ELSE Len(rows'[x])
    BY <1>1 DEF Counted
  <2>6. CASE x = r
    BY <1>3, <1>5, <2>2, <2>4, <2>5, <2>6
  <2>7. CASE x # r
    BY <2>1, <2>3, <2>7 DEF Counted
  <2> QED
    BY <2>6, <2>7
<1> QED
  BY <1>7, <1>8, <1>9

\* A resolution: of the last row if it was unanswered, and then it is counted,
\* unless the record is recovered by it.
LEMMA ResolveCalm ==
  ASSUME ReadInv, CalmInv, DeskInv', rows' = rows,
         \A r \in Records : state[r] = "RECOVERED" => state'[r] = "RECOVERED",
         NEW i \in Interventions, i \in SentTo(RecordOf(i)),
         NEW new \in Results \ {"none"},
         result' = [result EXCEPT ![i] = new],
         attempts' = IF result[i] = "none" /\ new # "RECOVERED"
                     THEN [attempts EXCEPT ![RecordOf(i)] = @ + 1]
                     ELSE attempts
  PROVE  RowsClimb' /\ OnlyLast' /\ Counted'
<1> USE DEF ReadInv, CalmInv
<1>1. /\ \A j \in Interventions : result'[j] = IF j = i THEN new ELSE result[j]
      /\ new # "none" /\ RecordOf(i) \in Records
  BY DEF CountInv, TypeInv, TypeOK, BooksTypeOK, Interventions, RecordOf
<1>2. \A r \in Records : /\ rows[r] \in Seq(Interventions) /\ Len(rows[r]) \in Nat
                         /\ \A n \in 1..Len(rows[r]) : rows[r][n] \in Interventions
                         /\ attempts[r] \in Nat
  BY DEF CountInv, TypeInv, TypeOK, BooksTypeOK
<1>3. RowsClimb'
  BY DEF RowsClimb
<1>4. OnlyLast'
  <2> SUFFICES ASSUME NEW r \in Records, NEW n \in 1..(Len(rows[r]) - 1)
               PROVE  result'[rows[r][n]] # "none"
    BY DEF OnlyLast
  <2>1. n \in 1..Len(rows[r])
    BY <1>2
  <2> QED
    BY <1>1, <1>2, <2>1 DEF OnlyLast
<1>5. Counted'
  <2> SUFFICES ASSUME NEW r \in Records, state'[r] # "RECOVERED"
               PROVE  attempts'[r] = IF rows[r] # <<>> /\ result'[LastSent(r)] = "none"
                                     THEN Len(rows[r]) - 1 ELSE Len(rows[r])
    BY DEF Counted, LastSent
  <2>1. attempts[r] = IF rows[r] # <<>> /\ result[LastSent(r)] = "none"
                      THEN Len(rows[r]) - 1 ELSE Len(rows[r])
    BY DEF Counted
  <2>2. rows[r] # <<>> => /\ LastSent(r) \in Interventions
                          /\ RecordOf(LastSent(r)) = r
    BY LastIsSent DEF CountInv, TypeInv, TypeOK, RowsOwn
  <2>3. CASE r # RecordOf(i)
    <3>1. attempts'[r] = attempts[r]
      BY <1>1, <2>3 DEF CountInv, TypeInv, TypeOK, BooksTypeOK
    <3> QED
      BY <1>1, <2>1, <2>2, <2>3, <3>1
  <2>4. CASE r = RecordOf(i)
    <3>1. new # "RECOVERED"
      BY <1>1, <2>4 DEF DeskInv, Credited
    <3>2. PICK n \in 1..Len(rows[r]) : rows[r][n] = i
      BY <2>4 DEF SentTo
    <3>3. rows[r] # <<>>
      <4>1. rows[r] = <<>> => Len(rows[r]) = 0
        OBVIOUS
      <4> QED
        BY <1>2, <3>2, <4>1
    <3>4. CASE result[i] = "none"
      <4>1. n = Len(rows[r])
        <5>1. n \notin 1..(Len(rows[r]) - 1)
          BY <3>2, <3>4 DEF OnlyLast
        <5> QED
          BY <1>2, <5>1
      <4>2. LastSent(r) = i
        BY <3>2, <4>1 DEF LastSent
      <4>3. attempts'[r] = attempts[r] + 1
        BY <2>4, <3>1, <3>4 DEF CountInv, TypeInv, TypeOK, BooksTypeOK
      <4> QED
        BY <1>1, <1>2, <2>1, <3>3, <3>4, <4>2, <4>3
    <3>5. CASE result[i] # "none"
      BY <1>1, <2>1, <2>2, <3>3, <3>5
    <3> QED
      BY <3>4, <3>5
  <2> QED
    BY <2>3, <2>4
<1> QED
  BY <1>3, <1>4, <1>5

\* Rows, results and counters stay in step.
LEMMA BooksCalm ==
  ASSUME Calm, ReadInv, CalmInv, [Next]_vars
  PROVE  RowsClimb' /\ OnlyLast' /\ Counted'
<1> USE DEF ReadInv
<1>1. DeskInv' /\ \A r \in Records : state[r] = "RECOVERED" => state'[r] = "RECOVERED"
  BY DeskStep DEF Calm
<1>2. ASSUME UNCHANGED <<rows, result, attempts>>
      PROVE  RowsClimb' /\ OnlyLast' /\ Counted'
  <2>1. \A r \in Records : LastSent(r)' = LastSent(r)
    BY <1>2 DEF LastSent
  <2> QED
    BY <1>1, <1>2, <2>1 DEF CalmInv, RowsClimb, OnlyLast, Counted
<1>3. CASE AddRow
  BY <1>3, RowCalm
<1>4. CASE (\E h \in Hands : Answer(h)) \/ (\E j \in pending : Silence(j))
  <2>1. PICK j \in Interventions :
          \/ \E h \in Hands : j = hand[h].iv /\ Answer(h)
          \/ j \in pending /\ Silence(j)
    BY <1>4 DEF CountInv, Answer, HandsFresh, FreshRead, TypeInv, TypeOK, BatchTypeOK
  <2>2. /\ j \in SentTo(RecordOf(j))
        /\ rows' = rows
        /\ \/ UNCHANGED <<result, attempts>>
           \/ /\ result[j] # "RECOVERED"
              /\ \E new \in Results \ {"none"} :
                   /\ result' = [result EXCEPT ![j] = new]
                   /\ attempts' = IF result[j] = "none" /\ new # "RECOVERED"
                                  THEN [attempts EXCEPT ![RecordOf(j)] = @ + 1]
                                  ELSE attempts
    BY <2>1, Resolves
  <2> QED
    BY <1>1, <1>2, <2>2, ResolveCalm
<1> QED
  BY <1>2, <1>3, <1>4, BookMoves DEF CountInv, Still

LEMMA CalmInvStep ==
  ASSUME Calm, ReadInv, CalmInv, [Next]_vars
  PROVE  CalmInv'
BY InboxStep, AnsweredStep, HeldStep, BooksCalm DEF ReadInv, CalmInv

LEMMA ReadInvStep ==
  ASSUME DryRun, ReadInv, [Next]_vars
  PROVE  ReadInv'
BY CountInvStep, DeskStep, TickStepKept, ClaimInvStep, DueStep DEF ReadInv

LEMMA InitRead == Init => ReadInv
<1> SUFFICES ASSUME Init PROVE ReadInv
  OBVIOUS
<1>1. stage = "idle" /\ Free("batch") /\ task = Nothing
  BY DEF Init, HooksInit, Free, Hands
<1>2. TickInv
  BY <1>1 DEF TickInv, HandInTick, TaskInTick, BrokenInTick, SeenInTick
<1>3. DueInTick
  BY <1>1 DEF DueInTick, Nothing
<1> QED
  BY <1>2, <1>3, InitClaim, InitDry DEF ReadInv

LEMMA InitCalm == Init => CalmInv
<1> SUFFICES ASSUME Init PROVE CalmInv
  OBVIOUS
<1>1. /\ \A r \in Records : rows[r] = <<>> /\ attempts[r] = 0
      /\ DOMAIN inbox = {} /\ task = Nothing
  BY DEF Init, BooksInit, HooksInit
<1>2. Len(<<>>) = 0 /\ 1..0 = {} /\ 1..(0 - 1) = {}
  OBVIOUS
<1>3. \A r \in Records : SentWith(r, {"none"}) = {}
  BY <1>1, <1>2 DEF SentWith, SentTo
<1>4. AllAnswered /\ InboxAnswered /\ HeldNext
  BY <1>1, <1>3 DEF AllAnswered, InboxAnswered, HeldNext, Nothing
<1>5. RowsClimb /\ OnlyLast /\ Counted
  BY <1>1, <1>2 DEF RowsClimb, OnlyLast, Counted
<1> QED
  BY <1>4, <1>5 DEF CalmInv

\* No record is tried more often than the hard cap in a dry run that nothing
\* interrupts, for any ladders: when its promise breaks and the stall ladder sends
\* something else under a number already used, the number is one that was answered.
THEOREM CapIsHeldInOneGo ==
  ASSUME Calm
  PROVE  Spec => []CapHolds
<1>1. ReadInv /\ CalmInv => CapHolds
  <2> SUFFICES ASSUME ReadInv, CalmInv PROVE CapHolds
    OBVIOUS
  <2> QED
    BY ClimbCaps DEF ReadInv, CountInv, CalmInv
<1>2. Calm /\ (ReadInv /\ CalmInv) /\ [Next]_vars => (ReadInv /\ CalmInv)'
  BY ReadInvStep, CalmInvStep DEF Calm
<1> QED
  BY <1>1, <1>2, InitRead, InitCalm, PTL DEF Spec

\* And the agent waits for an answer before it tries a record again.
THEOREM OneIsUnansweredInOneGo ==
  ASSUME Calm
  PROVE  Spec => []OneUnanswered
<1>1. ReadInv /\ CalmInv => OneUnanswered
  <2> SUFFICES ASSUME ReadInv, CalmInv, NEW r \in Records
               PROVE  Cardinality(SentWith(r, {"none"})) <= 1
    BY DEF OneUnanswered
  <2>1. rows[r] \in Seq(Interventions) /\ Len(rows[r]) \in Nat
    BY DEF ReadInv, CountInv, TypeInv, TypeOK, BooksTypeOK
  <2>2. \A i \in SentWith(r, {"none"}) : i = LastSent(r)
    <3> TAKE i \in SentWith(r, {"none"})
    <3>1. PICK n \in 1..Len(rows[r]) : rows[r][n] = i /\ result[i] = "none"
      BY DEF SentWith, SentTo
    <3>2. n \notin 1..(Len(rows[r]) - 1)
      BY <3>1 DEF CalmInv, OnlyLast
    <3>3. n = Len(rows[r])
      BY <2>1, <3>2
    <3> QED
      BY <3>1, <3>3 DEF LastSent
  <2>3. SentWith(r, {"none"}) \in {{}, {LastSent(r)}}
    BY <2>2
  <2>4. Cardinality({}) = 0
    BY FS_EmptySet
  <2>5. Cardinality({LastSent(r)}) = 1
    BY FS_Singleton
  <2> QED
    BY <2>3, <2>4, <2>5
<1>2. Calm /\ (ReadInv /\ CalmInv) /\ [Next]_vars => (ReadInv /\ CalmInv)'
  BY ReadInvStep, CalmInvStep DEF Calm
<1> QED
  BY <1>1, <1>2, InitRead, InitCalm, PTL DEF Spec

-----------------------------------------------------------------------------
\* A dry run implements RecordLife.  What a hand found unprompted is still open
\* when the hand books it, as nothing else writes in between.
UnpromptedOpen ==
  LET b == hand["batch"]
  IN  b.at = "unprompted" => state[b.ev.rec] \notin Terminal

\* The steps of a dry run that write the books.
LEMMA BookWriters ==
  ASSUME DryRun, CountInv, [Next]_vars
  PROVE  \/ UNCHANGED books
         \/ ResolveDue
         \/ Commit
         \/ Apply("batch") /\ UNCHANGED batch
         \/ \E i \in pending : Silence(i) /\ claimed' = claimed
<1>1. CASE TickStep
  <2>1. CASE ReadDue \/ Refresh \/ BeginSettle \/ EndSettle \/ EndTick
    BY <2>1 DEF ReadDue, Refresh, BeginSettle, EndSettle, EndTick
  <2>2. ASSUME NEW r \in Records, SettlePromise(r) \/ Work(r) \/ ReadReply(r) \/ SelfCure(r)
        PROVE  UNCHANGED books
    BY <2>2 DEF SettlePromise, Work, Leave, HandOver, Stop, Execute, ReadReply,
       SelfCure, Receive
  <2>3. ASSUME NEW i \in pending, Settle(i)
        PROVE  UNCHANGED books \/ (Silence(i) /\ claimed' = claimed)
    BY <2>3 DEF Settle, SettlePaid, SettleFailed, SettleSilence, Silence, Receive, hooks
  <2>4. CASE HandleStep("batch") /\ UNCHANGED batch
    BY <2>4 DEF HandleStep, Look, SettleEventRow
  <2> QED
    BY <1>1, <2>1, <2>2, <2>3, <2>4 DEF TickStep
<1>2. CASE Begin \/ Crash \/ Customer \/ \E r \in Records : AdvanceClock(r)
  BY <1>2 DEF Begin, BeginTick, BeginOnly, Crash, Customer, CustomerPays, CustomerFails,
     CustomerPaysUnprompted, AdvanceClock
<1>3. ~ServerStep
  BY DEF DryRun, CountInv, Quiet, ServerStep, HandleStep, Look, Apply,
     SettleEventRow, Free, Idle
<1>4. CASE UNCHANGED vars
  BY <1>4 DEF vars
<1> QED
  BY <1>1, <1>2, <1>3, <1>4 DEF Next, DryRun

\* The batch's hand moves by its own statements only.
LEMMA HandMoves ==
  ASSUME DryRun, CountInv, [Next]_vars, hand'["batch"].at = "unprompted"
  PROVE  hand'["batch"] = hand["batch"] \/ Look("batch")
<1>1. "batch" \in Hands /\ DOMAIN hand = Hands
  BY DEF Hands, CountInv, TypeInv, HandsOwn
<1>2. ASSUME NEW e, Receive("batch", e) PROVE hand' = hand
  <2>1. CASE hand' = [hand EXCEPT !["batch"] = [at |-> "claimed", ev |-> e]]
    BY <1>1, <2>1
  <2> QED
    BY <1>2, <2>1 DEF Receive
<1>3. CASE HandleStep("batch")
  <2>1. CASE Apply("batch")
    <3>1. PICK o \in Outcomes : Decided("batch", o)
      BY <2>1 DEF Apply, Outcomes
    <3> QED
      BY <1>1, <3>1 DEF Decided
  <2>2. CASE SettleEventRow("batch")
    BY <1>1, <2>2 DEF SettleEventRow, Idle
  <2> QED
    BY <1>3, <2>1, <2>2 DEF HandleStep
<1>4. CASE TickStep
  <2>1. CASE ReadDue \/ ResolveDue \/ Refresh \/ Commit \/ BeginSettle \/ EndSettle
             \/ EndTick \/ \E r \in Records : Work(r) \/ ReadReply(r)
    BY <2>1 DEF ReadDue, ResolveDue, Refresh, Commit, BeginSettle, EndSettle, EndTick,
       Work, ReadReply, hooks
  <2>2. ASSUME NEW r \in Records, SettlePromise(r) \/ SelfCure(r) PROVE hand' = hand
    BY <1>2, <2>2 DEF SettlePromise, SelfCure
  <2>3. ASSUME NEW i \in pending, Settle(i) PROVE hand' = hand
    BY <1>2, <2>3 DEF Settle, SettlePaid, SettleFailed, SettleSilence, hooks
  <2> QED
    BY <1>3, <1>4, <2>1, <2>2, <2>3 DEF TickStep
<1>5. CASE Crash
  BY <1>1, <1>5 DEF Crash, Idle
<1>6. CASE Begin \/ Customer \/ UNCHANGED vars \/ \E r \in Records : AdvanceClock(r)
  BY <1>6 DEF Begin, BeginTick, BeginOnly, Customer, CustomerPays, CustomerFails,
     CustomerPaysUnprompted, AdvanceClock, vars, hooks
<1>7. ~ServerStep
  BY DEF DryRun, CountInv, Quiet, ServerStep, HandleStep, Look, Apply,
     SettleEventRow, Free, Idle
<1> QED
  BY <1>4, <1>5, <1>6, <1>7 DEF Next, DryRun

\* Only the look of the hand finds a payment unprompted.
LEMMA UnpromptedStep ==
  ASSUME DryRun, CountInv, DeskInv, UnpromptedOpen, [Next]_vars
  PROVE  UnpromptedOpen'
<1> DEFINE b == hand["batch"]
<1> SUFFICES ASSUME hand'["batch"].at = "unprompted"
             PROVE  state'[hand'["batch"].ev.rec] \notin Terminal
  BY DEF UnpromptedOpen
<1>0. "batch" \in Hands /\ DOMAIN hand = Hands
  BY DEF Hands, CountInv, TypeInv, HandsOwn
<1>1. CASE Look("batch")
  <2>1. /\ state' = state
        /\ \A x : hand' = [hand EXCEPT !["batch"] = x] => hand'["batch"] = x
    BY <1>0, <1>1 DEF Look, books
  <2>2. hand'["batch"] = [at |-> "unprompted", ev |-> b.ev] /\ state[b.ev.rec] \notin Terminal
    BY <1>1, <2>1 DEF Look
  <2> QED
    BY <2>1, <2>2
<1>2. CASE ~Look("batch")
  <2>1. hand'["batch"] = hand["batch"]
    BY <1>2, HandMoves
  <2>2. ~Free("batch") /\ task = Nothing
    BY <2>1 DEF Free, Idle, DeskInv
  <2>3. ~ResolveDue /\ ~Commit /\ \A i : ~Silence(i)
    BY <2>2 DEF ResolveDue, Commit, PutInQueue, Close, RecordRow, ReplyToHuman,
       RecordPromise, Silence, At, Nothing
  <2>4. ~Apply("batch")
    BY <1>0, <2>1 DEF Apply, Decided
  <2>5. state' = state
    BY <2>3, <2>4, BookWriters DEF books
  <2> QED
    BY <2>1, <2>5 DEF UnpromptedOpen
<1> QED
  BY <1>1, <1>2

\* A step that moves no owner, no row and no credit.
LEMMA LifeStays ==
  ASSUME claimed' = claimed,
         \A r \in Records : /\ Whose(state'[r]) = Whose(state[r])
                            /\ queued'[r] > 0 <=> queued[r] > 0,
         \A i \in Interventions : result'[i] = "RECOVERED" <=> result[i] = "RECOVERED"
  PROVE  UNCHANGED Life!vars
<1>1. OwnerOf' = OwnerOf
  BY DEF OwnerOf
<1>2. OnDesk' = OnDesk
  BY DEF OnDesk
<1>3. CreditedTries' = CreditedTries
  BY DEF CreditedTries
<1> QED
  BY <1>1, <1>2, <1>3 DEF Life!vars

\* A step that moves one record.
LEMMA LifeMoves ==
  ASSUME NEW r \in Records,
         \A x \in Records \ {r} : state'[x] = state[x] /\ queued'[x] = queued[x]
  PROVE  /\ OwnerOf' = [OwnerOf EXCEPT ![r] = Whose(state'[r])]
         /\ queued'[r] > 0 => OnDesk' = OnDesk \union {r}
         /\ ~(queued'[r] > 0) => OnDesk' = OnDesk \ {r}
         /\ OwnerOf[r] = Whose(state[r])
BY DEF OwnerOf, OnDesk

LEMMA WhoseIs ==
  /\ \A s \in Owned : Whose(s) = "agent"
  /\ Whose("ESCALATED") = "person"
  /\ Whose("CLOSED") = "nobody"
  /\ Whose("RECOVERED") = "paid"
BY DEF Whose, Owned

\* A claim is a try.
LEMMA ClaimIsTry ==
  ASSUME ReadInv, NEW r \in Records, Claims(r)
  PROVE  Life!Next
<1> USE DEF ReadInv, CountInv
<1>1. /\ Proposal(r) \in Interventions /\ Proposal(r) \notin claimed
      /\ Proposal(r)[1] = r
      /\ claimed' = claimed \union {Proposal(r)}
  BY ProposalType DEF Claims, RecordOf
<1>2. UNCHANGED <<OwnerOf, OnDesk, CreditedTries>>
  BY DEF Claims, books, OwnerOf, OnDesk, CreditedTries
<1>3. OwnerOf[r] = "agent" \/ \A j \in claimed : j[1] # r
  <2>1. CASE Reached(r)
    BY <2>1, OnlyItsOwn, WhoseIs DEF OwnerOf
  <2>2. CASE ~Reached(r)
    BY <2>2 DEF Reached, RecordOf
  <2> QED
    BY <2>1, <2>2
<1>4. Life!Try(Proposal(r))
  BY <1>1, <1>2, <1>3 DEF Life!Try
<1> QED
  BY <1>1, <1>4 DEF Life!Next

\* The commit of a session hands its record over, takes it back or gives it up.
LEMMA CommitIsLife ==
  ASSUME ReadInv, Commit
  PROVE  [Life!Next]_(Life!vars)
<1> USE DEF ReadInv, CountInv
<1>1. claimed' = claimed /\ TaskFresh(task)
  BY DEF Commit, DeskInv
<1>2. \A r \in Records : /\ state[r] \in States /\ queued[r] \in {0, 1}
                         /\ state[r] = "ESCALATED" => queued[r] = 1
  BY Zenon DEF DeskInv, Desk, TypeInv, TypeOK, BooksTypeOK
<1>3. result' = result
  BY DEF Commit, PutInQueue, Close, RecordRow, ReplyToHuman, RecordPromise
<1>4. CreditedTries' = CreditedTries
  BY <1>3 DEF CreditedTries
<1>5. ASSUME UNCHANGED <<state, queued>> PROVE UNCHANGED Life!vars
  BY <1>1, <1>3, <1>5, LifeStays
<1>6. CASE PutInQueue \/ ReplyToHuman
  <2> DEFINE r == task.rec
  <2>1. /\ task.do \in {"queue", "human"} /\ r \in Records /\ task.open \in BOOLEAN
        /\ QueueRow(r, task.open)
        /\ task.saw = state[r] /\ state[r] \notin Terminal
        /\ task.open <=> queued[r] > 0
    BY <1>1, <1>6, TaskTypes DEF PutInQueue, ReplyToHuman, TaskFresh
  <2>2. state[r] \in Owned \/ state[r] = "ESCALATED"
    BY <1>2, <2>1 DEF States
  <2>3. \A x \in Records : queued'[x] = IF x = r THEN 1 ELSE queued[x]
    <3>1. CASE task.open
      <4>1. queued' = queued /\ queued[r] = 1
        BY <1>2, <2>1, <3>1 DEF QueueRow
      <4> QED
        BY <4>1
    <3>2. CASE ~task.open
      <4>1. queued' = [queued EXCEPT ![r] = @ + 1] /\ queued[r] = 0
        BY <1>2, <2>1, <3>2 DEF QueueRow
      <4> QED
        BY <2>1, <4>1 DEF TypeInv, TypeOK, BooksTypeOK
    <3> QED
      BY <2>1, <3>1, <3>2
  <2>4. \A x \in Records : state'[x] = IF x = r THEN "ESCALATED" ELSE state[x]
    BY <1>6, <2>1, <2>2 DEF PutInQueue, ReplyToHuman, SetState, Owned, TypeInv, TypeOK,
       BooksTypeOK
  <2>5. CASE state[r] = "ESCALATED"
    <3>1. \A x \in Records : state'[x] = state[x] /\ queued'[x] = queued[x]
      BY <1>2, <2>1, <2>3, <2>4, <2>5
    <3> QED
      BY <1>1, <1>3, <3>1, LifeStays
  <2>6. CASE state[r] \in Owned
    <3>1. Life!HandOver(r)
      <4>1. /\ OwnerOf' = [OwnerOf EXCEPT ![r] = "person"]
            /\ OnDesk' = OnDesk \union {r}
            /\ OwnerOf[r] = "agent"
        BY <2>1, <2>3, <2>4, <2>6, LifeMoves, WhoseIs
      <4> QED
        BY <1>1, <1>4, <4>1 DEF Life!HandOver, Life!Give
    <3> QED
      BY <2>1, <3>1 DEF Life!Next
  <2> QED
    BY <2>2, <2>5, <2>6
<1>7. CASE Close
  <2> DEFINE r == task.rec
  <2>1. r \in Records /\ state[r] \in Owned
    BY <1>1, <1>7, TaskTypes DEF Close, TaskFresh
  <2>2. \A x \in Records : /\ state'[x] = IF x = r THEN "CLOSED" ELSE state[x]
                           /\ queued'[x] = IF x = r THEN 0 ELSE queued[x]
    BY <1>7, <2>1 DEF Close, Resolve, TypeInv, TypeOK, BooksTypeOK
  <2>3. /\ OwnerOf' = [OwnerOf EXCEPT ![r] = "nobody"]
        /\ OnDesk' = OnDesk \ {r}
        /\ OwnerOf[r] = "agent"
    BY <2>1, <2>2, LifeMoves, WhoseIs
  <2>4. Life!GiveUp(r)
    BY <1>1, <1>4, <2>3 DEF Life!GiveUp, Life!Give
  <2> QED
    BY <2>1, <2>4 DEF Life!Next
<1>8. CASE RecordPromise
  <2> DEFINE r == task.rec
  <2>1. r \in Records /\ task.saw = state[r] /\ queued' = queued
    BY <1>1, <1>8, TaskTypes DEF RecordPromise, TaskFresh
  <2>2. CASE state[r] \in Terminal
    BY <1>5, <1>8, <2>1, <2>2 DEF RecordPromise
  <2>3. CASE state[r] \notin Terminal
    <3>1. \A x \in Records : state'[x] = IF x = r THEN "PROMISED" ELSE state[x]
      BY <1>8, <2>1, <2>3 DEF RecordPromise, SetState, TypeInv, TypeOK, BooksTypeOK
    <3>2. CASE state[r] \in Owned
      <4>1. \A x \in Records : Whose(state'[x]) = Whose(state[x])
        BY <3>1, <3>2, WhoseIs DEF Owned
      <4> QED
        BY <1>1, <1>3, <2>1, <4>1, LifeStays
    <3>3. CASE state[r] = "ESCALATED"
      <4>1. OwnerOf' = [OwnerOf EXCEPT ![r] = "agent"] /\ OwnerOf[r] = "person"
        BY <2>1, <3>1, <3>3, LifeMoves, WhoseIs DEF Owned
      <4>2. OnDesk' = OnDesk
        BY <2>1 DEF OnDesk
      <4>3. Life!TakeBack(r)
        BY <1>1, <1>4, <4>1, <4>2 DEF Life!TakeBack, Life!Give
      <4> QED
        BY <2>1, <4>3 DEF Life!Next
    <3> QED
      BY <1>2, <2>1, <2>3, <3>2, <3>3 DEF States
  <2> QED
    BY <2>2, <2>3
<1>9. CASE RecordRow
  BY <1>5, <1>9 DEF RecordRow
<1> QED
  BY <1>6, <1>7, <1>8, <1>9 DEF Commit

\* What the batch's hand books is a payment, or moves nothing.
LEMMA ApplyIsLife ==
  ASSUME ReadInv, UnpromptedOpen, Apply("batch"), UNCHANGED batch
  PROVE  [Life!Next]_(Life!vars)
<1> DEFINE b == hand["batch"]
<1> USE DEF ReadInv, CountInv
<1>1. /\ claimed' = claimed /\ "batch" \in Hands
      /\ b.ev \in emitted /\ b.ev.rec \in Records
  BY DEF batch, Hands, Apply, TypeInv, HandsOwn, HandOK, Free, Idle, TypeOK, HooksTypeOK,
     EventsOwn
<1>2. CASE UNCHANGED books
  BY <1>1, <1>2, LifeStays DEF books
<1>3. ASSUME b.at = "looked", b.result # "RECOVERED"
      PROVE  /\ b.iv \in Interventions /\ RecordOf(b.iv) \in Records
             /\ result[b.iv] # "RECOVERED" /\ b.iv \in claimed
             /\ b.state = state[RecordOf(b.iv)]
  BY <1>1, <1>3 DEF HandsFresh, FreshRead, DeskInv, HandKnows, Interventions, RecordOf,
     ClaimInv, SentClaimed
<1>4. CASE /\ b.at = "looked" /\ b.result # "RECOVERED"
           /\ FailAgain(b.iv, b.result, b.attempts)
  <2>1. \A i \in Interventions : result'[i] = "RECOVERED" <=> result[i] = "RECOVERED"
    BY <1>3, <1>4 DEF FailAgain, TypeInv, TypeOK, BooksTypeOK
  <2> QED
    BY <1>1, <1>4, <2>1, LifeStays DEF FailAgain
<1>5. CASE b.at = "looked" /\ b.result # "RECOVERED" /\ Credit(b.iv, b.state)
  <2> DEFINE r == RecordOf(b.iv)
  <2>1. /\ \A x \in Records : /\ state'[x] = IF x = r THEN "RECOVERED" ELSE state[x]
                              /\ queued'[x] = IF x = r THEN 0 ELSE queued[x]
        /\ \A i \in Interventions : result'[i] = IF i = b.iv THEN "RECOVERED" ELSE result[i]
    BY <1>3, <1>5 DEF Credit, SetState, Resolve, TypeInv, TypeOK, BooksTypeOK
  <2>2. /\ OwnerOf' = [OwnerOf EXCEPT ![r] = "paid"]
        /\ OnDesk' = OnDesk \ {r}
    BY <1>3, <1>5, <2>1, LifeMoves, WhoseIs
  <2>3. CreditedTries' = CreditedTries \union {b.iv} /\ b.iv \notin CreditedTries
    BY <1>3, <1>5, <2>1 DEF CreditedTries
  <2>4. Life!PayFor(b.iv)
    BY <1>1, <1>3, <1>5, <2>2, <2>3 DEF Life!PayFor, Life!Give, RecordOf
  <2> QED
    BY <1>3, <1>5, <2>4 DEF Life!Next
<1>6. CASE b.at = "unprompted" /\ Unprompted(b.ev.rec)
  <2> DEFINE r == b.ev.rec
  <2>1. state[r] \in Owned \/ state[r] = "ESCALATED"
    BY <1>1, <1>6 DEF UnpromptedOpen, TypeInv, TypeOK, BooksTypeOK, States
  <2>2. \A x \in Records : /\ state'[x] = IF x = r THEN "RECOVERED" ELSE state[x]
                           /\ queued'[x] = IF x = r THEN 0 ELSE queued[x]
    BY <1>1, <1>6 DEF Unprompted, Resolve, TypeInv, TypeOK, BooksTypeOK
  <2>3. /\ OwnerOf' = [OwnerOf EXCEPT ![r] = "paid"]
        /\ OnDesk' = OnDesk \ {r}
        /\ OwnerOf[r] \in {"agent", "person"}
    BY <1>1, <2>1, <2>2, LifeMoves, WhoseIs
  <2>4. CreditedTries' = CreditedTries
    BY <1>6 DEF Unprompted, CreditedTries
  <2>5. Life!PayUnprompted(r)
    BY <1>1, <2>3, <2>4 DEF Life!PayUnprompted, Life!Give
  <2> QED
    BY <1>1, <2>5 DEF Life!Next
<1> QED
  BY <1>2, <1>4, <1>5, <1>6 DEF Apply

\* Every step of a dry run is a step of RecordLife or a stutter.
LEMMA LifeStep ==
  ASSUME DryRun, ReadInv, UnpromptedOpen, [Next]_vars
  PROVE  [Life!Next]_(Life!vars)
<1>1. CASE UNCHANGED books
  <2>1. CASE claimed' = claimed
    BY <1>1, <2>1, LifeStays DEF books
  <2>2. CASE claimed' # claimed
    BY <2>2, ClaimMoves, ClaimIsTry DEF ClaimsNothing
  <2> QED
    BY <2>1, <2>2
<1>2. CASE ResolveDue
  <2>1. /\ claimed' = claimed /\ queued' = queued /\ result' = result
        /\ \A r \in DOMAIN task.saw : r \in Records /\ task.saw[r] = state[r]
    BY <1>2, TaskTypes DEF ResolveDue, ReadInv, CountInv, DeskInv, TaskFresh
  <2>2. \A r \in Records :
          state'[r] = state[r] \/ (state'[r] = "AT_RISK" /\ state[r] = "PROMISED")
    BY <1>2, <2>1 DEF ResolveDue
  <2>3. \A r \in Records : Whose(state'[r]) = Whose(state[r])
    BY <2>2, WhoseIs DEF Owned
  <2> QED
    BY <2>1, <2>3, LifeStays
<1>3. CASE Commit
  BY <1>3, CommitIsLife
<1>4. CASE Apply("batch") /\ UNCHANGED batch
  BY <1>4, ApplyIsLife
<1>5. ASSUME NEW i \in pending, Silence(i), claimed' = claimed
      PROVE  [Life!Next]_(Life!vars)
  <2>1. UNCHANGED <<state, queued>>
    BY <1>5 DEF Silence, MarkNoResponse
  <2>2. \A j \in Interventions : result'[j] = "RECOVERED" <=> result[j] = "RECOVERED"
    BY <1>5 DEF Silence, MarkNoResponse, ReadInv, CountInv, TypeInv, TypeOK, BooksTypeOK
  <2> QED
    BY <1>5, <2>1, <2>2, LifeStays
<1> QED
  BY <1>1, <1>2, <1>3, <1>4, <1>5, BookWriters DEF ReadInv

\* A dry run implements RecordLife, for any ladders, verdicts, replies, failed
\* calls and crashes: ticks, snapshots and sessions move a record between the
\* agent, a person, nobody and paid as its life allows, and only so.
THEOREM ImplementsLife ==
  ASSUME DryRun
  PROVE  Spec => RecordLifeSpec
<1>1. Init => Life!Init /\ ReadInv /\ UnpromptedOpen
  <2> SUFFICES ASSUME Init PROVE Life!Init /\ UnpromptedOpen
    BY InitRead
  <2>1. /\ OwnerOf = [r \in Records |-> "agent"]
        /\ OnDesk = {} /\ claimed = {} /\ CreditedTries = {}
    BY WhoseIs DEF Init, BooksInit, OwnerOf, OnDesk, CreditedTries, Owned
  <2>2. UnpromptedOpen
    BY DEF Init, HooksInit, Hands, Idle, UnpromptedOpen
  <2> QED
    BY <2>1, <2>2 DEF Life!Init
<1>2. DryRun /\ (ReadInv /\ UnpromptedOpen) /\ [Next]_vars => (ReadInv /\ UnpromptedOpen)'
  BY ReadInvStep, UnpromptedStep DEF ReadInv
<1>3. DryRun /\ (ReadInv /\ UnpromptedOpen) /\ [Next]_vars => [Life!Next]_(Life!vars)
  BY LifeStep
<1> QED
  BY <1>1, <1>2, <1>3, PTL DEF Spec, RecordLifeSpec, Life!Spec
=============================================================================
