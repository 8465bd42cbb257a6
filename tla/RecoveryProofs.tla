--------------------------- MODULE RecoveryProofs ---------------------------
(***************************************************************************)
(* Proofs about Recovery, for every set of records, every ladder and every *)
(* cap, with failed calls and crashes.                                     *)
(*                                                                         *)
(* TypeInv is enough for the types and for the promises.  CountInv adds    *)
(* that one thread at a time has a link's event in hand (Quiet; live,      *)
(* because every link a row was written for exists at Razorpay,            *)
(* LinksLanded), and so what it read still stands when it writes.          *)
(* NumberInv adds, where one ladder is in use, that an attempt number      *)
(* names one intervention.                                                 *)
(* DeskInv adds, for a dry run, that every session's reads still stand at  *)
(* its commit.  TickProofs goes on from there.                             *)
(***************************************************************************)
EXTENDS Recovery, FiniteSetTheorems, TLAPS

-----------------------------------------------------------------------------
Elements(s) == {s[n] : n \in 1..Len(s)}

\* A new row adds its intervention to what was sent, and nothing else.
LEMMA SentAppend ==
  ASSUME NEW S, NEW s \in Seq(S), NEW x \in S
  PROVE  /\ Append(s, x) \in Seq(S)
         /\ Elements(Append(s, x)) = Elements(s) \union {x}
<1>1. /\ Append(s, x) \in Seq(S)
      /\ Len(Append(s, x)) = Len(s) + 1
      /\ Append(s, x)[Len(s) + 1] = x
      /\ \A n \in 1..Len(s) : Append(s, x)[n] = s[n]
  OBVIOUS
<1>2. Len(s) \in Nat
  OBVIOUS
<1>3. ASSUME NEW y \in {Append(s, x)[n] : n \in 1..(Len(s) + 1)}
      PROVE  y \in {s[n] : n \in 1..Len(s)} \union {x}
  <2>1. PICK n \in 1..(Len(s) + 1) : y = Append(s, x)[n]
    BY <1>3
  <2>2. n \in 1..Len(s) \/ n = Len(s) + 1
    BY <1>2, <2>1
  <2> QED
    BY <1>1, <2>1, <2>2
<1>4. ASSUME NEW y \in {s[n] : n \in 1..Len(s)} \union {x}
      PROVE  y \in {Append(s, x)[n] : n \in 1..(Len(s) + 1)}
  <2>1. CASE y = x
    BY <1>1, <1>2, <2>1
  <2>2. CASE y \in {s[n] : n \in 1..Len(s)}
    <3>1. PICK n \in 1..Len(s) : y = s[n]
      BY <2>2
    <3>2. n \in 1..(Len(s) + 1) /\ y = Append(s, x)[n]
      BY <1>1, <1>2, <3>1
    <3> QED
      BY <3>2
  <2> QED
    BY <2>1, <2>2, <1>4
<1> QED
  BY <1>1, <1>3, <1>4 DEF Elements

\* The last row of a record is one of its rows.
LEMMA LastIsSent ==
  ASSUME BooksTypeOK, NEW r \in Records, rows[r] # <<>>
  PROVE  LastSent(r) \in SentTo(r)
<1>1. rows[r] \in Seq(Interventions) /\ Len(rows[r]) \in Nat
  BY DEF BooksTypeOK
<1>2. Len(rows[r]) # 0
  BY <1>1
<1>3. Len(rows[r]) \in 1..Len(rows[r])
  BY <1>1, <1>2
<1> QED
  BY <1>3 DEF LastSent, SentTo

-----------------------------------------------------------------------------
\* What TypeOK rests on: a row stands with its record, an event is about a
\* record of ours, and a hand holds what the statement it is at has read.
RowsOwn ==
  \A r \in Records : \A i \in SentTo(r) : i \in Interventions /\ RecordOf(i) = r

EventsOwn == \A e \in emitted : e.rec \in Records /\ e.ok \in BOOLEAN

HandOK(v) ==
  \/ v = Idle
  \/ /\ v.ev \in DOMAIN inbox
     /\ \/ v.at \in {"claimed", "unprompted"}
        \/ /\ v.at = "looked"
           /\ v.iv \in Interventions
           /\ v.result \in Results
           /\ v.state \in States
           /\ v.attempts \in Nat
        \/ /\ v.at = "decided"
           /\ v.outcome \in Outcomes

HandsOwn == DOMAIN hand = Hands /\ \A h \in Hands : HandOK(hand[h])

TypeInv ==
  /\ TypeOK
  /\ RowsOwn
  /\ EventsOwn
  /\ HandsOwn

\* The initial state is typed.
LEMMA InitType == Init => TypeInv
<1> SUFFICES ASSUME Init PROVE TypeInv
  OBVIOUS
<1>1. BooksTypeOK
  BY DEF Init, BooksInit, BooksTypeOK, States, Owned, Terminal, Results
<1>2. HooksTypeOK /\ EventsOwn /\ HandsOwn
  BY DEF Init, HooksInit, HooksTypeOK, EventsOwn, HandsOwn, HandOK, Free
<1>3. RowsOwn
  BY DEF Init, BooksInit, RowsOwn, SentTo
<1>4. TypeOK
  BY <1>1, <1>2 DEF Init, TypeOK, BatchTypeOK, NoRecordsRead, Nothing, Tasks, NoPromise, Dates
<1> QED
  BY <1>1, <1>2, <1>3, <1>4 DEF TypeInv

\* What a delivery does to the types: the claim is a row of the inbox, and the
\* hand that made it holds the event.
LEMMA ReceiveType ==
  ASSUME TypeInv, NEW h \in Hands, NEW e, e.rec \in Records, e.ok \in BOOLEAN,
         Receive(h, e)
  PROVE  /\ BooksTypeOK' /\ RowsOwn'
         /\ HooksTypeOK' /\ EventsOwn' /\ HandsOwn'
<1>1. /\ UNCHANGED books /\ linked' = linked
      /\ emitted' = emitted \union {e}
  BY DEF Receive
<1>2. BooksTypeOK' /\ RowsOwn'
  BY <1>1 DEF TypeInv, TypeOK, books, BooksTypeOK, RowsOwn, SentTo
<1>3. EventsOwn'
  BY <1>1 DEF TypeInv, EventsOwn
<1>4. CASE e \in DOMAIN inbox
  <2>1. inbox' = inbox /\ hand' = hand
    BY <1>4 DEF Receive
  <2> QED
    BY <1>1, <1>2, <1>3, <2>1 DEF TypeInv, TypeOK, HooksTypeOK, HandsOwn, HandOK, Free
<1>5. CASE e \notin DOMAIN inbox
  <2>1. /\ inbox' = [x \in DOMAIN inbox \union {e} |->
                      IF x = e THEN "RECEIVED" ELSE inbox[x]]
        /\ hand' = [hand EXCEPT ![h] = [at |-> "claimed", ev |-> e]]
    BY <1>5 DEF Receive
  <2>2. DOMAIN inbox' = DOMAIN inbox \union {e}
    BY <2>1
  <2>3. HandsOwn'
    BY <2>1, <2>2 DEF TypeInv, HandsOwn, HandOK
  <2>4. HooksTypeOK'
    BY <1>1, <2>1, <2>2, <2>3 DEF TypeInv, TypeOK, HooksTypeOK, HandsOwn, HandOK,
       Free, Outcomes
  <2> QED
    BY <1>2, <1>3, <2>3, <2>4
<1> QED
  BY <1>4, <1>5

\* A credit writes typed values.
LEMMA CreditType ==
  ASSUME BooksTypeOK, NEW i \in Interventions, RecordOf(i) \in Records, NEW saw,
         Credit(i, saw)
  PROVE  BooksTypeOK'
<1>1. state' \in [Records -> States]
  BY DEF Credit, SetState, BooksTypeOK, States, Terminal
<1>2. queued' \in [Records -> Nat]
  BY DEF Credit, Resolve, BooksTypeOK
<1> QED
  BY <1>1, <1>2 DEF Credit, BooksTypeOK, Results

\* A failed payment writes typed values.
LEMMA FailAgainType ==
  ASSUME BooksTypeOK, NEW i \in Interventions, RecordOf(i) \in Records,
         NEW saw, NEW n \in Nat, FailAgain(i, saw, n)
  PROVE  BooksTypeOK'
<1>1. attempts' \in [Records -> Nat]
  <2>1. n + 1 \in Nat
    OBVIOUS
  <2> QED
    BY <2>1 DEF FailAgain, BooksTypeOK
<1> QED
  BY <1>1 DEF FailAgain, BooksTypeOK, Results

\* So does a silence.
LEMMA SilenceType ==
  ASSUME BooksTypeOK, NEW i \in Interventions, RecordOf(i) \in Records,
         MarkNoResponse(i)
  PROVE  BooksTypeOK'
<1>1. attempts[RecordOf(i)] + 1 \in Nat
  BY DEF BooksTypeOK
<1> QED
  BY <1>1 DEF MarkNoResponse, BooksTypeOK, Results

\* What the statements of handle() do to the types.
LEMMA HandleType ==
  ASSUME TypeInv, NEW h \in Hands, HandleStep(h)
  PROVE  /\ BooksTypeOK' /\ RowsOwn'
         /\ HooksTypeOK' /\ EventsOwn' /\ HandsOwn'
<1> USE DEF TypeInv, TypeOK
<1>1. CASE Look(h)
  <2>1. /\ UNCHANGED books
        /\ UNCHANGED <<linked, emitted, inbox>>
        /\ hand[h].at = "claimed"
    BY <1>1 DEF Look
  <2>2. hand[h].ev \in DOMAIN inbox /\ hand[h].ev.rec \in Records
    BY <2>1 DEF HandsOwn, HandOK, Idle, HooksTypeOK, EventsOwn
  <2>3. \A i \in Found(hand[h].ev) : i \in Interventions
    <3>1. ASSUME rows[hand[h].ev.rec] # <<>>
          PROVE  LastSent(hand[h].ev.rec) \in Interventions
      BY <3>1, <2>2, LastIsSent DEF RowsOwn
    <3> QED
      BY <2>2, <3>1 DEF Found, RowsOwn
  <2>4. /\ DOMAIN hand' = DOMAIN hand
        /\ \A k \in Hands \ {h} : hand'[k] = hand[k]
    BY <1>1 DEF Look, HandsOwn
  <2>5. HandOK(hand[h])'
    <3>1. CASE \E i \in Found(hand[h].ev) :
                 hand' = [hand EXCEPT ![h] =
                   [at |-> "looked", ev |-> hand[h].ev, iv |-> i,
                    result |-> result[i], state |-> state[RecordOf(i)],
                    attempts |-> attempts[RecordOf(i)]]]
      <4>1. PICK i \in Found(hand[h].ev) :
                 hand' = [hand EXCEPT ![h] =
                   [at |-> "looked", ev |-> hand[h].ev, iv |-> i,
                    result |-> result[i], state |-> state[RecordOf(i)],
                    attempts |-> attempts[RecordOf(i)]]]
        BY <3>1
      <4>2. i \in Interventions /\ RecordOf(i) \in Records
        BY <2>3 DEF Interventions, RecordOf
      <4>3. /\ result[i] \in Results
            /\ state[RecordOf(i)] \in States
            /\ attempts[RecordOf(i)] \in Nat
        BY <4>2 DEF BooksTypeOK
      <4>4. hand'[h] = [at |-> "looked", ev |-> hand[h].ev, iv |-> i,
                        result |-> result[i], state |-> state[RecordOf(i)],
                        attempts |-> attempts[RecordOf(i)]]
        BY <4>1 DEF HandsOwn
      <4> QED
        BY <2>1, <2>2, <4>2, <4>3, <4>4 DEF HandOK
    <3>2. CASE \/ hand' = [hand EXCEPT ![h] = [at |-> "unprompted", ev |-> hand[h].ev]]
               \/ hand' = [hand EXCEPT ![h] =
                            [at |-> "decided", ev |-> hand[h].ev,
                             outcome |-> "UNATTRIBUTED"]]
      BY <2>1, <2>2, <3>2 DEF HandOK, HandsOwn, Outcomes
    <3> QED
      BY <1>1, <3>1, <3>2 DEF Look
  <2>6. HandsOwn'
    BY <2>1, <2>4, <2>5 DEF HandsOwn, HandOK
  <2>7. HooksTypeOK'
    BY <2>1, <2>6 DEF HooksTypeOK, HandsOwn, HandOK, Free
  <2> QED
    BY <2>1, <2>6, <2>7 DEF books, BooksTypeOK, RowsOwn, SentTo, EventsOwn
<1>2. CASE Apply(h)
  <2>1. UNCHANGED <<linked, emitted, inbox, rows>>
    BY <1>2 DEF Apply, Credit, FailAgain, Unprompted, books
  <2>2. /\ hand[h].ev \in DOMAIN inbox /\ hand[h].ev.rec \in Records
        /\ hand[h].at = "looked" =>
             /\ hand[h].iv \in Interventions /\ RecordOf(hand[h].iv) \in Records
             /\ hand[h].attempts \in Nat
    BY <1>2 DEF Apply, HandsOwn, HandOK, Idle, HooksTypeOK, EventsOwn,
       Interventions, RecordOf
  <2>3. BooksTypeOK'
    <3>1. CASE /\ hand[h].at = "looked"
               /\ \/ UNCHANGED books
                  \/ Credit(hand[h].iv, hand[h].state)
                  \/ FailAgain(hand[h].iv, hand[h].result, hand[h].attempts)
      BY <2>2, <3>1, CreditType, FailAgainType DEF books, BooksTypeOK
    <3>2. CASE Unprompted(hand[h].ev.rec)
      BY <2>2, <3>2 DEF Unprompted, Resolve, BooksTypeOK, States, Terminal
    <3> QED
      BY <1>2, <3>1, <3>2 DEF Apply
  <2>4. \E o \in Outcomes : Decided(h, o)
    BY <1>2 DEF Apply, Outcomes
  <2>5. HandsOwn'
    BY <2>1, <2>2, <2>4 DEF Decided, HandsOwn, HandOK
  <2>6. HooksTypeOK'
    BY <2>1, <2>5 DEF HooksTypeOK, HandsOwn, HandOK, Free
  <2> QED
    BY <2>1, <2>3, <2>5, <2>6 DEF RowsOwn, SentTo, EventsOwn
<1>3. CASE SettleEventRow(h)
  <2>1. /\ UNCHANGED books /\ UNCHANGED <<linked, emitted>>
        /\ inbox' = [inbox EXCEPT ![hand[h].ev] = hand[h].outcome]
        /\ hand' = [hand EXCEPT ![h] = Idle]
    BY <1>3 DEF SettleEventRow
  <2>2. DOMAIN inbox' = DOMAIN inbox
    BY <2>1
  <2>3. hand[h].outcome \in Outcomes
    BY <1>3 DEF SettleEventRow, HandsOwn, HandOK, Idle
  <2>4. HandsOwn'
    BY <2>1, <2>2 DEF HandsOwn, HandOK
  <2>5. HooksTypeOK'
    BY <2>1, <2>2, <2>3, <2>4 DEF HooksTypeOK, HandsOwn, HandOK, Free
  <2> QED
    BY <2>1, <2>4, <2>5 DEF books, BooksTypeOK, RowsOwn, SentTo, EventsOwn
<1> QED
  BY <1>1, <1>2, <1>3 DEF HandleStep

\* A step that leaves the books alone keeps their types.
LEMMA SameBooks ==
  ASSUME TypeInv, UNCHANGED books
  PROVE  BooksTypeOK' /\ RowsOwn'
BY DEF TypeInv, TypeOK, books, BooksTypeOK, RowsOwn, SentTo

\* So for what the webhook endpoint holds; a link may be added.
LEMMA SameHooks ==
  ASSUME TypeInv, UNCHANGED <<emitted, inbox, hand>>, linked' \subseteq Interventions
  PROVE  HooksTypeOK' /\ EventsOwn' /\ HandsOwn'
BY DEF TypeInv, TypeOK, HooksTypeOK, EventsOwn, HandsOwn, HandOK, Free

\* So for what the batch thread holds.
LEMMA SameBatch ==
  ASSUME TypeInv, UNCHANGED batch
  PROVE  BatchTypeOK'
BY DEF TypeInv, TypeOK, batch, BatchTypeOK, Tasks

\* What a session of the batch thread holds is typed, session by session.
LEMMA TaskTypes ==
  ASSUME TypeInv
  PROVE  /\ task.do \in {"queue", "human"} =>
              /\ task.rec \in Records
              /\ task.saw \in States
              /\ task.open \in BOOLEAN
         /\ task.do = "close" => task.rec \in Records
         /\ task.do = "record" => task.iv \in Interventions
         /\ task.do = "promise" => task.rec \in Records /\ task.saw \in States
         /\ task.do = "due" =>
              /\ DOMAIN task.saw \subseteq Records
              /\ \A r \in DOMAIN task.saw : task.saw[r] \in States
BY DEF TypeInv, TypeOK, BatchTypeOK, Tasks, Nothing

\* A proposal that the gate lets through is an intervention.
LEMMA ProposalType ==
  ASSUME TypeInv, NEW r \in DOMAIN todo, NEW verdict, ~Blocking(r, verdict),
         Decide(r) \in Actions
  PROVE  /\ Proposal(r) \in Interventions
         /\ RecordOf(Proposal(r)) = r /\ Proposal(r)[2] = NextAttempt(r)
         /\ Proposal(r)[3] = Decide(r)
         /\ NextAttempt(r) \in 1..HardCap
         /\ Proposal(r) \notin claimed
         /\ promise[r].is = "OPEN" => Decide(r) \notin ContactActions
<1>1. r \in Records /\ todo[r].attempts \in Nat
  BY DEF TypeInv, TypeOK, BatchTypeOK
<1>2. ~(NextAttempt(r) > HardCap) /\ HardCap \in Nat
  BY BooksAssumption DEF Blocking, Closing
<1>3. NextAttempt(r) \in 1..HardCap
  BY <1>1, <1>2 DEF NextAttempt
<1> QED
  BY <1>1, <1>3 DEF Proposal, Interventions, RecordOf, Blocking

\* The row of a call adds its intervention to what was sent to its record.
LEMMA RecordRowSent ==
  ASSUME TypeInv, RecordRow
  PROVE  /\ task.iv \in Interventions /\ RecordOf(task.iv) \in Records
         /\ BooksTypeOK'
         /\ \A x \in Records :
              SentTo(x)' = IF x = RecordOf(task.iv) THEN SentTo(x) \union {task.iv}
                           ELSE SentTo(x)
<1> DEFINE i == task.iv
           r == RecordOf(i)
<1>1. i \in Interventions /\ r \in Records
  BY TaskTypes DEF RecordRow, Interventions, RecordOf
<1>2. rows' = [rows EXCEPT ![r] = Append(@, i)]
      /\ UNCHANGED <<state, attempts, queued, result>>
  BY DEF RecordRow
<1>3. rows[r] \in Seq(Interventions)
  BY <1>1 DEF TypeInv, TypeOK, BooksTypeOK
<1>4. /\ Append(rows[r], i) \in Seq(Interventions)
      /\ Elements(Append(rows[r], i)) = Elements(rows[r]) \union {i}
  BY <1>1, <1>3, SentAppend
<1>5. BooksTypeOK'
  BY <1>1, <1>2, <1>4 DEF TypeInv, TypeOK, BooksTypeOK
<1>6. \A x \in Records :
        SentTo(x)' = IF x = r THEN SentTo(x) \union {i} ELSE SentTo(x)
  <2>1. /\ \A x \in Records : SentTo(x) = Elements(rows[x])
        /\ \A x \in Records : SentTo(x)' = Elements(rows'[x])
    BY DEF SentTo, Elements
  <2>2. \A x \in Records : rows'[x] = IF x = r THEN Append(rows[r], i) ELSE rows[x]
    BY <1>1, <1>2 DEF TypeInv, TypeOK, BooksTypeOK
  <2> QED
    BY <1>4, <2>1, <2>2
<1> QED
  BY <1>1, <1>5, <1>6

\* However a batch begins, it only takes its records in, each as it stands or as the
\* fixture has it.
Taken(r) ==
  \/ todo'[r] = Read(state[r], attempts[r])
  \/ todo'[r] = Read("AT_RISK", 0) /\ state[r] \notin Owned

LEMMA BeginMoves ==
  Begin => /\ UNCHANGED <<books, hooks, task, pending, replied, claimed, promise, date,
                          stopped>>
           /\ At("idle") /\ stage' = "promises" /\ broken' = {}
           /\ DOMAIN todo' \subseteq Records
           /\ \A r \in DOMAIN todo' : Taken(r)
<1>1. ASSUME NEW rs \in SUBSET Records, todo' = Snapshot(rs)
      PROVE  DOMAIN todo' \subseteq Records /\ \A r \in DOMAIN todo' : Taken(r)
  BY <1>1 DEF Snapshot, Taken
<1>2. ASSUME BeginTick, todo' = Fixture
      PROVE  DOMAIN todo' \subseteq Records /\ \A r \in DOMAIN todo' : Taken(r)
  BY <1>1, <1>2 DEF BeginTick, Fixture, Taken
<1>3. CASE BeginTick
  BY <1>1, <1>2, <1>3 DEF BeginTick, Go
<1>4. CASE \E r \in Records : BeginOnly(r)
  BY <1>1, <1>4 DEF BeginOnly, Go
<1> QED
  BY <1>3, <1>4 DEF Begin

\* Every step of the batch thread and of its surroundings keeps the types.
LEMMA TypeStep == TypeInv /\ [Next]_vars => TypeInv'
<1> SUFFICES ASSUME TypeInv, [Next]_vars PROVE TypeInv'
  OBVIOUS
<1> DEFINE Hooked == HooksTypeOK' /\ EventsOwn' /\ HandsOwn'
           Booked == BooksTypeOK' /\ RowsOwn'
<1>a. ASSUME UNCHANGED hooks PROVE Hooked
  <2>1. linked' \subseteq Interventions /\ UNCHANGED <<emitted, inbox, hand>>
    BY <1>a DEF hooks, TypeInv, TypeOK, HooksTypeOK
  <2> QED
    BY <2>1, SameHooks
<1>b. ASSUME Booked, Hooked, BatchTypeOK' PROVE TypeInv'
  BY <1>b DEF TypeInv, TypeOK
<1>1. CASE Begin
  <2>1. UNCHANGED books /\ UNCHANGED hooks
    BY <1>1, BeginMoves
  <2>2. DOMAIN todo' \subseteq Records
        /\ \A r \in DOMAIN todo' :
             todo'[r] \in [state : States, attempts : Nat, worked : BOOLEAN]
    <3>1. DOMAIN todo' \subseteq Records /\ \A r \in DOMAIN todo' : Taken(r)
      BY <1>1, BeginMoves
    <3>2. \A r \in Records : /\ state[r] \in States /\ attempts[r] \in Nat
                              /\ "AT_RISK" \in States /\ 0 \in Nat
      BY DEF TypeInv, TypeOK, BooksTypeOK, States, Owned
    <3>3. \A st \in States, n \in Nat :
             Read(st, n) \in [state : States, attempts : Nat, worked : BOOLEAN]
      BY DEF Read
    <3>4. ASSUME NEW r \in DOMAIN todo'
          PROVE  todo'[r] \in [state : States, attempts : Nat, worked : BOOLEAN]
      <4>1. r \in Records
        BY <3>1
      <4>2. todo'[r] = Read(state[r], attempts[r]) \/ todo'[r] = Read("AT_RISK", 0)
        BY <3>1 DEF Taken
      <4>3. Read(state[r], attempts[r])
              \in [state : States, attempts : Nat, worked : BOOLEAN]
        BY <3>2, <3>3, <4>1
      <4>4. Read("AT_RISK", 0) \in [state : States, attempts : Nat, worked : BOOLEAN]
        BY <3>2, <3>3, <4>1
      <4> QED
        BY <4>2, <4>3, <4>4
    <3> QED
      BY <3>1, <3>4
  <2>3. BatchTypeOK'
    <3>1. /\ stage' = "promises" /\ broken' = {}
          /\ UNCHANGED <<task, pending, replied, claimed, promise, date, stopped>>
      BY <1>1, BeginMoves
    <3>2. alone' \in BOOLEAN
      BY <1>1 DEF Begin, BeginTick, BeginOnly, TypeInv, TypeOK, BatchTypeOK
    <3> QED
      BY <2>2, <3>1, <3>2 DEF TypeInv, TypeOK, BatchTypeOK, Tasks
  <2> QED
    BY <1>a, <1>b, <2>1, <2>3, SameBooks
<1>2. CASE ReadDue
  <2>1. UNCHANGED books /\ UNCHANGED hooks
    BY <1>2 DEF ReadDue
  <2>2. task' \in Tasks
    <3>1. [r \in Due |-> state[r]] \in [Due -> States] /\ Due \in SUBSET Records
      BY DEF Due, TypeInv, TypeOK, BooksTypeOK
    <3> QED
      BY <1>2, <3>1 DEF ReadDue, Tasks, TypeInv, TypeOK, BatchTypeOK
  <2>3. BatchTypeOK'
    BY <1>2, <2>2 DEF ReadDue, Go, TypeInv, TypeOK, BatchTypeOK
  <2> QED
    BY <1>a, <1>b, <2>1, <2>3, SameBooks
<1>3. CASE ResolveDue
  <2>1. UNCHANGED <<attempts, queued, rows, result>> /\ UNCHANGED hooks
    BY <1>3 DEF ResolveDue
  <2>2. DOMAIN task.saw \subseteq Records /\ broken' \subseteq Records
    BY <1>3, TaskTypes DEF ResolveDue
  <2>3. state' \in [Records -> States]
    BY <1>3 DEF ResolveDue, TypeInv, TypeOK, BooksTypeOK, States, Owned
  <2>4. promise' \in [Records -> [is : {"none", "OPEN", "KEPT", "BROKEN"}, no : Nat]]
    BY <1>3 DEF ResolveDue, TypeInv, TypeOK, BatchTypeOK
  <2>5. BatchTypeOK'
    BY <1>3, <2>2, <2>4 DEF ResolveDue, Go, TypeInv, TypeOK, BatchTypeOK, Tasks
  <2>6. BooksTypeOK' /\ RowsOwn'
    BY <2>1, <2>3 DEF TypeInv, TypeOK, BooksTypeOK, RowsOwn, SentTo
  <2> QED
    BY <1>a, <1>b, <2>1, <2>5, <2>6
<1>4. CASE Refresh
  <2>1. UNCHANGED books /\ UNCHANGED hooks
    BY <1>4 DEF Refresh
  <2>2. BatchTypeOK'
    BY <1>4 DEF Refresh, Snapshot, Read, Go, TypeInv, TypeOK, BooksTypeOK,
       BatchTypeOK, Tasks
  <2> QED
    BY <1>a, <1>b, <2>1, <2>2, SameBooks
<1>5. ASSUME NEW r \in Records, SettlePromise(r) PROVE TypeInv'
  <2>1. /\ LinkPaid(LastSent(r), <<"promise", promise[r].no>>).rec \in Records
        /\ LinkPaid(LastSent(r), <<"promise", promise[r].no>>).ok \in BOOLEAN
    BY <1>5, LastIsSent DEF SettlePromise, LinkPaid, Event, TypeInv, TypeOK, RowsOwn
  <2>2. Receive("batch", LinkPaid(LastSent(r), <<"promise", promise[r].no>>))
        /\ UNCHANGED batch
    BY <1>5 DEF SettlePromise
  <2> QED
    BY <1>b, <2>1, <2>2, ReceiveType, SameBatch DEF Hands
<1>6. ASSUME NEW r \in Records, Work(r) PROVE TypeInv'
  <2>1. UNCHANGED books /\ UNCHANGED <<emitted, inbox, hand>>
    BY <1>6 DEF Work, Leave, HandOver, Stop, Execute
  <2>2. PICK verdict \in Verdicts :
          \/ HandOver(r) \/ Stop(r) \/ Leave(r)
          \/ ~Blocking(r, verdict) /\ Decide(r) \in Actions /\ Execute(r)
    BY <1>6 DEF Work
  <2>3. r \in DOMAIN todo /\ Worked(r)
    BY <1>6 DEF Work, Leave, HandOver, Stop, Execute
  <2>4. DOMAIN todo' \subseteq Records
        /\ \A x \in DOMAIN todo' :
             todo'[x] \in [state : States, attempts : Nat, worked : BOOLEAN]
    BY <2>3 DEF Worked, TypeInv, TypeOK, BatchTypeOK
  <2>5. ~Blocking(r, verdict) /\ Decide(r) \in Actions =>
          Proposal(r) \in Interventions
    BY <2>3, ProposalType
  <2>6. task' \in Tasks /\ claimed' \subseteq Interventions
        /\ linked' \subseteq Interventions
    <3>1. state[r] \in States
      BY DEF TypeInv, TypeOK, BooksTypeOK
    <3>2. CASE HandOver(r)
      BY <3>1, <3>2 DEF HandOver, Tasks, TypeInv, TypeOK, BatchTypeOK, HooksTypeOK
    <3>3. CASE Stop(r)
      BY <3>3 DEF Stop, Tasks, TypeInv, TypeOK, BatchTypeOK, HooksTypeOK
    <3>4. CASE Leave(r)
      BY <3>4 DEF Leave, Tasks, TypeInv, TypeOK, BatchTypeOK, HooksTypeOK
    <3>5. CASE Proposal(r) \in Interventions /\ Execute(r)
      <4>1. claimed' \subseteq Interventions /\ linked' \subseteq Interventions
        BY <3>5 DEF Execute, TypeInv, TypeOK, BatchTypeOK, HooksTypeOK
      <4>2. task' \in Tasks
        BY <3>5 DEF Execute, Tasks, TypeInv, TypeOK, BatchTypeOK
      <4> QED
        BY <4>1, <4>2
    <3> QED
      BY <2>2, <2>5, <3>2, <3>3, <3>4, <3>5
  <2>7. BatchTypeOK'
    BY <1>6, <2>4, <2>6 DEF Work, TypeInv, TypeOK, BatchTypeOK
  <2> QED
    BY <1>b, <2>1, <2>6, <2>7, SameBooks, SameHooks
<1>7. CASE Commit
  <2>1. UNCHANGED hooks
    BY <1>7 DEF Commit
  <2>2. Booked /\ BatchTypeOK'
    <3>1. CASE PutInQueue
      <4>1. BooksTypeOK'
        BY <3>1, TaskTypes DEF PutInQueue, QueueRow, TypeInv, TypeOK,
           BooksTypeOK, States
      <4>2. RowsOwn'
        BY <3>1 DEF PutInQueue, TypeInv, RowsOwn, SentTo
      <4>3. BatchTypeOK'
        BY <1>7, <3>1 DEF Commit, PutInQueue, TypeInv, TypeOK, BatchTypeOK, Tasks
      <4> QED
        BY <4>1, <4>2, <4>3
    <3>2. CASE Close
      <4>1. BooksTypeOK'
        BY <3>2, TaskTypes DEF Close, Resolve, TypeInv, TypeOK, BooksTypeOK,
           States, Terminal
      <4>2. RowsOwn'
        BY <3>2 DEF Close, TypeInv, RowsOwn, SentTo
      <4>3. BatchTypeOK'
        BY <1>7, <3>2 DEF Commit, Close, TypeInv, TypeOK, BatchTypeOK, Tasks
      <4> QED
        BY <4>1, <4>2, <4>3
    <3>3. CASE RecordRow
      <4>1. BooksTypeOK' /\ RowsOwn'
        BY <3>3, RecordRowSent DEF TypeInv, RowsOwn
      <4>2. BatchTypeOK'
        BY <1>7, <3>3 DEF Commit, RecordRow, TypeInv, TypeOK, BatchTypeOK, Tasks
      <4> QED
        BY <4>1, <4>2
    <3>4. CASE ReplyToHuman
      <4>1. BooksTypeOK'
        BY <3>4, TaskTypes DEF ReplyToHuman, QueueRow, SetState, TypeInv, TypeOK,
           BooksTypeOK, States
      <4>2. RowsOwn'
        BY <3>4 DEF ReplyToHuman, TypeInv, RowsOwn, SentTo
      <4>3. BatchTypeOK'
        BY <1>7, <3>4 DEF Commit, ReplyToHuman, TypeInv, TypeOK, BatchTypeOK, Tasks
      <4> QED
        BY <4>1, <4>2, <4>3
    <3>5. CASE RecordPromise
      <4>1. task.rec \in Records /\ attempts[task.rec] \in Nat
        BY <3>5, TaskTypes DEF RecordPromise, TypeInv, TypeOK, BooksTypeOK
      <4>2. BooksTypeOK'
        BY <3>5, <4>1 DEF RecordPromise, SetState, TypeInv, TypeOK,
           BooksTypeOK, States, Owned
      <4>3. RowsOwn'
        BY <3>5 DEF RecordPromise, TypeInv, RowsOwn, SentTo
      <4>4. BatchTypeOK'
        BY <1>7, <3>5, <4>1 DEF Commit, RecordPromise, TypeInv, TypeOK,
           BatchTypeOK, Tasks, Dates
      <4> QED
        BY <4>2, <4>3, <4>4
    <3> QED
      BY <1>7, <3>1, <3>2, <3>3, <3>4, <3>5 DEF Commit
  <2> QED
    BY <1>a, <1>b, <2>1, <2>2
<1>8. CASE BeginSettle
  <2>1. UNCHANGED books /\ UNCHANGED hooks
    BY <1>8 DEF BeginSettle
  <2>2. Unanswered \subseteq Interventions
    BY DEF Unanswered, TypeInv, RowsOwn
  <2>3. BatchTypeOK'
    BY <1>8, <2>2 DEF BeginSettle, Go, TypeInv, TypeOK, BatchTypeOK, Tasks
  <2> QED
    BY <1>a, <1>b, <2>1, <2>3, SameBooks
<1>9. ASSUME NEW i \in pending, Settle(i) PROVE TypeInv'
  <2>1. i \in Interventions /\ RecordOf(i) \in Records
    BY DEF TypeInv, TypeOK, BatchTypeOK, Interventions, RecordOf
  <2>2. CASE SettlePaid(i)
    <3>1. /\ LinkPaid(i, <<"settle", 0>>).rec \in Records
          /\ LinkPaid(i, <<"settle", 0>>).ok \in BOOLEAN
      BY <2>1 DEF LinkPaid, Event
    <3>2. Booked /\ Hooked
      BY <2>2, <3>1, ReceiveType DEF SettlePaid, Hands
    <3>3. BatchTypeOK'
      BY <1>9, <2>2 DEF Settle, SettlePaid, TypeInv, TypeOK, BatchTypeOK
    <3> QED
      BY <1>b, <3>2, <3>3
  <2>3. CASE SettleFailed(i)
    <3>1. /\ Failed(i, "ref", <<"settle", 0>>).rec \in Records
          /\ Failed(i, "ref", <<"settle", 0>>).ok \in BOOLEAN
      BY <2>1 DEF Failed, Event
    <3>2. Booked /\ Hooked
      BY <2>3, <3>1, ReceiveType DEF SettleFailed, Hands
    <3>3. BatchTypeOK'
      BY <1>9, <2>3 DEF Settle, SettleFailed, TypeInv, TypeOK, BatchTypeOK
    <3> QED
      BY <1>b, <3>2, <3>3
  <2>4. CASE SettleSilence(i)
    <3>1. BooksTypeOK' /\ rows' = rows
      BY <2>1, <2>4, SilenceType DEF SettleSilence, MarkNoResponse, TypeInv, TypeOK
    <3>2. RowsOwn'
      BY <3>1 DEF TypeInv, RowsOwn, SentTo
    <3>3. UNCHANGED hooks
      BY <2>4 DEF SettleSilence
    <3>4. BatchTypeOK'
      BY <1>9, <2>1, <2>4 DEF Settle, SettleSilence, TypeInv, TypeOK, BatchTypeOK
    <3> QED
      BY <1>a, <1>b, <3>1, <3>2, <3>3, <3>4
  <2> QED
    BY <1>9, <2>2, <2>3, <2>4 DEF Settle
<1>10. ASSUME NEW r \in Records, SelfCure(r) PROVE TypeInv'
  <2>1. /\ PaidUnprompted(r, <<"cure", 0>>).rec \in Records
        /\ PaidUnprompted(r, <<"cure", 0>>).ok \in BOOLEAN
    BY DEF PaidUnprompted, Event
  <2> QED
    BY <1>10, <1>b, <2>1, ReceiveType, SameBatch DEF SelfCure, Hands
<1>11. CASE EndSettle
  <2>1. BatchTypeOK'
    BY <1>11 DEF EndSettle, Go, TypeInv, TypeOK, BatchTypeOK, Tasks
  <2> QED
    BY <1>11, <1>a, <1>b, <2>1, SameBooks DEF EndSettle
<1>12. ASSUME NEW r \in Records, ReadReply(r) PROVE TypeInv'
  <2>1. task' \in Tasks
    <3>1. /\ state[r] \in States
          /\ \/ task' \in {task, Nothing}
             \/ task' = [do |-> "promise", rec |-> r, saw |-> state[r]]
             \/ task' = [do |-> "human", rec |-> r, saw |-> state[r],
                         open |-> queued[r] > 0]
      BY <1>12 DEF ReadReply, TypeInv, TypeOK, BooksTypeOK
    <3>2. task \in Tasks /\ Nothing \in Tasks
      BY DEF TypeInv, TypeOK, BatchTypeOK, Tasks
    <3>3. [do |-> "promise", rec |-> r, saw |-> state[r]] \in Tasks
      BY <3>1 DEF Tasks
    <3>4. [do |-> "human", rec |-> r, saw |-> state[r], open |-> queued[r] > 0]
            \in Tasks
      BY <3>1 DEF Tasks
    <3> QED
      BY <3>1, <3>2, <3>3, <3>4
  <2>2. stopped' \subseteq Records /\ replied' \subseteq Records
    BY <1>12 DEF ReadReply, TypeInv, TypeOK, BatchTypeOK
  <2>3. BatchTypeOK'
    BY <1>12, <2>1, <2>2 DEF ReadReply, TypeInv, TypeOK, BatchTypeOK
  <2> QED
    BY <1>12, <1>a, <1>b, <2>3, SameBooks DEF ReadReply
<1>13. CASE EndTick
  <2>1. BatchTypeOK'
    BY <1>13 DEF EndTick, Go, NoRecordsRead, TypeInv, TypeOK, BatchTypeOK, Tasks
  <2> QED
    BY <1>13, <1>a, <1>b, <2>1, SameBooks DEF EndTick
<1>14. ASSUME NEW h \in Hands, HandleStep(h), UNCHANGED batch PROVE TypeInv'
  BY <1>14, <1>b, HandleType, SameBatch
<1>15. ASSUME NEW e \in RealEvents, Deliver(e) PROVE TypeInv'
  BY <1>15, <1>b, EventsAssumption, ReceiveType, SameBatch DEF Deliver, Hands
<1>16. CASE Customer
  <2>1. UNCHANGED <<books, linked, inbox, hand>> /\ UNCHANGED batch
    BY <1>16 DEF Customer, CustomerPays, CustomerFails, CustomerPaysUnprompted
  <2>2. emitted \subseteq emitted' /\ emitted' \subseteq emitted \union RealEvents
    BY <1>16 DEF Customer, CustomerPays, CustomerFails, CustomerPaysUnprompted
  <2>3. EventsOwn'
    BY <2>2, EventsAssumption DEF TypeInv, EventsOwn
  <2>4. HandsOwn' /\ HooksTypeOK'
    BY <2>1, <2>2 DEF TypeInv, TypeOK, HandsOwn, HandOK, HooksTypeOK, Free
  <2> QED
    BY <1>b, <2>1, <2>3, <2>4, SameBooks, SameBatch
<1>17. ASSUME NEW r \in Records, AdvanceClock(r) PROVE TypeInv'
  <2>1. BatchTypeOK'
    BY <1>17 DEF AdvanceClock, TypeInv, TypeOK, BatchTypeOK, Tasks, Dates
  <2> QED
    BY <1>17, <1>a, <1>b, <2>1, SameBooks DEF AdvanceClock
<1>18. CASE Crash
  <2>1. BatchTypeOK'
    BY <1>18 DEF Crash, NoRecordsRead, TypeInv, TypeOK, BatchTypeOK, Tasks
  <2>2. Hooked
    BY <1>18 DEF Crash, TypeInv, TypeOK, HooksTypeOK, EventsOwn, HandsOwn, HandOK,
       Free
  <2> QED
    BY <1>18, <1>b, <2>1, <2>2, SameBooks DEF Crash
<1>19. CASE UNCHANGED vars
  BY <1>19, <1>a, <1>b, SameBooks, SameBatch DEF vars
<1> QED
  BY <1>1, <1>2, <1>3, <1>4, <1>5, <1>6, <1>7, <1>8, <1>9, <1>10, <1>11, <1>12,
     <1>13, <1>14, <1>15, <1>16, <1>17, <1>18, <1>19
     DEF Next, TickStep, ServerStep, Hands

\* Types hold in every reachable state, live or dry, whatever crashes.
THEOREM TypeCorrect == Spec => []TypeOK
<1>1. TypeInv => TypeOK
  BY DEF TypeInv
<1> QED
  BY <1>1, InitType, TypeStep, PTL DEF Spec

-----------------------------------------------------------------------------
\* What a step may do to the claims: nothing, or claim what the gate let through.
ClaimsNothing ==
  /\ claimed' = claimed
  /\ task'.do = "record" => task' = task

Claims(r) ==
  /\ r \in DOMAIN todo /\ r \in Records /\ ~todo[r].worked
  /\ At("work")
  /\ \E verdict \in Verdicts : ~Blocking(r, verdict)
  /\ Decide(r) \in Actions
  /\ claimed' = claimed \union {Proposal(r)}
  /\ \/ task' = task
     \/ /\ task' = [do |-> "record", iv |-> Proposal(r)]
        /\ Live => Proposal(r) \in linked'
  /\ UNCHANGED <<books, emitted, inbox, hand>>

\* Only the work on a record claims, and only what the gate let through.
LEMMA ClaimMoves ==
  ASSUME [Next]_vars
  PROVE  ClaimsNothing \/ \E r \in Records : Claims(r)
<1>1. ASSUME NEW r \in Records, Work(r)
      PROVE  ClaimsNothing \/ Claims(r)
  <2>1. CASE HandOver(r) \/ Stop(r) \/ Leave(r)
    BY <1>1, <2>1 DEF Work, HandOver, Stop, Leave, ClaimsNothing, Nothing
  <2>2. CASE /\ \E verdict \in Verdicts : ~Blocking(r, verdict)
             /\ Decide(r) \in Actions
             /\ Execute(r)
    BY <1>1, <2>2 DEF Work, Execute, Claims
  <2> QED
    BY <1>1, <2>1, <2>2 DEF Work
<1>2. CASE TickStep
  <2>1. CASE ReadDue \/ ResolveDue \/ Refresh \/ Commit \/ BeginSettle \/ EndSettle
             \/ EndTick
    BY <2>1 DEF ReadDue, ResolveDue, Refresh, Commit, BeginSettle, EndSettle,
       EndTick, ClaimsNothing, Nothing
  <2>2. ASSUME NEW r \in Records, SettlePromise(r) \/ ReadReply(r) \/ SelfCure(r)
        PROVE  ClaimsNothing
    BY <2>2 DEF SettlePromise, ReadReply, SelfCure, batch, ClaimsNothing, Nothing
  <2>3. ASSUME NEW i \in pending, Settle(i) PROVE ClaimsNothing
    BY <2>3 DEF Settle, ClaimsNothing
  <2>4. CASE UNCHANGED batch
    BY <2>4 DEF batch, ClaimsNothing
  <2> QED
    BY <1>1, <1>2, <2>1, <2>2, <2>3, <2>4 DEF TickStep
<1>3. CASE Begin \/ Crash \/ \E r \in Records : AdvanceClock(r)
  <2>1. CASE Begin
    BY <2>1, BeginMoves DEF ClaimsNothing
  <2> QED
    BY <1>3, <2>1 DEF Crash, AdvanceClock, ClaimsNothing, Nothing
<1>4. CASE UNCHANGED batch
  BY <1>4 DEF batch, ClaimsNothing
<1> QED
  BY <1>2, <1>3, <1>4 DEF Next, Deliver, ServerStep, Customer, vars

\* A link goes to nobody whose promise is still standing.
THEOREM PromiseRespected == Spec => PromiseIsRespected
<1>1. TypeInv /\ [Next]_vars =>
        [\A i \in Started :
           i[3] \in ContactActions => promise[RecordOf(i)].is # "OPEN"]_vars
  <2> SUFFICES ASSUME TypeInv, [Next]_vars, NEW i \in Started,
                      i[3] \in ContactActions
               PROVE  promise[RecordOf(i)].is # "OPEN"
    OBVIOUS
  <2>1. PICK r \in Records : Claims(r)
    BY ClaimMoves DEF ClaimsNothing, Started
  <2>2. i = Proposal(r)
    BY <2>1 DEF Claims, Started
  <2> QED
    BY <2>1, <2>2, ProposalType DEF Claims
<1> QED
  BY <1>1, InitType, TypeStep, PTL DEF Spec, PromiseIsRespected

-----------------------------------------------------------------------------
\* What a step may do to the rows, their results and the attempt counters.
FreshRead(v) ==
  /\ v.iv \in Interventions
  /\ v.iv \in SentTo(RecordOf(v.iv))
  /\ v.result = result[v.iv]
  /\ v.attempts = attempts[RecordOf(v.iv)]

Still ==
  /\ UNCHANGED <<rows, result, attempts>>
  /\ \A h \in Hands :
       hand'[h].at = "looked" => hand'[h] = hand[h] \/ FreshRead(hand'[h])

AddRow ==
  /\ RecordRow
  /\ task' = Nothing
  /\ UNCHANGED hand

Answer(h) ==
  /\ hand[h].at = "looked"
  /\ \/ Credit(hand[h].iv, hand[h].state)
     \/ FailAgain(hand[h].iv, hand[h].result, hand[h].attempts)
  /\ hand[h].result # "RECOVERED"
  /\ \E o \in Outcomes : Decided(h, o)
  /\ task' = task

Silence(i) ==
  /\ At("settle")
  /\ i \in pending
  /\ MarkNoResponse(i)
  /\ UNCHANGED hand
  /\ task' = task

\* Every step is one of these four, as far as rows, results and counters go.
LEMMA BookMoves ==
  ASSUME TypeInv, [Next]_vars
  PROVE  \/ Still
         \/ AddRow
         \/ \E h \in Hands : Answer(h)
         \/ \E i \in pending : Silence(i)
<1>1. ASSUME UNCHANGED <<rows, result, attempts, hand>> PROVE Still
  BY <1>1 DEF Still
<1>2. ASSUME NEW h \in Hands, NEW e, Receive(h, e) PROVE Still
  BY <1>2 DEF Receive, Still, books, TypeInv, HandsOwn
<1>3. ASSUME NEW h \in Hands, Look(h) PROVE Still
  <2>1. UNCHANGED <<rows, result, attempts>>
        /\ \A k \in Hands \ {h} : hand'[k] = hand[k]
    BY <1>3 DEF Look, books, TypeInv, HandsOwn
  <2>2. ASSUME hand'[h].at = "looked" PROVE FreshRead(hand'[h])
    <3>1. hand[h].ev.rec \in Records
      BY <1>3 DEF Look, TypeInv, TypeOK, HandsOwn, HandOK, Idle, HooksTypeOK, EventsOwn
    <3>2. \A i \in Found(hand[h].ev) : i \in SentTo(hand[h].ev.rec)
      BY <3>1, LastIsSent DEF Found, TypeInv, TypeOK
    <3>3. \A i \in Found(hand[h].ev) :
            i \in Interventions /\ i \in SentTo(RecordOf(i))
      BY <3>1, <3>2 DEF TypeInv, RowsOwn
    <3>4. PICK i \in Found(hand[h].ev) :
            hand'[h] = [at |-> "looked", ev |-> hand[h].ev, iv |-> i,
                        result |-> result[i], state |-> state[RecordOf(i)],
                        attempts |-> attempts[RecordOf(i)]]
      BY <1>3, <2>2 DEF Look, TypeInv, HandsOwn
    <3> QED
      BY <3>3, <3>4 DEF FreshRead
  <2> QED
    BY <2>1, <2>2 DEF Still
<1>4. ASSUME NEW h \in Hands, Apply(h), UNCHANGED batch PROVE Still \/ Answer(h)
  <2>1. \E o \in Outcomes : Decided(h, o)
    BY <1>4 DEF Apply, Outcomes
  <2>2. ASSUME UNCHANGED <<rows, result, attempts>> PROVE Still
    BY <2>1, <2>2 DEF Decided, Still, TypeInv, HandsOwn
  <2>3. task' = task
    BY <1>4 DEF batch
  <2> QED
    BY <1>4, <2>1, <2>2, <2>3 DEF Apply, Answer, Unprompted, books
<1>5. ASSUME NEW h \in Hands, SettleEventRow(h) PROVE Still
  BY <1>5 DEF SettleEventRow, Still, Idle, books, TypeInv, HandsOwn
<1>6. ASSUME NEW h \in Hands, HandleStep(h), UNCHANGED batch
      PROVE  Still \/ Answer(h)
  BY <1>3, <1>4, <1>5, <1>6 DEF HandleStep
<1>7. ASSUME NEW i \in pending, Settle(i) PROVE Still \/ Silence(i)
  <2>1. CASE SettlePaid(i) \/ SettleFailed(i)
    BY <1>2, <2>1 DEF SettlePaid, SettleFailed, Hands
  <2>2. CASE SettleSilence(i)
    BY <1>7, <2>2 DEF Settle, SettleSilence, Silence, hooks
  <2> QED
    BY <1>7, <2>1, <2>2 DEF Settle
<1>8. CASE Commit
  <2>1. CASE RecordRow
    BY <1>8, <2>1 DEF Commit, AddRow, hooks
  <2>2. CASE PutInQueue \/ Close \/ ReplyToHuman \/ RecordPromise
    BY <1>1, <1>8, <2>2 DEF Commit, PutInQueue, Close, ReplyToHuman,
       RecordPromise, hooks
  <2> QED
    BY <1>8, <2>1, <2>2 DEF Commit
<1>9. CASE Begin \/ ReadDue \/ ResolveDue \/ Refresh \/ BeginSettle \/ EndSettle
           \/ EndTick
  BY <1>1, <1>9 DEF Begin, BeginTick, BeginOnly, ReadDue, ResolveDue, Refresh, BeginSettle,
     EndSettle, EndTick, books, hooks
<1>10. ASSUME NEW r \in Records,
              SettlePromise(r) \/ SelfCure(r)
       PROVE  Still
  BY <1>2, <1>10 DEF SettlePromise, SelfCure, Hands
<1>11. ASSUME NEW r \in Records, Work(r) \/ ReadReply(r) \/ AdvanceClock(r)
       PROVE  Still
  BY <1>1, <1>11 DEF Work, Leave, HandOver, Stop, Execute, ReadReply,
     AdvanceClock, books, hooks
<1>12. CASE Customer
  BY <1>1, <1>12 DEF Customer, CustomerPays, CustomerFails,
     CustomerPaysUnprompted, books
<1>13. ASSUME NEW e \in RealEvents, Deliver(e) PROVE Still
  BY <1>2, <1>13 DEF Deliver, Hands
<1>14. CASE Crash
  BY <1>14 DEF Crash, Still, Idle, books
<1>15. CASE UNCHANGED vars
  BY <1>1, <1>15 DEF vars, books, hooks
<1> QED
  BY <1>6, <1>7, <1>8, <1>9, <1>10, <1>11, <1>12, <1>13, <1>14, <1>15
     DEF Next, TickStep, ServerStep, Hands

-----------------------------------------------------------------------------
\* Only one thread at a time has a link's event in hand.  Live, every link of ours
\* exists at Razorpay (LinksLanded), so the batch settles none and nobody replies:
\* all it raises are payments on the merchant's own orders.  In dry run no link exists
\* at Razorpay, so all it can tell us of is a payment on the merchant's own order,
\* which names no intervention; and an event of the simulator was claimed when it
\* was raised, so a delivery of it is a second one.
OnMerchantsOrder(v) == v.ev.by = "source" /\ v.at # "looked"

Quiet ==
  /\ RealEvents = {} => Free("server")
  /\ ~Live => /\ linked = {}
              /\ \A e \in emitted : e.by = "source" \/ e \in DOMAIN inbox
              /\ Free("server") \/ OnMerchantsOrder(hand["server"])
  /\ Live => /\ Free("batch") \/ OnMerchantsOrder(hand["batch"])
             /\ pending = {} /\ replied = {} /\ broken = {}
             /\ task.do \notin {"promise", "due"}
             /\ \A r \in Records : promise[r].is # "OPEN"

\* Live, every link a row was or is to be written for exists at Razorpay.
LinksLanded ==
  Live => /\ \A r \in Records : SentTo(r) \subseteq linked
          /\ task.do = "record" => task.iv \in linked

\* A link that exists at Razorpay stays there.
LEMMA LinkedGrows ==
  ASSUME [Next]_vars
  PROVE  linked \subseteq linked'
<1>1. CASE TickStep
  <2>1. CASE ReadDue \/ ResolveDue \/ Refresh \/ Commit \/ BeginSettle \/ EndSettle
             \/ EndTick
    BY <2>1 DEF ReadDue, ResolveDue, Refresh, Commit, BeginSettle, EndSettle, EndTick,
       hooks
  <2>2. ASSUME NEW r \in Records,
               SettlePromise(r) \/ Work(r) \/ ReadReply(r) \/ SelfCure(r)
        PROVE  linked \subseteq linked'
    BY <2>2 DEF SettlePromise, Work, HandOver, Stop, Leave, Execute, ReadReply,
       SelfCure, Receive, hooks
  <2>3. ASSUME NEW i \in pending, Settle(i) PROVE linked' = linked
    BY <2>3 DEF Settle, SettlePaid, SettleFailed, SettleSilence, Receive, hooks
  <2>4. CASE HandleStep("batch")
    BY <2>4 DEF HandleStep, Look, Apply, SettleEventRow
  <2> QED
    BY <1>1, <2>1, <2>2, <2>3, <2>4 DEF TickStep
<1>2. CASE Begin \/ Crash \/ Customer \/ \E r \in Records : AdvanceClock(r)
  BY <1>2 DEF Begin, BeginTick, BeginOnly, Crash, Customer, CustomerPays,
     CustomerFails, CustomerPaysUnprompted, AdvanceClock, hooks
<1>3. CASE ServerStep \/ \E e \in RealEvents : Deliver(e)
  BY <1>3 DEF ServerStep, HandleStep, Look, Apply, SettleEventRow, Deliver, Receive
<1>4. CASE UNCHANGED vars
  BY <1>4 DEF vars, hooks
<1> QED
  BY <1>1, <1>2, <1>3, <1>4 DEF Next

\* Live, no row is written for a link that does not exist.
LEMMA LandedStep ==
  ASSUME TypeInv, LinksLanded, [Next]_vars
  PROVE  LinksLanded'
<1> SUFFICES ASSUME Live
             PROVE  /\ \A r \in Records : SentTo(r)' \subseteq linked'
                    /\ task'.do = "record" => task'.iv \in linked'
  BY DEF LinksLanded
<1>1. /\ \A r \in Records : SentTo(r) \subseteq linked'
      /\ task.do = "record" => task.iv \in linked'
  BY LinkedGrows DEF LinksLanded
<1>2. \A r \in Records : SentTo(r)' \subseteq linked'
  <2>1. CASE AddRow
    <3>1. task.do = "record"
      BY <2>1 DEF AddRow, RecordRow
    <3> QED
      BY <1>1, <2>1, <3>1, RecordRowSent DEF AddRow
  <2>2. CASE rows' = rows
    BY <1>1, <2>2 DEF SentTo
  <2> QED
    BY <2>1, <2>2, BookMoves DEF Still, Answer, Credit, FailAgain, Silence,
       MarkNoResponse
<1>3. task'.do = "record" => task'.iv \in linked'
  BY <1>1, ClaimMoves DEF ClaimsNothing, Claims
<1> QED
  BY <1>2, <1>3

\* That one thread has link events in hand is kept by every step.
LEMMA QuietStep ==
  ASSUME TypeInv, Quiet, LinksLanded, [Next]_vars
  PROVE  Quiet'
<1> USE DEF Quiet
<1>1. ASSUME UNCHANGED hand \/ hand' = [h \in Hands |-> Idle],
             ~Live => linked' = linked,
             UNCHANGED <<emitted, inbox>>,
             Live => /\ pending' = {} /\ replied' = {} /\ broken' = {}
                     /\ task'.do \notin {"promise", "due"}
                     /\ \A r \in Records : promise'[r].is # "OPEN"
      PROVE  Quiet'
  BY <1>1 DEF Free, Hands, OnMerchantsOrder
<1>2. ASSUME NEW h \in Hands, HandleStep(h), UNCHANGED batch PROVE Quiet'
  <2>1. ~Free(h) /\ hand' \in [Hands -> {hand'[k] : k \in Hands}]
    BY <1>2 DEF HandleStep, Look, Apply, Decided, SettleEventRow, Free, Idle,
       TypeInv, HandsOwn
  <2>2. \A k \in Hands \ {h} : hand'[k] = hand[k]
    BY <1>2 DEF HandleStep, Look, Apply, Decided, SettleEventRow, TypeInv, HandsOwn
  <2>3. linked' = linked /\ emitted' = emitted /\ DOMAIN inbox' = DOMAIN inbox
    BY <1>2 DEF HandleStep, Look, Apply, SettleEventRow
  <2>4. ASSUME OnMerchantsOrder(hand[h])
        PROVE  Free(h)' \/ OnMerchantsOrder(hand[h])'
    <3>1. /\ hand[h].ev.by = "source" /\ hand[h].at # "looked"
          /\ Found(hand[h].ev) = {}
          /\ \A x : hand' = [hand EXCEPT ![h] = x] => hand'[h] = x
      BY <2>4 DEF OnMerchantsOrder, Found, TypeInv, HandsOwn
    <3>2. CASE Look(h)
      <4>1. PICK x : /\ hand' = [hand EXCEPT ![h] = x]
                     /\ x.at # "looked" /\ x.ev = hand[h].ev
        BY <3>1, <3>2 DEF Look
      <4> QED
        BY <3>1, <4>1 DEF OnMerchantsOrder
    <3>3. CASE Apply(h)
      <4>1. PICK o : Decided(h, o)
        BY <3>3 DEF Apply
      <4>2. hand'[h] = [at |-> "decided", ev |-> hand[h].ev, outcome |-> o]
        BY <3>1, <4>1 DEF Decided
      <4> QED
        BY <3>1, <4>2 DEF OnMerchantsOrder
    <3>4. CASE SettleEventRow(h)
      BY <3>1, <3>4 DEF SettleEventRow, Free
    <3> QED
      BY <1>2, <3>2, <3>3, <3>4 DEF HandleStep
  <2>5. /\ ~Live => Free("server")' \/ OnMerchantsOrder(hand["server"])'
        /\ Live => Free("batch")' \/ OnMerchantsOrder(hand["batch"])'
    <3>1. /\ h = "server" /\ ~Live => OnMerchantsOrder(hand[h])
          /\ h = "batch" /\ Live => OnMerchantsOrder(hand[h])
      BY <2>1
    <3> QED
      BY <2>2, <2>4, <3>1 DEF Free, OnMerchantsOrder, Hands
  <2> QED
    BY <1>2, <2>1, <2>2, <2>3, <2>5 DEF batch, Free, Hands
<1>3. ASSUME NEW e, Receive("batch", e), ~Live \/ (e.by = "source" /\ UNCHANGED batch)
      PROVE  Quiet'
  <2>1. hand'["server"] = hand["server"]
    BY <1>3 DEF Receive, TypeInv, HandsOwn, Hands
  <2>2. /\ linked' = linked /\ emitted' = emitted \union {e}
        /\ DOMAIN inbox' = DOMAIN inbox \union {e}
    BY <1>3 DEF Receive
  <2>3. \/ hand'["batch"] = hand["batch"]
        \/ hand'["batch"] = [at |-> "claimed", ev |-> e]
    BY <1>3 DEF Receive, TypeInv, HandsOwn, Hands
  <2>4. Live => Free("batch")' \/ OnMerchantsOrder(hand["batch"])'
    BY <1>3, <2>3 DEF Free, OnMerchantsOrder
  <2> QED
    BY <1>3, <2>1, <2>2, <2>4 DEF Free, OnMerchantsOrder, batch
<1>4. CASE Begin \/ EndSettle \/ EndTick \/ Refresh
  BY <1>1, <1>4 DEF Begin, BeginTick, BeginOnly, EndSettle, EndTick, Refresh, hooks,
     At, Nothing
<1>5. CASE ReadDue
  BY <1>1, <1>5 DEF ReadDue, Due, hooks, At, Nothing
<1>6. CASE ResolveDue
  <2>0. ~Live
    BY <1>6 DEF ResolveDue
  <2> QED
    BY <1>1, <1>6, <2>0 DEF ResolveDue, hooks
<1>7. ASSUME NEW r \in Records, SettlePromise(r) PROVE Quiet'
  <2>1. ~Live
    BY <1>7 DEF SettlePromise, Due
  <2> QED
    BY <1>3, <1>7, <2>1 DEF SettlePromise
<1>8. ASSUME NEW r \in Records, Work(r) PROVE Quiet'
  <2>1. task'.do \notin {"promise", "due"} /\ (~Live => linked' = linked)
    BY <1>8 DEF Work, Leave, HandOver, Stop, Execute, At, Nothing
  <2> QED
    BY <1>1, <1>8, <2>1 DEF Work
<1>9. CASE Commit
  <2>1. Live => promise' = promise
    BY <1>9 DEF Commit, PutInQueue, Close, RecordRow, ReplyToHuman, RecordPromise
  <2> QED
    BY <1>1, <1>9, <2>1 DEF Commit, hooks, Nothing
<1>10. CASE BeginSettle
  <2>1. Live => pending' = {}
    BY <1>10 DEF BeginSettle, Unanswered, LinksLanded
  <2> QED
    BY <1>1, <1>10, <2>1 DEF BeginSettle, hooks, At, Nothing
<1>11. ASSUME NEW i \in pending, Settle(i) PROVE Quiet'
  <2>1. ~Live
    OBVIOUS
  <2>2. CASE SettlePaid(i) \/ SettleFailed(i)
    BY <1>3, <2>1, <2>2 DEF SettlePaid, SettleFailed
  <2>3. CASE SettleSilence(i)
    BY <1>1, <2>1, <2>3 DEF SettleSilence, hooks
  <2> QED
    BY <1>11, <2>2, <2>3 DEF Settle
<1>12. ASSUME NEW r \in Records, SelfCure(r) PROVE Quiet'
  <2>1. PaidUnprompted(r, <<"cure", 0>>).by = "source"
    BY DEF PaidUnprompted, Event
  <2> QED
    BY <1>3, <1>12, <2>1 DEF SelfCure
<1>13. ASSUME NEW r \in Records, ReadReply(r) PROVE Quiet'
  <2>1. ~Live
    BY <1>13 DEF ReadReply
  <2> QED
    BY <1>1, <1>13, <2>1 DEF ReadReply, hooks
<1>14. ASSUME NEW e \in RealEvents, Deliver(e) PROVE Quiet'
  <2>1. hand'["batch"] = hand["batch"]
    BY <1>14 DEF Deliver, Receive, TypeInv, HandsOwn, Hands
  <2>2. /\ linked' = linked /\ emitted' = emitted
        /\ DOMAIN inbox \subseteq DOMAIN inbox'
    BY <1>14 DEF Deliver, Receive
  <2>3. \/ hand'["server"] = hand["server"]
        \/ /\ hand'["server"] = [at |-> "claimed", ev |-> e]
           /\ e \notin DOMAIN inbox
    BY <1>14 DEF Deliver, Receive, TypeInv, HandsOwn, Hands
  <2>4. ~Live => Free("server")' \/ OnMerchantsOrder(hand["server"])'
    BY <1>14, <2>3 DEF Deliver, Free, OnMerchantsOrder
  <2> QED
    BY <1>14, <2>1, <2>2, <2>4 DEF Deliver, batch, Free, OnMerchantsOrder
<1>15. CASE Customer
  <2>1. UNCHANGED <<linked, inbox, hand>> /\ UNCHANGED batch
    BY <1>15 DEF Customer, CustomerPays, CustomerFails, CustomerPaysUnprompted
  <2>2. ~Live => \A e \in emitted' : e.by = "source" \/ e \in emitted
    BY <1>15 DEF Customer, CustomerPays, CustomerFails, CustomerPaysUnprompted
  <2> QED
    BY <2>1, <2>2 DEF batch, Free, OnMerchantsOrder
<1>16. ASSUME NEW r \in Records, AdvanceClock(r) PROVE Quiet'
  BY <1>1, <1>16 DEF AdvanceClock, hooks
<1>17. CASE Crash
  BY <1>1, <1>17 DEF Crash, Nothing
<1>18. CASE UNCHANGED vars
  BY <1>1, <1>18 DEF vars, hooks, batch
<1> QED
  BY <1>2, <1>4, <1>5, <1>6, <1>7, <1>8, <1>9, <1>10, <1>11, <1>12, <1>13,
     <1>14, <1>15, <1>16, <1>17, <1>18 DEF Next, TickStep, ServerStep, Hands

\* So what a hand has read is still what the books say when it writes, and only
\* what was sent has a result.
HandsFresh ==
  \A h \in Hands : hand[h].at = "looked" => FreshRead(hand[h])

PendingSent == \A i \in pending : i \in SentTo(RecordOf(i))

SentResolve ==
  \A i \in Interventions : result[i] # "none" => i \in SentTo(RecordOf(i))

SentFinite == \A r \in Records : IsFiniteSet(SentTo(r))

CountInv ==
  /\ TypeInv
  /\ Quiet
  /\ LinksLanded
  /\ HandsFresh
  /\ PendingSent
  /\ SentResolve
  /\ SentFinite
  /\ AttemptsAreReal

\* What was sent stays sent.
LEMMA SentGrows ==
  ASSUME TypeInv, [Next]_vars
  PROVE  \A r \in Records : SentTo(r) \subseteq SentTo(r)'
<1>1. CASE rows' = rows
  BY <1>1 DEF SentTo
<1>2. CASE AddRow
  BY <1>2, RecordRowSent DEF AddRow
<1>3. ASSUME NEW h \in Hands, Answer(h) PROVE rows' = rows
  BY <1>3 DEF Answer, Credit, FailAgain
<1>4. ASSUME NEW i \in pending, Silence(i) PROVE rows' = rows
  BY <1>4 DEF Silence, MarkNoResponse
<1> QED
  BY <1>1, <1>2, <1>3, <1>4, BookMoves DEF Still

\* What waits to be settled was sent.
LEMMA PendingStep ==
  ASSUME TypeInv, PendingSent, [Next]_vars
  PROVE  PendingSent'
<1>1. pending' \subseteq pending \/ pending' \subseteq Unanswered
  <2>1. CASE TickStep
    BY <2>1 DEF TickStep, ReadDue, ResolveDue, Refresh, SettlePromise, Work,
       ReadReply, SelfCure, Commit, BeginSettle, Settle, EndSettle, EndTick, batch
  <2>2. CASE Begin \/ Crash \/ \E r \in Records : AdvanceClock(r)
    BY <2>2 DEF Begin, BeginTick, BeginOnly, Crash, AdvanceClock
  <2>3. CASE UNCHANGED batch
    BY <2>3 DEF batch
  <2> QED
    BY <2>1, <2>2, <2>3 DEF Next, Deliver, ServerStep, Customer, vars
<1>2. \A i \in pending' : /\ RecordOf(i) \in Records
                          /\ i \in SentTo(RecordOf(i))
  <2>1. \A i \in pending : RecordOf(i) \in Records
    BY DEF TypeInv, TypeOK, BatchTypeOK, Interventions, RecordOf
  <2>2. \A i \in Unanswered : RecordOf(i) \in Records /\ i \in SentTo(RecordOf(i))
    BY DEF Unanswered, TypeInv, RowsOwn
  <2> QED
    BY <1>1, <2>1, <2>2 DEF PendingSent
<1> QED
  BY <1>2, SentGrows DEF PendingSent

\* The counter is spent by the resolution it counts.
LEMMA CountStep ==
  ASSUME TypeInv, SentFinite, AttemptsAreReal,
         NEW i \in Interventions, i \in SentTo(RecordOf(i)),
         NEW new \in Results \ {"none"}, result[i] # "RECOVERED", rows' = rows,
         result' = [result EXCEPT ![i] = new],
         attempts' = IF result[i] = "none" /\ new # "RECOVERED"
                     THEN [attempts EXCEPT ![RecordOf(i)] = @ + 1]
                     ELSE attempts
  PROVE  AttemptsAreReal'
<1> SUFFICES ASSUME NEW r \in Records
             PROVE  /\ Cardinality(SentWith(r, {"FAILED_AGAIN", "NO_RESPONSE"})')
                         <= attempts'[r]
                    /\ attempts'[r] <=
                         Cardinality(SentWith(r, Results \ {"none"})')
  BY DEF AttemptsAreReal
<1> DEFINE A == SentWith(r, {"FAILED_AGAIN", "NO_RESPONSE"})
           B == SentWith(r, Results \ {"none"})
<1> HIDE DEF A, B
<1>1. /\ Cardinality(A) <= attempts[r] /\ attempts[r] <= Cardinality(B)
      /\ attempts[r] \in Nat
  BY DEF A, B, AttemptsAreReal, TypeInv, TypeOK, BooksTypeOK
<1>2. IsFiniteSet(A) /\ IsFiniteSet(B)
  BY FS_Subset DEF A, B, SentWith, SentFinite
<1>3. Cardinality(A) \in Nat /\ Cardinality(B) \in Nat
  BY <1>2, FS_CardinalityType
<1>4. /\ new \in Results \ {"none"}
      /\ SentTo(r)' = SentTo(r)
      /\ \A x \in SentTo(r) : result'[x] = IF x = i THEN new ELSE result[x]
      /\ r = RecordOf(i) => i \in SentTo(r)
      /\ r # RecordOf(i) => i \notin SentTo(r)
  BY DEF SentTo, TypeInv, TypeOK, BooksTypeOK, RowsOwn
<1>5. A' = IF r # RecordOf(i) THEN A
           ELSE IF new \in {"FAILED_AGAIN", "NO_RESPONSE"} THEN A \union {i}
           ELSE A \ {i}
  BY <1>4 DEF A, SentWith
<1>6. B' = IF r # RecordOf(i) THEN B ELSE B \union {i}
  BY <1>4 DEF B, SentWith
<1>7. /\ Cardinality(A \union {i}) = IF i \in A THEN Cardinality(A)
                                     ELSE Cardinality(A) + 1
      /\ Cardinality(A \ {i}) = IF i \in A THEN Cardinality(A) - 1
                                ELSE Cardinality(A)
      /\ Cardinality(B \union {i}) = IF i \in B THEN Cardinality(B)
                                     ELSE Cardinality(B) + 1
  BY <1>2, FS_AddElement, FS_RemoveElement
<1>8. r = RecordOf(i) =>
        /\ i \in A <=> result[i] \in {"FAILED_AGAIN", "NO_RESPONSE"}
        /\ i \in B <=> result[i] # "none"
  BY DEF A, B, SentWith, TypeInv, TypeOK, BooksTypeOK
<1>9. result[i] \in {"none", "FAILED_AGAIN", "NO_RESPONSE"}
  BY DEF TypeInv, TypeOK, BooksTypeOK, Results
<1>10. attempts'[r] = IF r = RecordOf(i) /\ result[i] = "none" /\ new # "RECOVERED"
                      THEN attempts[r] + 1 ELSE attempts[r]
  BY DEF TypeInv, TypeOK, BooksTypeOK
<1>11. new \in {"FAILED_AGAIN", "NO_RESPONSE"} <=> new # "RECOVERED"
  BY DEF Results
<1>12. Cardinality(A') <= attempts'[r] /\ attempts'[r] <= Cardinality(B')
  <2>1. CASE r # RecordOf(i)
    BY <1>1, <1>5, <1>6, <1>10, <2>1
  <2>2. CASE r = RecordOf(i) /\ new = "RECOVERED"
    BY <1>1, <1>3, <1>5, <1>6, <1>7, <1>10, <1>11, <2>2
  <2>3. CASE r = RecordOf(i) /\ new # "RECOVERED"
    BY <1>1, <1>3, <1>5, <1>6, <1>7, <1>8, <1>9, <1>10, <1>11, <2>3
  <2> QED
    BY <2>1, <2>2, <2>3
<1> QED
  BY <1>12 DEF A, B

\* Where both hands stand before and after the rows, results or counters move.
LEMMA FreshStep ==
  ASSUME CountInv, [Next]_vars
  PROVE  HandsFresh'
<1> USE DEF CountInv
<1>1. CASE Still
  <2>1. ASSUME NEW h \in Hands, hand'[h].at = "looked" PROVE FreshRead(hand'[h])
    BY <1>1, <2>1 DEF Still, HandsFresh
  <2> QED
    BY <1>1, <2>1 DEF Still, HandsFresh, FreshRead, SentTo
<1>2. CASE AddRow
  <2>1. \A h \in Hands : hand[h].at = "looked" =>
             /\ hand[h].iv \in Interventions
             /\ RecordOf(hand[h].iv) \in Records
    BY DEF HandsFresh, FreshRead, Interventions, RecordOf
  <2>2. UNCHANGED <<hand, result, attempts>>
    BY <1>2 DEF AddRow, RecordRow
  <2> QED
    BY <2>1, <2>2, SentGrows DEF HandsFresh, FreshRead
<1>3. ASSUME NEW h \in Hands, Answer(h) PROVE HandsFresh'
  <2>1. \A k \in Hands \ {h} : hand[k].at # "looked"
    BY <1>3 DEF Answer, OnMerchantsOrder, Quiet, Hands, Free, Idle
  <2>2. \A k \in Hands : hand'[k].at # "looked"
    BY <1>3, <2>1 DEF Answer, Decided, TypeInv, HandsOwn
  <2> QED
    BY <2>2 DEF HandsFresh
<1>4. ASSUME NEW i \in pending, Silence(i) PROVE HandsFresh'
  <2>1. \A k \in Hands : hand[k].at # "looked"
    BY <1>4 DEF Silence, At, OnMerchantsOrder, Quiet, Hands, Idle, Free
  <2> QED
    BY <1>4, <2>1 DEF Silence, HandsFresh
<1> QED
  BY <1>1, <1>2, <1>3, <1>4, BookMoves

\* An answer or a silence resolves an intervention that was sent.
LEMMA Resolves ==
  ASSUME CountInv, NEW i \in Interventions,
         (\E h \in Hands : i = hand[h].iv /\ Answer(h)) \/ (i \in pending /\ Silence(i))
  PROVE  /\ i \in SentTo(RecordOf(i))
         /\ rows' = rows
         /\ \/ UNCHANGED <<result, attempts>>
            \/ /\ result[i] # "RECOVERED"
               /\ \E new \in Results \ {"none"} :
                    /\ result' = [result EXCEPT ![i] = new]
                    /\ attempts' = IF result[i] = "none" /\ new # "RECOVERED"
                                   THEN [attempts EXCEPT ![RecordOf(i)] = @ + 1]
                                   ELSE attempts
<1> USE DEF CountInv
<1>1. ASSUME NEW h \in Hands, i = hand[h].iv, Answer(h)
      PROVE  /\ i \in SentTo(RecordOf(i))
             /\ rows' = rows
             /\ result[i] # "RECOVERED"
             /\ \E new \in {"RECOVERED", "FAILED_AGAIN"} :
                    /\ result' = [result EXCEPT ![i] = new]
                    /\ attempts' = IF result[i] = "none" /\ new # "RECOVERED"
                                   THEN [attempts EXCEPT ![RecordOf(i)] = @ + 1]
                                   ELSE attempts
  <2>1. FreshRead(hand[h])
    BY <1>1 DEF Answer, HandsFresh
  <2>2. result[i] # "RECOVERED" /\ i \in SentTo(RecordOf(i))
    BY <1>1, <2>1 DEF Answer, FreshRead
  <2>3. CASE Credit(i, hand[h].state)
    BY <2>2, <2>3 DEF Credit
  <2>4. CASE FailAgain(i, hand[h].result, hand[h].attempts)
    <3>1. result' = [result EXCEPT ![i] = "FAILED_AGAIN"]
      BY <1>1, <2>1, <2>4 DEF FailAgain, FreshRead, TypeInv, TypeOK, BooksTypeOK
    <3>2. attempts' = IF result[i] = "none"
                      THEN [attempts EXCEPT ![RecordOf(i)] = @ + 1] ELSE attempts
      BY <1>1, <2>1, <2>4 DEF FailAgain, FreshRead
    <3>3. rows' = rows
      BY <2>4 DEF FailAgain
    <3> QED
      BY <2>2, <3>1, <3>2, <3>3
  <2> QED
    BY <1>1, <2>3, <2>4 DEF Answer
<1>2. CASE i \in pending /\ Silence(i)
  <2>1. i \in SentTo(RecordOf(i)) /\ rows' = rows
    BY <1>2 DEF PendingSent, Silence, MarkNoResponse
  <2>2. CASE result[i] = "none"
    BY <1>2, <2>1, <2>2 DEF Silence, MarkNoResponse, Results
  <2>3. CASE result[i] # "none"
    BY <1>2, <2>1, <2>3 DEF Silence, MarkNoResponse
  <2> QED
    BY <2>2, <2>3
<1> QED
  BY <1>1, <1>2 DEF Results

\* So the counter counts what resolved, after every step.
LEMMA CountInvStep ==
  ASSUME CountInv, [Next]_vars
  PROVE  CountInv'
<1> USE DEF CountInv
<1>1. TypeInv' /\ Quiet' /\ LinksLanded' /\ HandsFresh' /\ PendingSent'
  BY TypeStep, QuietStep, LandedStep, FreshStep, PendingStep
<1>2. CASE Still
  <2>1. rows' = rows /\ result' = result /\ attempts' = attempts
    BY <1>2 DEF Still
  <2>2. SentResolve' /\ SentFinite'
    BY <2>1 DEF SentResolve, SentFinite, SentTo
  <2>3. AttemptsAreReal'
    BY <2>1 DEF AttemptsAreReal, SentWith, SentTo
  <2> QED
    BY <1>1, <2>2, <2>3
<1>3. CASE AddRow
  <2>1. /\ task.iv \in Interventions
        /\ \A x \in Records :
             SentTo(x)' = IF x = RecordOf(task.iv) THEN SentTo(x) \union {task.iv}
                          ELSE SentTo(x)
        /\ UNCHANGED <<result, attempts>>
    BY <1>3, RecordRowSent DEF AddRow, RecordRow
  <2>2. SentFinite'
    BY <2>1, FS_AddElement DEF SentFinite
  <2>3. SentResolve'
    <3>1. \A x \in Interventions : RecordOf(x) \in Records
      BY DEF Interventions, RecordOf
    <3> QED
      BY <2>1, <3>1, SentGrows DEF SentResolve
  <2>4. ASSUME NEW r \in Records
        PROVE  /\ SentWith(r, {"FAILED_AGAIN", "NO_RESPONSE"})'
                    = SentWith(r, {"FAILED_AGAIN", "NO_RESPONSE"})
               /\ SentWith(r, Results \ {"none"})' = SentWith(r, Results \ {"none"})
    <3>1. \/ SentTo(r)' = SentTo(r)
          \/ /\ SentTo(r)' = SentTo(r) \union {task.iv}
             /\ task.iv \in SentTo(r) \/ result[task.iv] = "none"
      BY <2>1 DEF SentResolve
    <3> QED
      BY <2>1, <3>1 DEF SentWith
  <2>5. AttemptsAreReal'
    BY <2>1, <2>4 DEF AttemptsAreReal
  <2> QED
    BY <1>1, <2>2, <2>3, <2>5
<1>4. CASE (\E h \in Hands : Answer(h)) \/ (\E i \in pending : Silence(i))
  <2>1. PICK i \in Interventions :
          \/ \E h \in Hands : i = hand[h].iv /\ Answer(h)
          \/ i \in pending /\ Silence(i)
    BY <1>4 DEF Answer, HandsFresh, FreshRead, TypeInv, TypeOK, BatchTypeOK
  <2>2. rows' = rows /\ i \in SentTo(RecordOf(i))
    BY <2>1, Resolves
  <2>3. SentFinite'
    BY <2>2 DEF SentFinite, SentTo
  <2>4. CASE UNCHANGED <<result, attempts>>
    <3>1. rows' = rows /\ result' = result /\ attempts' = attempts
      BY <2>2, <2>4
    <3>2. SentResolve'
      BY <3>1 DEF SentResolve, SentTo
    <3>3. AttemptsAreReal'
      BY <3>1 DEF AttemptsAreReal, SentWith, SentTo
    <3> QED
      BY <1>1, <2>3, <3>2, <3>3
  <2>5. CASE ~UNCHANGED <<result, attempts>>
    <3>1. PICK new \in Results \ {"none"} :
            /\ result[i] # "RECOVERED"
            /\ result' = [result EXCEPT ![i] = new]
            /\ attempts' = IF result[i] = "none" /\ new # "RECOVERED"
                           THEN [attempts EXCEPT ![RecordOf(i)] = @ + 1]
                           ELSE attempts
      BY <2>1, <2>5, Resolves
    <3>2. AttemptsAreReal'
      BY <2>2, <3>1, CountStep
    <3>3. SentResolve'
      BY <2>2, <3>1 DEF SentResolve, SentTo, TypeInv, TypeOK, BooksTypeOK
    <3> QED
      BY <1>1, <2>3, <3>2, <3>3
  <2> QED
    BY <2>4, <2>5
<1> QED
  BY <1>2, <1>3, <1>4, BookMoves

\* It does so when nothing has been sent.
LEMMA InitCount == Init => CountInv
<1> SUFFICES ASSUME Init PROVE CountInv
  OBVIOUS
<1>1. TypeInv
  BY InitType
<1>2. Quiet /\ HandsFresh
  BY DEF Init, HooksInit, Hands, Quiet, HandsFresh, Free, Idle, Nothing, NoPromise
<1>3. \A r \in Records : SentTo(r) = {}
  <2>1. \A r \in Records : rows[r] = <<>>
    BY DEF Init, BooksInit
  <2>2. Len(<<>>) = 0 /\ 1..0 = {}
    OBVIOUS
  <2> QED
    BY <2>1, <2>2 DEF SentTo
<1>4. PendingSent /\ SentResolve /\ SentFinite
  BY <1>3, FS_EmptySet DEF Init, BooksInit, PendingSent, SentResolve, SentFinite
<1>5. AttemptsAreReal
  <2>1. \A r \in Records :
          /\ SentWith(r, {"FAILED_AGAIN", "NO_RESPONSE"}) = {}
          /\ SentWith(r, Results \ {"none"}) = {}
          /\ attempts[r] = 0
    BY <1>3 DEF SentWith, Init, BooksInit
  <2> QED
    <3>1. Cardinality({}) = 0
      BY FS_EmptySet
    <3>2. ASSUME NEW r \in Records
          PROVE  /\ Cardinality(SentWith(r, {"FAILED_AGAIN", "NO_RESPONSE"})) <= attempts[r]
                 /\ attempts[r] <= Cardinality(SentWith(r, Results \ {"none"}))
      BY <2>1, <3>1
    <3> QED
      BY <3>2 DEF AttemptsAreReal
<1>6. LinksLanded
  BY <1>3 DEF LinksLanded, Init, Nothing
<1> QED
  BY <1>1, <1>2, <1>4, <1>5, <1>6 DEF CountInv

\* The attempt counter counts what resolved without money, over all ticks,
\* crashes and deliveries, live or dry.
THEOREM AttemptsCounted == Spec => []AttemptsAreReal
<1>1. CountInv /\ [Next]_vars => CountInv'
  BY CountInvStep
<1>2. CountInv => AttemptsAreReal
  BY DEF CountInv
<1> QED
  BY <1>1, <1>2, InitCount, PTL DEF Spec

\* Money once counted stays counted, in every step.
LEMMA CreditStays ==
  ASSUME CountInv, [Next]_vars, NEW j \in Interventions, result[j] = "RECOVERED"
  PROVE  result'[j] = "RECOVERED"
<1>1. CASE Still \/ AddRow
  BY <1>1 DEF Still, AddRow, RecordRow
<1>2. CASE (\E h \in Hands : Answer(h)) \/ (\E i \in pending : Silence(i))
  <2>1. PICK i \in Interventions :
          \/ \E h \in Hands : i = hand[h].iv /\ Answer(h)
          \/ i \in pending /\ Silence(i)
    BY <1>2 DEF CountInv, Answer, HandsFresh, FreshRead, TypeInv, TypeOK, BatchTypeOK
  <2> QED
    BY <2>1, Resolves DEF CountInv, TypeInv, TypeOK, BooksTypeOK
<1> QED
  BY <1>1, <1>2, BookMoves DEF CountInv

\* So it is for good, live or dry, whatever is delivered late, twice or out of
\* order.
THEOREM CreditPermanent == Spec => CreditIsPermanent
<1>1. CountInv /\ [Next]_vars =>
        [\A i \in Interventions :
           result[i] = "RECOVERED" => result'[i] = "RECOVERED"]_vars
  BY CreditStays
<1>2. CountInv /\ [Next]_vars => CountInv'
  BY CountInvStep
<1> QED
  BY <1>1, <1>2, InitCount, PTL DEF Spec, CreditIsPermanent

\* What a step may do to the hands and the inbox.
LEMMA HandsMove ==
  ASSUME [Next]_vars
  PROVE  \/ UNCHANGED <<hand, inbox>>
         \/ hand' = [h \in Hands |-> Idle] /\ inbox' = inbox
         \/ \E h \in Hands : (\E e : Receive(h, e)) \/ HandleStep(h)
<1> USE DEF Hands
<1>1. CASE TickStep
  <2>1. CASE ReadDue \/ ResolveDue \/ Refresh \/ Commit \/ BeginSettle \/ EndSettle
             \/ EndTick \/ \E r \in Records : Work(r) \/ ReadReply(r)
    BY <2>1 DEF ReadDue, ResolveDue, Refresh, Commit, BeginSettle, EndSettle, EndTick,
       Work, ReadReply, hooks
  <2>2. CASE \E r \in Records : SettlePromise(r) \/ SelfCure(r)
    BY <2>2 DEF SettlePromise, SelfCure
  <2>3. ASSUME NEW i \in pending, Settle(i)
        PROVE  UNCHANGED <<hand, inbox>> \/ \E e : Receive("batch", e)
    BY <2>3 DEF Settle, SettlePaid, SettleFailed, SettleSilence, hooks
  <2> QED
    BY <1>1, <2>1, <2>2, <2>3 DEF TickStep
<1>2. CASE ServerStep \/ \E e \in RealEvents : Deliver(e)
  BY <1>2 DEF ServerStep, Deliver
<1>3. CASE Crash
  BY <1>3 DEF Crash
<1>4. CASE Begin \/ Customer \/ UNCHANGED vars \/ \E r \in Records : AdvanceClock(r)
  BY <1>4 DEF Begin, BeginTick, BeginOnly, Customer, CustomerPays, CustomerFails,
     CustomerPaysUnprompted, AdvanceClock, vars, hooks
<1> QED
  BY <1>1, <1>2, <1>3, <1>4 DEF Next

\* A payment that was answered as handled is money some intervention of its record
\* was credited with: no failure, no second event and no race of the two hands
\* makes the inbox say so of a payment that was dropped.
Handled == {"PROCESSED", "ALREADY_ATTRIBUTED"}

CreditedFor(r) == SentWith(r, {"RECOVERED"}) # {}

HandledIsCredited ==
  \A e \in DOMAIN inbox : e.ok /\ inbox[e] \in Handled => CreditedFor(e.rec)

\* To be so it has to be so of what a hand has decided, and a hand has to have
\* looked up an intervention of the record of its event.
HandCredits(v) ==
  /\ v.at = "looked" => RecordOf(v.iv) = v.ev.rec
  /\ v.at = "decided" /\ v.ev.ok /\ v.outcome \in Handled => CreditedFor(v.ev.rec)

InboxInv == HandledIsCredited /\ \A h \in Hands : HandCredits(hand[h])

\* One hand's statement of handle().
LEMMA HandleCredits ==
  ASSUME CountInv, InboxInv, NEW h \in Hands, HandleStep(h),
         \A r \in Records : CreditedFor(r) => CreditedFor(r)'
  PROVE  InboxInv'
<1> DEFINE b == hand[h]
<1> USE DEF CountInv
<1>1. /\ DOMAIN hand = Hands /\ b.ev \in DOMAIN inbox /\ b.ev.rec \in Records
      /\ \A e \in DOMAIN inbox : e.rec \in Records
      /\ HandCredits(b)
  BY DEF HandleStep, Look, Apply, SettleEventRow, TypeInv, HandsOwn, HandOK, Idle,
     TypeOK, HooksTypeOK, EventsOwn, InboxInv
<1>2. ASSUME NEW k \in Hands \ {h} PROVE HandCredits(hand[k])'
  <2>1. hand'[k] = hand[k]
    BY <1>1, <1>2 DEF HandleStep, Look, Apply, Decided, SettleEventRow
  <2>2. hand[k].at = "decided" => hand[k].ev.rec \in Records
    BY <1>1 DEF TypeInv, HandsOwn, HandOK, Idle
  <2> QED
    BY <2>1, <2>2 DEF HandCredits, InboxInv
<1>3. ASSUME inbox' = inbox, HandCredits(b)' PROVE InboxInv'
  BY <1>1, <1>2, <1>3 DEF InboxInv, HandledIsCredited
<1>4. CASE Look(h)
  <2>1. \A i \in Found(b.ev) : RecordOf(i) = b.ev.rec
    BY <1>1, LastIsSent DEF Found, TypeInv, TypeOK, RowsOwn
  <2>2. \/ /\ hand'[h].at = "looked" /\ hand'[h].ev = b.ev
           /\ hand'[h].iv \in Found(b.ev)
        \/ hand'[h].at = "unprompted"
        \/ hand'[h].at = "decided" /\ hand'[h].outcome = "UNATTRIBUTED"
    <3>1. \A x : hand' = [hand EXCEPT ![h] = x] => hand'[h] = x
      BY <1>1
    <3>2. ASSUME NEW i \in Found(b.ev), hand' = [hand EXCEPT ![h] =
              [at |-> "looked", ev |-> b.ev, iv |-> i, result |-> result[i],
               state |-> state[RecordOf(i)], attempts |-> attempts[RecordOf(i)]]]
          PROVE  hand'[h].at = "looked" /\ hand'[h].ev = b.ev /\ hand'[h].iv = i
      <4>1. hand'[h] = [at |-> "looked", ev |-> b.ev, iv |-> i, result |-> result[i],
               state |-> state[RecordOf(i)], attempts |-> attempts[RecordOf(i)]]
        BY <3>1, <3>2
      <4> QED
        BY <4>1
    <3>3. CASE \/ hand' = [hand EXCEPT ![h] = [at |-> "unprompted", ev |-> b.ev]]
               \/ hand' = [hand EXCEPT ![h] = [at |-> "decided", ev |-> b.ev,
                                                outcome |-> "UNATTRIBUTED"]]
      BY <3>1, <3>3
    <3> QED
      BY <1>4, <3>2, <3>3 DEF Look
  <2>3. HandCredits(hand[h])'
    BY <2>1, <2>2 DEF HandCredits, Handled
  <2> QED
    BY <1>3, <1>4, <2>3 DEF Look
<1>5. CASE Apply(h)
  <2>0. PICK r \in Records : r = b.ev.rec
    BY <1>1
  <2>1. PICK o \in Outcomes :
          /\ Decided(h, o)
          /\ b.at = "looked" \/ o = "ORGANIC"
    BY <1>5 DEF Apply, Outcomes
  <2>2. /\ hand'[h].at = "decided" /\ hand'[h].outcome = o /\ hand'[h].ev = b.ev
        /\ hand'[h].ev.rec = r
    BY <1>1, <2>0, <2>1 DEF Decided
  <2>3. CASE b.at = "looked" /\ b.ev.ok
    <3>1. /\ b.iv \in Interventions /\ b.iv \in SentTo(r)
          /\ result[b.iv] = b.result
      BY <1>1, <2>0, <2>3 DEF HandCredits, HandsFresh, FreshRead
    <3>2. PICK i \in Interventions : i = b.iv
      BY <3>1
    <3>3. \/ b.result = "RECOVERED" /\ UNCHANGED books
          \/ Credit(i, b.state)
      BY <1>5, <2>3, <3>2 DEF Apply
    <3>4. result'[i] = "RECOVERED"
      BY <3>1, <3>2, <3>3 DEF Credit, books, TypeInv, TypeOK, BooksTypeOK
    <3>5. rows' = rows
      BY <3>3 DEF Credit, books
    <3>6. CreditedFor(r)'
      BY <3>1, <3>2, <3>4, <3>5 DEF CreditedFor, SentWith, SentTo
    <3>7. HandCredits(hand[h])'
      BY <2>2, <3>6 DEF HandCredits
    <3> QED
      BY <1>3, <1>5, <3>7 DEF Apply
  <2>4. CASE ~(b.at = "looked" /\ b.ev.ok)
    <3>1. HandCredits(hand[h])'
      BY <2>1, <2>2, <2>4 DEF HandCredits, Handled
    <3> QED
      BY <1>3, <1>5, <3>1 DEF Apply
  <2> QED
    BY <2>3, <2>4
<1>6. CASE SettleEventRow(h)
  <2>1. /\ b.at = "decided" /\ inbox' = [inbox EXCEPT ![b.ev] = b.outcome]
        /\ hand'[h] = Idle
    BY <1>1, <1>6 DEF SettleEventRow
  <2>2. HandledIsCredited'
    BY <1>1, <2>1 DEF HandledIsCredited, HandCredits, InboxInv
  <2> QED
    BY <1>2, <2>1, <2>2 DEF InboxInv, HandCredits, Idle
<1> QED
  BY <1>4, <1>5, <1>6 DEF HandleStep

LEMMA InboxInvStep ==
  ASSUME CountInv, InboxInv, [Next]_vars
  PROVE  InboxInv'
<1> USE DEF CountInv
<1>1. \A r \in Records : CreditedFor(r) => CreditedFor(r)'
  <2> SUFFICES ASSUME NEW r \in Records, NEW i \in SentTo(r), result[i] = "RECOVERED"
               PROVE  CreditedFor(r)'
    BY DEF CreditedFor, SentWith
  <2>1. i \in SentTo(r)' /\ result'[i] = "RECOVERED"
    BY SentGrows, CreditStays DEF TypeInv, RowsOwn
  <2> QED
    BY <2>1 DEF CreditedFor, SentWith
<1>2. \A e \in DOMAIN inbox : e.rec \in Records
  BY DEF TypeInv, TypeOK, HooksTypeOK, EventsOwn
<1>3. \A h \in Hands : hand[h].at = "decided" => hand[h].ev.rec \in Records
  BY <1>2 DEF TypeInv, HandsOwn, HandOK, Idle
<1>4. CASE UNCHANGED <<hand, inbox>>
  BY <1>1, <1>2, <1>3, <1>4 DEF InboxInv, HandledIsCredited, HandCredits
<1>5. CASE hand' = [h \in Hands |-> Idle] /\ inbox' = inbox
  <2>1. \A h \in Hands : HandCredits(hand[h])'
    BY <1>5 DEF HandCredits, Idle
  <2> QED
    BY <1>1, <1>2, <1>5, <2>1 DEF InboxInv, HandledIsCredited
<1>6. ASSUME NEW h \in Hands, NEW e, Receive(h, e) PROVE InboxInv'
  <2>1. CASE UNCHANGED <<hand, inbox>>
    BY <1>4, <2>1
  <2>2. CASE /\ inbox' = [x \in DOMAIN inbox \union {e} |->
                            IF x = e THEN "RECEIVED" ELSE inbox[x]]
             /\ hand' = [hand EXCEPT ![h] = [at |-> "claimed", ev |-> e]]
             /\ e \notin DOMAIN inbox
    <3>1. HandledIsCredited'
      BY <1>1, <1>2, <2>2 DEF InboxInv, HandledIsCredited, Handled
    <3>2. \A k \in Hands : hand'[k] = hand[k] \/ hand'[k].at = "claimed"
      BY <2>2 DEF TypeInv, HandsOwn
    <3>3. \A k \in Hands : HandCredits(hand[k])'
      BY <1>1, <1>3, <3>2 DEF InboxInv, HandCredits
    <3> QED
      BY <3>1, <3>3 DEF InboxInv
  <2> QED
    BY <1>6, <2>1, <2>2 DEF Receive
<1>7. ASSUME NEW h \in Hands, HandleStep(h) PROVE InboxInv'
  BY <1>1, <1>7, HandleCredits
<1> QED
  BY <1>4, <1>5, <1>6, <1>7, HandsMove

\* What the inbox says was handled was credited, live or dry, for any events,
\* deliveries and crashes.
THEOREM HandledCredited == Spec => []HandledIsCredited
<1>1. Init => InboxInv
  BY DEF Init, HooksInit, InboxInv, HandledIsCredited, HandCredits, Idle, Hands
<1>2. CountInv /\ InboxInv /\ [Next]_vars => CountInv' /\ InboxInv'
  BY CountInvStep, InboxInvStep
<1>3. InboxInv => HandledIsCredited
  BY DEF InboxInv
<1> QED
  BY <1>1, <1>2, <1>3, InitCount, PTL DEF Spec

-----------------------------------------------------------------------------
\* Attempts are numbered: one number is one intervention as long as the stall
\* ladder and the record's own do not send different things under it.
Rung(ladder, n) == IF n > Len(ladder) THEN "NO_ACTION" ELSE ladder[n]

LaddersAgree ==
  \A r \in Records : \A n \in 1..HardCap :
    /\ Rung(Ladder[r], n) \in Actions
    /\ Rung(StalledLadder, n) \in Actions
    => Rung(Ladder[r], n) = Rung(StalledLadder, n)

\* Live, nobody replies, so no promise is broken and the stall ladder is not used.
OneLadder == Live \/ LaddersAgree

OnRung(i) ==
  \/ i[3] = Rung(Ladder[RecordOf(i)], i[2])
  \/ ~Live /\ i[3] = Rung(StalledLadder, i[2])

OnLadder == \A i \in claimed : OnRung(i)

SentClaimed == \A r \in Records : SentTo(r) \subseteq claimed

\* Only the newest attempt can be unanswered, and its number is the next one.
UnansweredIsLast ==
  \A r \in Records : \A i \in SentTo(r) :
    /\ i[2] <= attempts[r] + 1
    /\ result[i] = "none" => i[2] = attempts[r] + 1

\* Every number up to the counter has been used.
NumberClaimed ==
  \A r \in Records : \A n \in 1..attempts[r] :
    \E i \in claimed : RecordOf(i) = r /\ i[2] = n

\* The snapshot may lag behind the counter, never run ahead of it.
TodoBehind == \A r \in DOMAIN todo : todo[r].attempts <= attempts[r]

\* The call in hand is the next attempt, and its row is not written yet.
HeldRow ==
  task.do = "record" =>
    /\ task.iv \in claimed
    /\ task.iv \notin SentTo(RecordOf(task.iv))
    /\ task.iv[2] = attempts[RecordOf(task.iv)] + 1

RowsClimb ==
  \A r \in Records : \A n \in 1..Len(rows[r]) : n <= rows[r][n][2]

NumberInv ==
  /\ CountInv
  /\ OnLadder
  /\ SentClaimed
  /\ UnansweredIsLast
  /\ NumberClaimed
  /\ TodoBehind
  /\ HeldRow
  /\ RowsClimb

\* One number of one record is one intervention.
LEMMA OneRung ==
  ASSUME OneLadder, NEW i \in Interventions, NEW j \in Interventions,
         OnRung(i), OnRung(j), RecordOf(i) = RecordOf(j), i[2] = j[2]
  PROVE  i = j
<1>1. /\ RecordOf(i) \in Records /\ i[2] \in 1..HardCap
      /\ i[3] \in Actions /\ j[3] \in Actions
  BY DEF Interventions, RecordOf
<1>2. i[3] = j[3]
  BY <1>1 DEF OneLadder, LaddersAgree, OnRung
<1> QED
  BY <1>2 DEF Interventions, RecordOf

\* The counter never goes back.
LEMMA AttemptsGrow ==
  ASSUME CountInv, [Next]_vars
  PROVE  \A r \in Records : attempts[r] \in Nat /\ attempts[r] <= attempts'[r]
<1>0. \A r \in Records : attempts[r] \in Nat
  BY DEF CountInv, TypeInv, TypeOK, BooksTypeOK
<1>1. CASE attempts' = attempts
  BY <1>0, <1>1
<1>2. CASE (\E h \in Hands : Answer(h)) \/ (\E i \in pending : Silence(i))
  <2>1. PICK i \in Interventions :
          \/ \E h \in Hands : i = hand[h].iv /\ Answer(h)
          \/ i \in pending /\ Silence(i)
    BY <1>2 DEF CountInv, Answer, HandsFresh, FreshRead, TypeInv, TypeOK,
       BatchTypeOK
  <2>2. \/ attempts' = attempts
        \/ attempts' = [attempts EXCEPT ![RecordOf(i)] = @ + 1]
    BY <2>1, Resolves
  <2>3. \A r \in Records : attempts'[r] \in {attempts[r], attempts[r] + 1}
    BY <2>2 DEF CountInv, TypeInv, TypeOK, BooksTypeOK
  <2> QED
    BY <1>0, <2>3
<1> QED
  BY <1>1, <1>2, BookMoves DEF CountInv, Still, AddRow, RecordRow

\* A snapshot taken in any way stays behind the counter.
LEMMA TodoStep ==
  ASSUME CountInv, TodoBehind, [Next]_vars
  PROVE  TodoBehind'
<1> DEFINE Kept == /\ DOMAIN todo' \subseteq DOMAIN todo
                   /\ \A r \in DOMAIN todo' : todo'[r].attempts = todo[r].attempts
           Reread == \A r \in DOMAIN todo' :
                       r \in Records /\ todo'[r].attempts \in {0, attempts[r]}
<1>1. ASSUME todo' = todo PROVE Kept
  BY <1>1
<1>2. Kept \/ Reread
  <2>1. CASE Begin
    BY <2>1, BeginMoves DEF Taken, Read
  <2>2. CASE Refresh
    <3>1. DOMAIN todo \subseteq Records
      BY DEF CountInv, TypeInv, TypeOK, BatchTypeOK
    <3> QED
      BY <2>2, <3>1 DEF Refresh, Snapshot, Read
  <2>3. ASSUME NEW r \in Records, Work(r) PROVE Kept
    <3>1. todo' = [todo EXCEPT ![r].worked = TRUE] /\ r \in DOMAIN todo
      BY <2>3 DEF Work, Leave, HandOver, Stop, Execute, Worked
    <3>2. todo[r] \in [state : States, attempts : Nat, worked : BOOLEAN]
      BY <3>1 DEF CountInv, TypeInv, TypeOK, BatchTypeOK
    <3>3. \A x \in DOMAIN todo : todo'[x].attempts = todo[x].attempts
      BY <3>1, <3>2
    <3> QED
      BY <3>1, <3>3
  <2>4. CASE EndTick \/ Crash
    BY <2>4 DEF EndTick, Crash, NoRecordsRead
  <2>5. CASE ReadDue \/ ResolveDue \/ Commit \/ BeginSettle \/ EndSettle
    BY <1>1, <2>5 DEF ReadDue, ResolveDue, Commit, BeginSettle, EndSettle
  <2>6. ASSUME NEW r \in Records,
               SettlePromise(r) \/ ReadReply(r) \/ SelfCure(r) \/ AdvanceClock(r)
        PROVE  Kept
    BY <1>1, <2>6 DEF SettlePromise, ReadReply, SelfCure, AdvanceClock, batch
  <2>7. ASSUME NEW i \in pending, Settle(i) PROVE Kept
    BY <1>1, <2>7 DEF Settle
  <2>8. CASE UNCHANGED batch
    BY <1>1, <2>8 DEF batch
  <2> QED
    BY <2>1, <2>2, <2>3, <2>4, <2>5, <2>6, <2>7, <2>8 DEF Next, TickStep, Deliver,
       ServerStep, Customer, vars
<1>3. \A r \in DOMAIN todo : r \in Records /\ todo[r].attempts \in Nat
  BY DEF CountInv, TypeInv, TypeOK, BatchTypeOK
<1>4. \A r \in Records : attempts'[r] \in Nat
  BY TypeStep DEF CountInv, TypeInv, TypeOK, BooksTypeOK
<1>5. CASE Kept
  BY <1>3, <1>4, <1>5, AttemptsGrow DEF TodoBehind
<1>6. CASE Reread
  BY <1>4, <1>6, AttemptsGrow DEF TodoBehind
<1> QED
  BY <1>2, <1>5, <1>6

\* What the gate lets through is the next attempt, not one made before.
LEMMA ProposalIsNext ==
  ASSUME NumberInv, OneLadder, NEW r \in Records, Claims(r)
  PROVE  /\ Proposal(r) \in Interventions /\ RecordOf(Proposal(r)) = r
         /\ OnRung(Proposal(r))
         /\ Proposal(r)[2] = attempts[r] + 1
         /\ Proposal(r) \notin claimed
<1> USE DEF NumberInv, CountInv
<1>1. /\ Proposal(r) \in Interventions /\ RecordOf(Proposal(r)) = r
      /\ Proposal(r)[2] = NextAttempt(r) /\ Proposal(r)[3] = Decide(r)
      /\ NextAttempt(r) \in 1..HardCap
      /\ Proposal(r) \notin claimed
  BY ProposalType DEF Claims
<1>2. OnRung(Proposal(r))
  <2>1. Live => r \notin broken
    BY DEF Quiet
  <2> QED
    BY <1>1, <2>1 DEF OnRung, Decide, Rung
<1>3. /\ r \in DOMAIN todo /\ todo[r].attempts \in Nat /\ attempts[r] \in Nat
      /\ todo[r].attempts <= attempts[r]
  BY DEF Claims, TodoBehind, TypeInv, TypeOK, BatchTypeOK, BooksTypeOK
<1>4. ~(NextAttempt(r) <= attempts[r])
  <2> SUFFICES ASSUME NextAttempt(r) <= attempts[r] PROVE FALSE
    OBVIOUS
  <2>1. NextAttempt(r) \in 1..attempts[r]
    BY <1>3 DEF NextAttempt
  <2>2. PICK i \in claimed : RecordOf(i) = r /\ i[2] = NextAttempt(r)
    BY <2>1 DEF NumberClaimed
  <2>3. i \in Interventions /\ OnRung(i)
    BY DEF OnLadder, TypeInv, TypeOK, BatchTypeOK
  <2>4. i = Proposal(r)
    BY <1>1, <1>2, <2>2, <2>3, OneRung
  <2> QED
    BY <1>1, <2>4
<1>5. NextAttempt(r) = attempts[r] + 1
  BY <1>3, <1>4 DEF NextAttempt
<1> QED
  BY <1>1, <1>2, <1>5

\* A claim takes the next number.
LEMMA ClaimNumber ==
  ASSUME NumberInv, OneLadder, [Next]_vars, NEW r \in Records, Claims(r)
  PROVE  /\ OnLadder' /\ SentClaimed' /\ UnansweredIsLast' /\ NumberClaimed'
         /\ HeldRow' /\ RowsClimb'
<1> USE DEF NumberInv
<1>1. /\ Proposal(r) \in Interventions /\ RecordOf(Proposal(r)) = r
      /\ OnRung(Proposal(r))
      /\ Proposal(r)[2] = attempts[r] + 1
      /\ Proposal(r) \notin claimed
  BY ProposalIsNext
<1>2. /\ claimed' = claimed \union {Proposal(r)}
      /\ rows' = rows /\ result' = result /\ attempts' = attempts
      /\ task = Nothing
      /\ task' = task \/ task' = [do |-> "record", iv |-> Proposal(r)]
  BY DEF Claims, books, At
<1>3. OnLadder'
  BY <1>1, <1>2 DEF OnLadder, OnRung
<1>4. SentClaimed' /\ UnansweredIsLast' /\ NumberClaimed' /\ RowsClimb'
  BY <1>2 DEF SentClaimed, UnansweredIsLast, NumberClaimed, RowsClimb, SentTo
<1>5. HeldRow'
  <2>1. Proposal(r) \notin SentTo(r)'
    BY <1>1, <1>2 DEF SentClaimed, SentTo
  <2> QED
    BY <1>1, <1>2, <2>1 DEF HeldRow, Nothing
<1> QED
  BY <1>3, <1>4, <1>5

\* The row that is written carries the next number, above all the rows before.
LEMMA RowNumber ==
  ASSUME NumberInv, OneLadder, AddRow, claimed' = claimed
  PROVE  SentClaimed' /\ UnansweredIsLast' /\ RowsClimb'
<1> DEFINE i == task.iv
           r == RecordOf(i)
<1> USE DEF NumberInv, CountInv
<1>1. /\ i \in Interventions /\ r \in Records
      /\ \A x \in Records :
           SentTo(x)' = IF x = r THEN SentTo(x) \union {i} ELSE SentTo(x)
      /\ UNCHANGED <<result, attempts>>
  BY RecordRowSent DEF AddRow, RecordRow
<1>2. /\ i \in claimed /\ i \notin SentTo(r) /\ i[2] = attempts[r] + 1
  BY DEF HeldRow, AddRow, RecordRow
<1>3. \A x \in Records : attempts[x] \in Nat
  BY DEF TypeInv, TypeOK, BooksTypeOK
<1>4. SentClaimed'
  BY <1>1, <1>2 DEF SentClaimed
<1>5. UnansweredIsLast'
  BY <1>1, <1>2, <1>3 DEF UnansweredIsLast
<1>6. \A n \in 1..Len(rows[r]) :
        /\ rows[r][n] \in Interventions /\ rows[r][n] \in claimed
        /\ RecordOf(rows[r][n]) = r /\ rows[r][n][2] < i[2]
  <2> TAKE n \in 1..Len(rows[r])
  <2>1. rows[r][n] \in SentTo(r)
    BY DEF SentTo
  <2>2. /\ rows[r][n] \in Interventions /\ rows[r][n] \in claimed
        /\ RecordOf(rows[r][n]) = r
        /\ rows[r][n][2] <= attempts[r] + 1
    BY <1>1, <2>1 DEF SentClaimed, UnansweredIsLast, TypeInv, RowsOwn
  <2>3. rows[r][n] # i
    BY <1>2, <2>1
  <2>4. rows[r][n][2] # i[2]
    BY <1>1, <1>2, <2>2, <2>3, OneRung DEF OnLadder
  <2>5. rows[r][n][2] \in Nat
    BY <2>2, BooksAssumption DEF Interventions
  <2> QED
    BY <1>1, <1>2, <1>3, <2>2, <2>4, <2>5
<1>7. RowsClimb'
  <2>1. /\ rows[r] \in Seq(Interventions) /\ Len(rows[r]) \in Nat
        /\ rows' = [rows EXCEPT ![r] = Append(@, i)]
    BY <1>1 DEF TypeInv, TypeOK, BooksTypeOK, AddRow, RecordRow
  <2>2. \A x \in Records : rows'[x] = IF x = r THEN Append(rows[r], i) ELSE rows[x]
    BY <2>1 DEF TypeInv, TypeOK, BooksTypeOK
  <2>3. /\ Len(Append(rows[r], i)) = Len(rows[r]) + 1
        /\ Append(rows[r], i)[Len(rows[r]) + 1] = i
        /\ \A n \in 1..Len(rows[r]) : Append(rows[r], i)[n] = rows[r][n]
    BY <1>1, <2>1
  <2>4. Len(rows[r]) + 1 <= i[2]
    <3>1. i[2] \in Nat /\ i[2] >= 1
      BY <1>1, BooksAssumption DEF Interventions
    <3>2. CASE Len(rows[r]) = 0
      BY <3>1, <3>2
    <3>3. CASE Len(rows[r]) # 0
      <4> DEFINE top == rows[r][Len(rows[r])][2]
      <4>1. Len(rows[r]) \in 1..Len(rows[r])
        BY <2>1, <3>3
      <4>2. Len(rows[r]) <= top /\ top < i[2]
        BY <1>1, <1>6, <4>1 DEF RowsClimb
      <4>3. top \in Nat
        BY <1>6, <4>1, BooksAssumption DEF Interventions
      <4> QED
        BY <2>1, <3>1, <4>2, <4>3
    <3> QED
      BY <3>2, <3>3
  <2>5. ASSUME NEW n \in 1..(Len(rows[r]) + 1) PROVE n <= Append(rows[r], i)[n][2]
    <3>1. CASE n = Len(rows[r]) + 1
      BY <2>3, <2>4, <3>1
    <3>2. CASE n # Len(rows[r]) + 1
      <4>1. n \in 1..Len(rows[r])
        BY <2>1, <3>2
      <4> QED
        BY <1>1, <2>3, <4>1 DEF RowsClimb
    <3> QED
      BY <3>1, <3>2
  <2> QED
    BY <2>2, <2>3, <2>5 DEF RowsClimb
<1> QED
  BY <1>4, <1>5, <1>7

\* A resolution spends the number of the only attempt that was unanswered.
LEMMA ResolveNumber ==
  ASSUME NumberInv, OneLadder, claimed' = claimed, rows' = rows,
         NEW i \in Interventions, i \in SentTo(RecordOf(i)),
         result[i] # "RECOVERED",
         NEW new \in Results \ {"none"},
         result' = [result EXCEPT ![i] = new],
         attempts' = IF result[i] = "none" /\ new # "RECOVERED"
                     THEN [attempts EXCEPT ![RecordOf(i)] = @ + 1]
                     ELSE attempts,
         task' = task
  PROVE  UnansweredIsLast' /\ NumberClaimed' /\ HeldRow'
<1> USE DEF NumberInv, CountInv
<1>1. /\ \A r \in Records : SentTo(r)' = SentTo(r) /\ attempts[r] \in Nat
      /\ \A r \in Records : \A j \in SentTo(r) :
           /\ j \in Interventions /\ RecordOf(j) = r /\ j \in claimed /\ j[2] \in Nat
      /\ RecordOf(i) \in Records
  <2>1. \A r \in Records : SentTo(r)' = SentTo(r)
    BY DEF SentTo
  <2>2. \A r \in Records : attempts[r] \in Nat
    BY DEF TypeInv, TypeOK, BooksTypeOK
  <2>3. \A r \in Records : \A j \in SentTo(r) :
           j \in Interventions /\ RecordOf(j) = r /\ j \in claimed
    BY DEF TypeInv, RowsOwn, SentClaimed
  <2>4. \A j \in Interventions : j[2] \in Nat /\ RecordOf(j) \in Records
    BY BooksAssumption DEF Interventions, RecordOf
  <2> QED
    BY <2>1, <2>2, <2>3, <2>4
<1>2. /\ result' \in [Interventions -> Results]
      /\ \A j \in Interventions : result'[j] = IF j = i THEN new ELSE result[j]
  BY DEF TypeInv, TypeOK, BooksTypeOK
<1>3. CASE attempts' = attempts
  <2>1. UnansweredIsLast'
    <3>1. \A r \in Records : \A j \in SentTo(r) :
            /\ j[2] <= attempts[r] + 1
            /\ result'[j] = "none" => j[2] = attempts[r] + 1
      BY <1>1, <1>2 DEF UnansweredIsLast
    <3> QED
      BY <1>1, <1>3, <3>1 DEF UnansweredIsLast
  <2>2. NumberClaimed'
    BY <1>3 DEF NumberClaimed
  <2>3. HeldRow'
    <3>1. task.do = "record" => RecordOf(task.iv) \in Records
      BY TaskTypes DEF Interventions, RecordOf
    <3> QED
      BY <1>1, <1>3, <3>1 DEF HeldRow
  <2> QED
    BY <2>1, <2>2, <2>3
<1>4. CASE /\ result[i] = "none"
           /\ \A r \in Records : attempts'[r] = IF r = RecordOf(i)
                                   THEN attempts[r] + 1 ELSE attempts[r]
  <2>1. i[2] = attempts[RecordOf(i)] + 1
    BY <1>1, <1>4 DEF UnansweredIsLast
  <2>2. \A r \in Records : \A j \in SentTo(r) :
            /\ j[2] <= attempts'[r] + 1
            /\ result'[j] = "none" => j[2] = attempts'[r] + 1
    <3> SUFFICES ASSUME NEW r \in Records, NEW j \in SentTo(r)
                 PROVE  /\ j[2] <= attempts'[r] + 1
                        /\ result'[j] = "none" => j[2] = attempts'[r] + 1
      OBVIOUS
    <3>1. /\ j[2] <= attempts[r] + 1 /\ j[2] \in Nat /\ attempts[r] \in Nat
          /\ result[j] = "none" => j[2] = attempts[r] + 1
      BY <1>1 DEF UnansweredIsLast
    <3>2. CASE r # RecordOf(i)
      <4>1. attempts'[r] = attempts[r] /\ result'[j] = result[j]
        BY <1>1, <1>2, <1>4, <3>2
      <4> QED
        BY <3>1, <4>1
    <3>3. CASE r = RecordOf(i)
      <4>1. attempts'[r] = attempts[r] + 1
        BY <1>4, <3>3
      <4>2. result'[j] # "none"
        <5>1. CASE j = i
          BY <1>2, <5>1
        <5>2. CASE j # i
          <6>1. j[2] # i[2]
            BY <1>1, <3>3, <5>2, OneRung DEF OnLadder
          <6>2. result[j] # "none"
            BY <2>1, <3>1, <3>3, <6>1
          <6> QED
            BY <1>1, <1>2, <5>2, <6>2
        <5> QED
          BY <5>1, <5>2
      <4> QED
        BY <3>1, <4>1, <4>2
    <3> QED
      BY <3>2, <3>3
  <2>3. UnansweredIsLast'
    BY <1>1, <2>2 DEF UnansweredIsLast
  <2>4. NumberClaimed'
    <3> SUFFICES ASSUME NEW r \in Records, NEW n \in 1..attempts'[r]
                 PROVE  \E j \in claimed : RecordOf(j) = r /\ j[2] = n
      BY DEF NumberClaimed
    <3>1. CASE n \in 1..attempts[r]
      BY <3>1 DEF NumberClaimed
    <3>2. CASE n \notin 1..attempts[r]
      <4>1. r = RecordOf(i) /\ n = attempts[r] + 1
        BY <1>1, <1>4, <3>2
      <4> QED
        BY <1>1, <2>1, <4>1
    <3> QED
      BY <3>1, <3>2
  <2>5. HeldRow'
    <3> SUFFICES ASSUME task.do = "record"
                 PROVE  /\ task.iv \in claimed
                        /\ task.iv \notin SentTo(RecordOf(task.iv))'
                        /\ task.iv[2] = attempts'[RecordOf(task.iv)] + 1
      BY DEF HeldRow
    <3>1. /\ task.iv \in Interventions /\ RecordOf(task.iv) \in Records
          /\ task.iv \in claimed /\ task.iv \notin SentTo(RecordOf(task.iv))
          /\ task.iv[2] = attempts[RecordOf(task.iv)] + 1
      BY TaskTypes DEF HeldRow, Interventions, RecordOf
    <3>2. RecordOf(task.iv) # RecordOf(i)
      <4> SUFFICES ASSUME RecordOf(task.iv) = RecordOf(i) PROVE FALSE
        OBVIOUS
      <4>1. task.iv[2] = i[2]
        BY <2>1, <3>1
      <4>2. task.iv = i
        BY <1>1, <3>1, <4>1, OneRung DEF OnLadder
      <4> QED
        BY <3>1, <4>2
    <3> QED
      BY <1>1, <1>4, <3>1, <3>2
  <2> QED
    BY <2>3, <2>4, <2>5
<1> QED
  BY <1>3, <1>4 DEF TypeInv, TypeOK, BooksTypeOK

\* The numbering survives every step of every actor.
LEMMA NumberStep ==
  ASSUME NumberInv, OneLadder, [Next]_vars
  PROVE  NumberInv'
<1> USE DEF NumberInv
<1>1. CountInv' /\ TodoBehind'
  BY CountInvStep, TodoStep
<1>2. ASSUME NEW r \in Records, Claims(r) PROVE NumberInv'
  BY <1>1, <1>2, ClaimNumber
<1>3. CASE ClaimsNothing
  <2>1. OnLadder' /\ claimed' = claimed
    BY <1>3 DEF ClaimsNothing, OnLadder, OnRung
  <2>2. ASSUME rows' = rows PROVE SentClaimed' /\ RowsClimb'
    BY <2>1, <2>2 DEF SentClaimed, RowsClimb, SentTo
  <2>3. ASSUME UNCHANGED <<rows, result, attempts>>
        PROVE  UnansweredIsLast' /\ NumberClaimed' /\ HeldRow'
    <3>1. rows' = rows /\ result' = result /\ attempts' = attempts
      BY <2>3
    <3>2. UnansweredIsLast' /\ NumberClaimed'
      BY <2>1, <3>1 DEF UnansweredIsLast, NumberClaimed, SentTo
    <3>3. HeldRow'
      BY <1>3, <2>1, <3>1 DEF HeldRow, ClaimsNothing, SentTo
    <3> QED
      BY <3>2, <3>3
  <2>4. CASE Still
    BY <1>1, <2>1, <2>2, <2>3, <2>4 DEF Still
  <2>5. CASE AddRow
    <3>1. SentClaimed' /\ UnansweredIsLast' /\ RowsClimb'
      BY <2>1, <2>5, RowNumber
    <3>2. NumberClaimed' /\ HeldRow'
      BY <2>1, <2>5 DEF AddRow, RecordRow, NumberClaimed, HeldRow, Nothing
    <3> QED
      BY <1>1, <2>1, <3>1, <3>2
  <2>6. CASE (\E h \in Hands : Answer(h)) \/ (\E i \in pending : Silence(i))
    <3>1. PICK i \in Interventions :
            \/ \E h \in Hands : i = hand[h].iv /\ Answer(h)
            \/ i \in pending /\ Silence(i)
      BY <2>6 DEF CountInv, Answer, HandsFresh, FreshRead, TypeInv, TypeOK,
         BatchTypeOK
    <3>2. rows' = rows /\ i \in SentTo(RecordOf(i)) /\ task' = task
      BY <3>1, Resolves DEF Answer, Silence
    <3>3. UnansweredIsLast' /\ NumberClaimed' /\ HeldRow'
      <4>1. CASE UNCHANGED <<result, attempts>>
        BY <2>3, <3>2, <4>1
      <4>2. CASE ~UNCHANGED <<result, attempts>>
        <5>1. PICK new \in Results \ {"none"} :
                /\ result[i] # "RECOVERED"
                /\ result' = [result EXCEPT ![i] = new]
                /\ attempts' = IF result[i] = "none" /\ new # "RECOVERED"
                               THEN [attempts EXCEPT ![RecordOf(i)] = @ + 1]
                               ELSE attempts
          BY <3>1, <4>2, Resolves
        <5> QED
          BY <2>1, <3>2, <5>1, ResolveNumber
      <4> QED
        BY <4>1, <4>2
    <3> QED
      BY <1>1, <2>1, <2>2, <3>2, <3>3
  <2> QED
    BY <2>4, <2>5, <2>6, BookMoves DEF CountInv
<1> QED
  BY <1>2, <1>3, ClaimMoves

\* Nothing is numbered at the start.
LEMMA InitNumber == Init => NumberInv
<1> SUFFICES ASSUME Init PROVE NumberInv
  OBVIOUS
<1>1. CountInv
  BY InitCount
<1>2. /\ \A r \in Records : rows[r] = <<>> /\ attempts[r] = 0
      /\ claimed = {} /\ DOMAIN todo = {} /\ task = Nothing
  BY DEF Init, BooksInit, NoRecordsRead
<1>3. Len(<<>>) = 0 /\ 1..0 = {}
  OBVIOUS
<1>4. \A r \in Records : SentTo(r) = {}
  BY <1>2, <1>3 DEF SentTo
<1>5. OnLadder /\ SentClaimed /\ UnansweredIsLast /\ TodoBehind /\ HeldRow
  BY <1>2, <1>4 DEF OnLadder, SentClaimed, UnansweredIsLast, TodoBehind, HeldRow,
     Nothing
<1>6. NumberClaimed /\ RowsClimb
  BY <1>2, <1>3 DEF NumberClaimed, RowsClimb
<1> QED
  BY <1>1, <1>5, <1>6 DEF NumberInv

\* The agent waits for an answer before it tries a record again: live, or in a dry
\* run whose ladders agree, over all ticks, crashes, failed calls and deliveries.
THEOREM OneIsUnanswered ==
  ASSUME OneLadder
  PROVE  Spec => []OneUnanswered
<1>1. NumberInv => OneUnanswered
  <2> SUFFICES ASSUME NumberInv, NEW r \in Records
               PROVE  Cardinality(SentWith(r, {"none"})) <= 1
    BY DEF OneUnanswered
  <2>1. \A i, j \in SentWith(r, {"none"}) : i = j
    <3> TAKE i, j \in SentWith(r, {"none"})
    <3>1. /\ i \in SentTo(r) /\ j \in SentTo(r)
          /\ i[2] = attempts[r] + 1 /\ j[2] = attempts[r] + 1
      BY DEF SentWith, NumberInv, UnansweredIsLast
    <3>2. /\ i \in Interventions /\ j \in Interventions
          /\ RecordOf(i) = r /\ RecordOf(j) = r /\ OnRung(i) /\ OnRung(j)
      BY <3>1 DEF NumberInv, CountInv, TypeInv, RowsOwn, SentClaimed, OnLadder
    <3> QED
      BY <3>1, <3>2, OneRung
  <2>2. CASE SentWith(r, {"none"}) = {}
    BY <2>2, FS_EmptySet
  <2>3. CASE SentWith(r, {"none"}) # {}
    <3>1. PICK i : i \in SentWith(r, {"none"})
      BY <2>3
    <3>2. SentWith(r, {"none"}) = {i}
      BY <2>1, <3>1
    <3>3. Cardinality({i}) = 1
      BY FS_Singleton
    <3> QED
      BY <3>2, <3>3
  <2> QED
    BY <2>2, <2>3
<1>2. OneLadder /\ NumberInv /\ [Next]_vars => NumberInv'
  BY NumberStep
<1> QED
  BY <1>1, <1>2, InitNumber, PTL DEF Spec

\* Rows numbered at least as high as their place are no more than the cap.
LEMMA ClimbCaps ==
  ASSUME TypeInv, RowsClimb
  PROVE  CapHolds
<1> SUFFICES ASSUME NEW r \in Records PROVE Len(rows[r]) <= HardCap
  BY DEF CapHolds
<1>1. rows[r] \in Seq(Interventions) /\ Len(rows[r]) \in Nat
  BY DEF TypeInv, TypeOK, BooksTypeOK
<1>2. CASE Len(rows[r]) = 0
  BY <1>2, BooksAssumption
<1>3. CASE Len(rows[r]) # 0
  <2>1. Len(rows[r]) \in 1..Len(rows[r])
    BY <1>1, <1>3
  <2>2. Len(rows[r]) <= rows[r][Len(rows[r])][2]
    BY <2>1 DEF RowsClimb
  <2>3. rows[r][Len(rows[r])] \in Interventions
    BY <1>1, <2>1
  <2>4. rows[r][Len(rows[r])][2] \in 1..HardCap
    BY <2>3 DEF Interventions
  <2> QED
    BY <1>1, <2>2, <2>4, BooksAssumption
<1> QED
  BY <1>2, <1>3

\* No record is tried more often than the hard cap: for any cap, over all ticks,
\* crashes, failed calls and deliveries, live or with ladders that agree.
THEOREM CapIsHeld ==
  ASSUME OneLadder
  PROVE  Spec => []CapHolds
<1>1. NumberInv => CapHolds
  BY ClimbCaps DEF NumberInv, CountInv
<1>2. OneLadder /\ NumberInv /\ [Next]_vars => NumberInv'
  BY NumberStep
<1> QED
  BY <1>1, <1>2, InitNumber, PTL DEF Spec

-----------------------------------------------------------------------------
\* A dry run: the batch alone writes the books, between one step and the next of
\* the same thread.
DryRun == ~Live /\ RealEvents = {}

\* So what a session has read still stands when it writes ...
TaskFresh(v) ==
  /\ v.do \in {"queue", "human"} =>
       /\ v.saw = state[v.rec] /\ v.saw \notin Terminal
       /\ v.open <=> queued[v.rec] > 0
  /\ v.do = "promise" => v.saw = state[v.rec]
  /\ v.do = "close" => state[v.rec] \in Owned
  /\ v.do = "due" => \A r \in DOMAIN v.saw : v.saw[r] = state[r]

\* ... and what a hand looked up is the link its event names.
HandKnows(v) ==
  v.at = "looked" => v.state = state[RecordOf(v.iv)] /\ v.iv = v.ev.link

EventsKnown ==
  \A e \in emitted :
    \/ e.by = "ref" /\ e.link \in SentTo(e.rec)
    \/ e.by = "source" /\ e.link = NoLink

Credited ==
  \A i \in Interventions : result[i] = "RECOVERED" =>
    /\ state[RecordOf(i)] = "RECOVERED"
    /\ \E e \in emitted : e.ok /\ e.rec = RecordOf(i) /\ e.link = i

\* A record is on one desk at most; settled on none, escalated on one.
Desk ==
  \A r \in Records :
    /\ queued[r] \in {0, 1}
    /\ state[r] \in Terminal => queued[r] = 0
    /\ state[r] = "ESCALATED" => queued[r] = 1

DeskInv ==
  /\ ~Free("batch") => task = Nothing
  /\ HandKnows(hand["batch"])
  /\ TaskFresh(task)
  /\ EventsKnown
  /\ Credited
  /\ Desk

\* Steps that leave the books and the events alone.
LEMMA CalmDesk ==
  ASSUME DeskInv, UNCHANGED <<books, emitted>>, TaskFresh(task'),
         \/ hand' = hand /\ (Free("batch") \/ task' = Nothing)
         \/ hand' = [h \in Hands |-> Idle]
  PROVE  DeskInv'
<1>1. /\ state' = state /\ queued' = queued /\ rows' = rows
      /\ result' = result /\ emitted' = emitted
  BY DEF books
<1>2. TaskFresh(task)'
  BY <1>1 DEF TaskFresh
<1>3. EventsKnown' /\ Credited' /\ Desk'
  BY <1>1 DEF DeskInv, EventsKnown, Credited, Desk, SentTo
<1>4. (~Free("batch") => task = Nothing)' /\ HandKnows(hand["batch"])'
  BY <1>1 DEF DeskInv, HandKnows, Free, Hands, Idle
<1> QED
  BY <1>2, <1>3, <1>4 DEF DeskInv

\* The simulator's events name a link of their record, or none.
LEMMA EventDesk ==
  ASSUME TypeInv, DeskInv, task = Nothing, task' = task,
         NEW e, Receive("batch", e),
         \/ e.by = "ref" /\ e.link \in SentTo(e.rec)
         \/ e.by = "source" /\ e.link = NoLink
  PROVE  DeskInv'
<1>1. /\ state' = state /\ queued' = queued /\ rows' = rows /\ result' = result
      /\ emitted' = emitted \union {e}
  BY DEF Receive, books
<1>2. EventsKnown' /\ Credited' /\ Desk'
  BY <1>1 DEF DeskInv, EventsKnown, Credited, Desk, SentTo
<1>3. TaskFresh(task)' /\ HandKnows(hand["batch"])'
  BY <1>1 DEF TaskFresh, Nothing, HandKnows, DeskInv, Receive, Hands, TypeInv, HandsOwn
<1> QED
  BY <1>2, <1>3 DEF DeskInv

\* What the statements of handle() do to the desks.
LEMMA HandleDesk ==
  ASSUME CountInv, DeskInv, HandleStep("batch"), UNCHANGED batch
  PROVE  /\ DeskInv'
         /\ \A r \in Records : state[r] = "RECOVERED" => state'[r] = "RECOVERED"
<1> DEFINE b == hand["batch"]
<1> USE DEF CountInv
<1>0. /\ ~Free("batch") /\ task = Nothing /\ task' = Nothing
      /\ "batch" \in Hands
  BY DEF DeskInv, HandleStep, Look, Apply, SettleEventRow, Free, Idle, batch, Hands
<1>1. /\ b.ev \in emitted /\ b.ev.rec \in Records
      /\ \A x : hand' = [hand EXCEPT !["batch"] = x] => hand'["batch"] = x
  BY <1>0 DEF TypeInv, HandsOwn, HandOK, Free, TypeOK, HooksTypeOK, EventsOwn
<1>2. TaskFresh(task)'
  BY <1>0 DEF TaskFresh, Nothing
<1>3. CASE Look("batch")
  <2>1. /\ state' = state /\ queued' = queued /\ rows' = rows /\ result' = result
        /\ emitted' = emitted
    BY <1>3 DEF Look, books
  <2>2. EventsKnown' /\ Credited' /\ Desk'
    BY <2>1 DEF DeskInv, EventsKnown, Credited, Desk, SentTo
  <2>3. Found(b.ev) \subseteq {b.ev.link}
    <3>1. CASE b.ev.by = "ref" /\ b.ev.link \in SentTo(b.ev.rec)
      BY <3>1 DEF Found
    <3>2. CASE b.ev.by = "source"
      BY <3>2 DEF Found
    <3> QED
      BY <1>1, <3>1, <3>2 DEF DeskInv, EventsKnown
  <2>4. \/ hand'["batch"].at # "looked"
        \/ \E i \in Found(b.ev) : hand'["batch"] =
              [at |-> "looked", ev |-> b.ev, iv |-> i, result |-> result[i],
               state |-> state[RecordOf(i)], attempts |-> attempts[RecordOf(i)]]
    <3>1. CASE \E i \in Found(b.ev) : hand' = [hand EXCEPT !["batch"] =
              [at |-> "looked", ev |-> b.ev, iv |-> i, result |-> result[i],
               state |-> state[RecordOf(i)], attempts |-> attempts[RecordOf(i)]]]
      BY <1>1, <3>1
    <3>2. CASE \/ hand' = [hand EXCEPT !["batch"] = [at |-> "unprompted", ev |-> b.ev]]
               \/ hand' = [hand EXCEPT !["batch"] =
                            [at |-> "decided", ev |-> b.ev,
                             outcome |-> "UNATTRIBUTED"]]
      <4>1. hand'["batch"].at \in {"unprompted", "decided"}
        BY <1>1, <3>2
      <4> QED
        BY <4>1
    <3> QED
      BY <1>3, <3>1, <3>2 DEF Look
  <2>5. HandKnows(hand["batch"])'
    <3>1. CASE hand'["batch"].at # "looked"
      BY <3>1 DEF HandKnows
    <3>2. ASSUME NEW i \in Found(b.ev), hand'["batch"] =
              [at |-> "looked", ev |-> b.ev, iv |-> i, result |-> result[i],
               state |-> state[RecordOf(i)], attempts |-> attempts[RecordOf(i)]]
          PROVE  HandKnows(hand["batch"])'
      <4>1. /\ hand'["batch"].iv = i /\ hand'["batch"].ev = b.ev
            /\ hand'["batch"].state = state[RecordOf(i)]
        BY <3>2
      <4>2. i = b.ev.link
        BY <2>3
      <4> QED
        BY <2>1, <4>1, <4>2 DEF HandKnows
    <3> QED
      BY <2>4, <3>1, <3>2
  <2> QED
    BY <1>0, <1>2, <2>1, <2>2, <2>5 DEF DeskInv
<1>4. CASE SettleEventRow("batch")
  <2>1. /\ state' = state /\ queued' = queued /\ rows' = rows /\ result' = result
        /\ emitted' = emitted
    BY <1>4 DEF SettleEventRow, books
  <2>2. EventsKnown' /\ Credited' /\ Desk'
    BY <2>1 DEF DeskInv, EventsKnown, Credited, Desk, SentTo
  <2>3. HandKnows(hand["batch"])'
    BY <1>1, <1>4 DEF HandKnows, SettleEventRow, Idle
  <2> QED
    BY <1>0, <1>2, <2>1, <2>2, <2>3 DEF DeskInv
<1>5. CASE Apply("batch")
  <2>1. rows' = rows /\ emitted' = emitted
    BY <1>5 DEF Apply, Credit, FailAgain, Unprompted, books
  <2>2. EventsKnown'
    BY <2>1 DEF DeskInv, EventsKnown, SentTo
  <2>3. HandKnows(hand["batch"])'
    <3>1. hand'["batch"].at = "decided"
      BY <1>1, <1>5 DEF Apply, Decided
    <3> QED
      BY <3>1 DEF HandKnows
  <2>4. CASE UNCHANGED books \/ FailAgain(b.iv, b.result, b.attempts)
    <3>1. /\ state' = state /\ queued' = queued
          /\ result' = result \/ result' = [result EXCEPT ![b.iv] = "FAILED_AGAIN"]
      BY <2>4 DEF books, FailAgain
    <3>2. \A i \in Interventions : result'[i] = "RECOVERED" => result[i] = "RECOVERED"
      BY <3>1 DEF TypeInv, TypeOK, BooksTypeOK
    <3>3. Credited'
      BY <2>1, <3>1, <3>2 DEF DeskInv, Credited
    <3>4. Desk'
      BY <3>1 DEF DeskInv, Desk
    <3> QED
      BY <1>0, <1>2, <2>2, <2>3, <3>1, <3>3, <3>4 DEF DeskInv
  <2>5. CASE b.at = "looked" /\ b.ev.ok /\ Credit(b.iv, b.state)
    <3>1. /\ b.iv \in Interventions /\ RecordOf(b.iv) \in Records
          /\ b.state = state[RecordOf(b.iv)] /\ b.iv = b.ev.link
      BY <1>0, <2>5 DEF HandsFresh, FreshRead, DeskInv, HandKnows, Interventions, RecordOf
    <3>2. RecordOf(b.iv) = b.ev.rec
      <4>1. b.ev.link \in SentTo(b.ev.rec)
        <5>1. b.iv \in SentTo(RecordOf(b.iv)) /\ b.iv # NoLink
          <6>1. b.iv \in SentTo(RecordOf(b.iv))
            BY <1>0, <2>5 DEF HandsFresh, FreshRead
          <6>2. Len(b.iv) = 3 /\ Len(<<>>) = 0
            BY <3>1 DEF Interventions
          <6> QED
            BY <6>1, <6>2 DEF NoLink
        <5> QED
          BY <1>1, <3>1, <5>1 DEF DeskInv, EventsKnown
      <4> QED
        BY <1>1, <3>1, <4>1 DEF TypeInv, RowsOwn
    <3>3. /\ result' = [result EXCEPT ![b.iv] = "RECOVERED"]
          /\ \A r \in Records : state'[r] = IF r = RecordOf(b.iv) THEN "RECOVERED"
                                            ELSE state[r]
          /\ \A r \in Records : queued'[r] = IF r = RecordOf(b.iv) THEN 0
                                             ELSE queued[r]
      BY <2>5, <3>1 DEF Credit, SetState, Resolve, TypeInv, TypeOK, BooksTypeOK
    <3>4. Credited'
      <4>1. \A i \in Interventions : RecordOf(i) \in Records
        BY DEF Interventions, RecordOf
      <4>2. \A i \in Interventions : result'[i] = IF i = b.iv THEN "RECOVERED"
                                                  ELSE result[i]
        BY <3>1, <3>3 DEF TypeInv, TypeOK, BooksTypeOK
      <4> QED
        BY <1>1, <2>1, <2>5, <3>1, <3>2, <3>3, <4>1, <4>2 DEF DeskInv, Credited
    <3>5. Desk'
      BY <3>3 DEF DeskInv, Desk, Terminal
    <3> QED
      BY <1>0, <1>2, <2>2, <2>3, <3>3, <3>4, <3>5 DEF DeskInv
  <2>6. CASE Unprompted(b.ev.rec)
    <3>1. /\ result' = result
          /\ \A r \in Records : state'[r] = IF r = b.ev.rec THEN "RECOVERED"
                                            ELSE state[r]
          /\ \A r \in Records : queued'[r] = IF r = b.ev.rec THEN 0 ELSE queued[r]
      BY <1>1, <2>6 DEF Unprompted, Resolve, TypeInv, TypeOK, BooksTypeOK
    <3>2. Credited'
      <4>1. \A i \in Interventions : RecordOf(i) \in Records
        BY DEF Interventions, RecordOf
      <4> QED
        BY <2>1, <3>1, <4>1 DEF DeskInv, Credited
    <3>3. Desk'
      BY <3>1 DEF DeskInv, Desk, Terminal
    <3> QED
      BY <1>0, <1>2, <2>2, <2>3, <3>1, <3>2, <3>3 DEF DeskInv
  <2> QED
    BY <1>5, <2>4, <2>5, <2>6 DEF Apply
<1> QED
  BY <1>3, <1>4, <1>5 DEF HandleStep

\* What a session read is still true when it commits.
LEMMA CommitDesk ==
  ASSUME CountInv, DeskInv, Commit
  PROVE  /\ DeskInv'
         /\ \A r \in Records : state[r] = "RECOVERED" => state'[r] = "RECOVERED"
<1> USE DEF CountInv
<1>1. /\ task' = Nothing /\ hand' = hand /\ emitted' = emitted
      /\ task # Nothing
      /\ TaskFresh(task)
  BY DEF Commit, PutInQueue, Close, RecordRow, ReplyToHuman, RecordPromise, hooks,
     Nothing, DeskInv
<1>2. Free("batch") /\ TaskFresh(task)' /\ HandKnows(hand["batch"])'
  BY <1>1 DEF DeskInv, TaskFresh, Nothing, HandKnows, Free, Idle
<1>3. /\ \A r \in Records : /\ state[r] \in States /\ queued[r] \in {0, 1}
                            /\ state[r] \in Terminal => queued[r] = 0
                            /\ state[r] = "ESCALATED" => queued[r] = 1
      /\ \A i \in Interventions : RecordOf(i) \in Records
  BY DEF DeskInv, Desk, TypeInv, TypeOK, BooksTypeOK, Interventions, RecordOf
<1>a. ASSUME result' = result, rows' = rows, Desk',
             \A r \in Records : state[r] = "RECOVERED" => state'[r] = "RECOVERED"
      PROVE  DeskInv'
  <2>1. EventsKnown'
    BY <1>a, <1>1 DEF DeskInv, EventsKnown, SentTo
  <2>2. Credited'
    BY <1>a, <1>1, <1>3 DEF DeskInv, Credited
  <2> QED
    BY <1>a, <1>1, <1>2, <2>1, <2>2 DEF DeskInv, Free
<1>4. ASSUME task.do \in {"queue", "human"}, QueueRow(task.rec, task.open),
             UNCHANGED <<rows, result>>,
             \A r \in Records : state'[r] =
               IF r = task.rec THEN "ESCALATED" ELSE state[r]
      PROVE  /\ DeskInv'
             /\ \A r \in Records : state[r] = "RECOVERED" => state'[r] = "RECOVERED"
  <2>1. /\ task.rec \in Records /\ task.open \in BOOLEAN
        /\ task.saw = state[task.rec] /\ task.saw \notin Terminal
        /\ task.open <=> queued[task.rec] > 0
    BY <1>1, <1>4, TaskTypes DEF TaskFresh
  <2>2. \A r \in Records : queued'[r] = IF r = task.rec THEN 1 ELSE queued[r]
    <3>1. CASE task.open
      <4>1. queued' = queued
        BY <1>4, <3>1 DEF QueueRow
      <4>2. queued[task.rec] = 1
        BY <1>3, <2>1, <3>1
      <4> QED
        BY <4>1, <4>2
    <3>2. CASE ~task.open
      <4>1. queued' = [queued EXCEPT ![task.rec] = @ + 1]
        BY <1>4, <3>2 DEF QueueRow
      <4>2. queued[task.rec] = 0
        BY <1>3, <2>1, <3>2
      <4> QED
        BY <2>1, <4>1, <4>2 DEF TypeInv, TypeOK, BooksTypeOK
    <3> QED
      BY <3>1, <3>2
  <2>3. Desk'
    BY <1>3, <1>4, <2>2 DEF Desk, Terminal
  <2>4. \A r \in Records : state[r] = "RECOVERED" => state'[r] = "RECOVERED"
    BY <1>4, <2>1 DEF Terminal
  <2> QED
    BY <1>a, <1>4, <2>3, <2>4
<1>5. CASE PutInQueue
  <2>1. /\ task.do = "queue" /\ QueueRow(task.rec, task.open)
        /\ UNCHANGED <<rows, result>>
        /\ task.rec \in Records
        /\ task.saw = state[task.rec] /\ task.saw \notin Terminal
    BY <1>1, <1>5, TaskTypes DEF PutInQueue, TaskFresh
  <2>2. task.saw \in Owned \/ task.saw = "ESCALATED"
    BY <1>3, <2>1 DEF States
  <2>3. \A r \in Records : state'[r] = IF r = task.rec THEN "ESCALATED" ELSE state[r]
    BY <1>5, <2>1, <2>2 DEF PutInQueue, Owned, TypeInv, TypeOK, BooksTypeOK
  <2> QED
    BY <1>4, <2>1, <2>3
<1>6. CASE ReplyToHuman
  <2>1. /\ task.do = "human" /\ QueueRow(task.rec, task.open)
        /\ UNCHANGED <<rows, result>>
        /\ task.rec \in Records /\ task.saw = state[task.rec]
    BY <1>1, <1>6, TaskTypes DEF ReplyToHuman, TaskFresh
  <2>2. \A r \in Records : state'[r] = IF r = task.rec THEN "ESCALATED" ELSE state[r]
    BY <1>6, <2>1 DEF ReplyToHuman, SetState, TypeInv, TypeOK, BooksTypeOK
  <2> QED
    BY <1>4, <2>1, <2>2
<1>7. CASE Close
  <2>1. /\ task.rec \in Records /\ state[task.rec] \in Owned
        /\ rows' = rows /\ result' = result
    BY <1>1, <1>7, TaskTypes DEF Close, TaskFresh
  <2>2. /\ \A r \in Records : state'[r] = IF r = task.rec THEN "CLOSED" ELSE state[r]
        /\ \A r \in Records : queued'[r] = IF r = task.rec THEN 0 ELSE queued[r]
    BY <1>7, <2>1 DEF Close, Resolve, TypeInv, TypeOK, BooksTypeOK
  <2>3. Desk'
    BY <1>3, <2>2 DEF Desk
  <2>4. \A r \in Records : state[r] = "RECOVERED" => state'[r] = "RECOVERED"
    BY <2>1, <2>2 DEF Owned
  <2> QED
    BY <1>a, <2>1, <2>3, <2>4
<1>8. CASE RecordRow
  <2>1. /\ state' = state /\ queued' = queued /\ result' = result
        /\ \A x \in Records : SentTo(x) \subseteq SentTo(x)'
    BY <1>8, RecordRowSent DEF RecordRow
  <2>2. EventsKnown'
    <3>1. \A e \in emitted : e.rec \in Records
      BY DEF TypeInv, EventsOwn
    <3> QED
      BY <1>1, <2>1, <3>1 DEF DeskInv, EventsKnown
  <2>3. Credited' /\ Desk'
    BY <1>1, <2>1 DEF DeskInv, Credited, Desk
  <2> QED
    BY <1>1, <1>2, <2>1, <2>2, <2>3 DEF DeskInv, Free
<1>9. CASE RecordPromise
  <2>1. /\ task.rec \in Records /\ task.saw = state[task.rec]
        /\ rows' = rows /\ result' = result /\ queued' = queued
    BY <1>1, <1>9, TaskTypes DEF RecordPromise, TaskFresh
  <2>2. \A r \in Records :
          state'[r] = state[r] \/ (state'[r] = "PROMISED" /\ state[r] \notin Terminal)
    BY <1>9, <2>1 DEF RecordPromise, SetState, TypeInv, TypeOK, BooksTypeOK
  <2>3. Desk'
    BY <1>3, <2>1, <2>2 DEF Desk, Terminal
  <2>4. \A r \in Records : state[r] = "RECOVERED" => state'[r] = "RECOVERED"
    BY <2>2 DEF Terminal
  <2> QED
    BY <1>a, <2>1, <2>3, <2>4
<1> QED
  BY <1>5, <1>6, <1>7, <1>8, <1>9 DEF Commit

\* A broken promise wakes up only a record that is still waiting on it.
LEMMA ResolveDueDesk ==
  ASSUME CountInv, DeskInv, ResolveDue
  PROVE  /\ DeskInv'
         /\ \A r \in Records : state[r] = "RECOVERED" => state'[r] = "RECOVERED"
<1> USE DEF CountInv
<1>1. /\ task.do = "due" /\ task' = Nothing /\ hand' = hand /\ emitted' = emitted
      /\ rows' = rows /\ result' = result /\ queued' = queued
      /\ Free("batch")
  BY DEF ResolveDue, hooks, DeskInv, Nothing
<1>2. \A r \in DOMAIN task.saw : r \in Records /\ task.saw[r] = state[r]
  BY <1>1, TaskTypes DEF DeskInv, TaskFresh
<1>3. \A r \in Records :
        state'[r] = state[r] \/ (state'[r] = "AT_RISK" /\ state[r] = "PROMISED")
  BY <1>2 DEF ResolveDue
<1>4. \A r \in Records : state[r] = "RECOVERED" => state'[r] = "RECOVERED"
  BY <1>3
<1>5. Desk'
  BY <1>1, <1>3 DEF DeskInv, Desk, Terminal
<1>6. EventsKnown' /\ Credited'
  <2>1. \A i \in Interventions : RecordOf(i) \in Records
    BY DEF Interventions, RecordOf
  <2> QED
    BY <1>1, <1>4, <2>1 DEF DeskInv, EventsKnown, Credited, SentTo
<1>7. TaskFresh(task)' /\ HandKnows(hand["batch"])' /\ Free("batch")'
  BY <1>1 DEF TaskFresh, HandKnows, Nothing, Free, Idle
<1> QED
  BY <1>4, <1>5, <1>6, <1>7 DEF DeskInv

\* Silence is no credit and moves no record.
LEMMA SilenceDesk ==
  ASSUME CountInv, DeskInv, NEW i \in pending, Silence(i), emitted' = emitted
  PROVE  DeskInv' /\ state' = state
<1> USE DEF CountInv
<1>1. /\ state' = state /\ queued' = queued /\ rows' = rows /\ hand' = hand
      /\ task' = task /\ Free("batch") /\ task = Nothing
      /\ result' = result \/ result' = [result EXCEPT ![i] = "NO_RESPONSE"]
  BY DEF Silence, MarkNoResponse, At
<1>2. \A j \in Interventions : result'[j] = "RECOVERED" => result[j] = "RECOVERED"
  BY <1>1 DEF TypeInv, TypeOK, BooksTypeOK
<1>3. EventsKnown' /\ Desk'
  BY <1>1 DEF DeskInv, EventsKnown, Desk, SentTo
<1>4. Credited'
  BY <1>1, <1>2 DEF DeskInv, Credited
<1>5. TaskFresh(task)' /\ HandKnows(hand["batch"])' /\ Free("batch")'
  BY <1>1 DEF TaskFresh, HandKnows, Nothing, Free, Idle
<1> QED
  BY <1>1, <1>3, <1>4, <1>5 DEF DeskInv

\* Every step of a dry run keeps the desks, and no step takes money back.
LEMMA DeskStep ==
  ASSUME DryRun, CountInv, DeskInv, [Next]_vars
  PROVE  /\ DeskInv'
         /\ \A r \in Records : state[r] = "RECOVERED" => state'[r] = "RECOVERED"
<1> DEFINE Kept == /\ DeskInv'
                   /\ \A r \in Records :
                        state[r] = "RECOVERED" => state'[r] = "RECOVERED"
<1>a. ASSUME UNCHANGED <<books, emitted>>, TaskFresh(task'),
             \/ hand' = hand /\ (Free("batch") \/ task' = Nothing)
             \/ hand' = [h \in Hands |-> Idle]
      PROVE  Kept
  BY <1>a, CalmDesk DEF books
<1>b. ASSUME NEW e, Receive("batch", e), UNCHANGED task, task = Nothing,
             \/ e.by = "ref" /\ e.link \in SentTo(e.rec)
             \/ e.by = "source" /\ e.link = NoLink
      PROVE  Kept
  <2>1. state' = state
    BY <1>b DEF Receive, books
  <2> QED
    BY <1>b, <2>1, EventDesk DEF CountInv
<1>c. TaskFresh(task) /\ TaskFresh(Nothing) /\ (Free("batch") \/ task = Nothing)
  BY DEF DeskInv, TaskFresh, Nothing
<1>d. Free("server")
  BY DEF DryRun, CountInv, Quiet
<1>1. CASE Begin \/ Refresh \/ BeginSettle \/ EndSettle \/ EndTick
           \/ \E r \in Records : AdvanceClock(r)
  BY <1>1, <1>a, <1>c DEF Begin, BeginTick, BeginOnly, Refresh, BeginSettle, EndSettle,
     EndTick, AdvanceClock, hooks
<1>2. CASE Crash
  BY <1>2, <1>a, <1>c DEF Crash
<1>3. CASE ReadDue
  <2>1. TaskFresh(task')
    <3>1. TaskFresh([do |-> "due", saw |-> [r \in Due |-> state[r]]])
      BY DEF TaskFresh
    <3> QED
      BY <1>3, <1>c, <3>1 DEF ReadDue
  <2> QED
    BY <1>3, <1>a, <2>1 DEF ReadDue, At, hooks
<1>4. CASE ResolveDue
  BY <1>4, ResolveDueDesk
<1>5. ASSUME NEW r \in Records, Work(r) PROVE Kept
  <2>1. TaskFresh(task')
    <3>1. CASE Leave(r) \/ Execute(r)
      <4>1. task' = task \/ task' = [do |-> "record", iv |-> Proposal(r)]
        BY <3>1 DEF Leave, Execute
      <4>2. TaskFresh([do |-> "record", iv |-> Proposal(r)])
        BY DEF TaskFresh
      <4> QED
        BY <1>c, <4>1, <4>2
    <3>2. CASE HandOver(r)
      <4>1. CASE state[r] \in Terminal
        BY <1>c, <3>2, <4>1 DEF HandOver
      <4>2. CASE state[r] \notin Terminal
        <5>1. TaskFresh([do |-> "queue", rec |-> r, saw |-> state[r],
                         open |-> queued[r] > 0])
          BY <4>2 DEF TaskFresh
        <5> QED
          BY <3>2, <4>2, <5>1 DEF HandOver
      <4> QED
        BY <4>1, <4>2
    <3>3. CASE Stop(r)
      <4>1. state[r] \in Owned => TaskFresh([do |-> "close", rec |-> r])
        BY DEF TaskFresh
      <4> QED
        BY <1>c, <3>3, <4>1 DEF Stop
    <3> QED
      BY <1>5, <3>1, <3>2, <3>3 DEF Work
  <2>2. UNCHANGED <<books, emitted, hand>> /\ Free("batch")
    BY <1>5 DEF Work, Leave, HandOver, Stop, Execute, At
  <2> QED
    BY <1>a, <2>1, <2>2
<1>6. ASSUME NEW r \in Records, ReadReply(r) PROVE Kept
  <2>1. TaskFresh(task')
    <3>1. TaskFresh([do |-> "promise", rec |-> r, saw |-> state[r]])
      BY DEF TaskFresh
    <3>2. state[r] \notin Terminal =>
            TaskFresh([do |-> "human", rec |-> r, saw |-> state[r],
                       open |-> queued[r] > 0])
      BY DEF TaskFresh
    <3> QED
      BY <1>6, <1>c, <3>1, <3>2 DEF ReadReply
  <2>2. UNCHANGED <<books, emitted, hand>> /\ Free("batch")
    BY <1>6 DEF ReadReply, At, hooks
  <2> QED
    BY <1>a, <2>1, <2>2
<1>7. CASE Commit
  BY <1>7, CommitDesk
<1>8. ASSUME NEW r \in Records, SettlePromise(r) PROVE Kept
  <2>1. LastSent(r) \in SentTo(r) /\ RecordOf(LastSent(r)) = r
    BY <1>8, LastIsSent DEF SettlePromise, CountInv, TypeInv, TypeOK, RowsOwn
  <2> DEFINE e == LinkPaid(LastSent(r), <<"promise", promise[r].no>>)
  <2>2. e.by = "ref" /\ e.link \in SentTo(e.rec)
    BY <2>1 DEF LinkPaid, Event
  <2>3. Receive("batch", e) /\ task = Nothing /\ UNCHANGED task
    BY <1>8 DEF SettlePromise, At, batch
  <2> QED
    BY <1>b, <2>2, <2>3
<1>9. ASSUME NEW r \in Records, SelfCure(r) PROVE Kept
  <2> DEFINE e == PaidUnprompted(r, <<"cure", 0>>)
  <2>1. e.by = "source" /\ e.link = NoLink
    BY DEF PaidUnprompted, Event
  <2>2. Receive("batch", e) /\ task = Nothing /\ UNCHANGED task
    BY <1>9 DEF SelfCure, At, batch
  <2> QED
    BY <1>b, <2>1, <2>2
<1>10. ASSUME NEW i \in pending, Settle(i) PROVE Kept
  <2>1. i \in SentTo(RecordOf(i)) /\ task = Nothing /\ UNCHANGED task
    BY <1>10 DEF CountInv, PendingSent, Settle, At
  <2>2. CASE SettlePaid(i)
    <3> DEFINE e == LinkPaid(i, <<"settle", 0>>)
    <3>1. e.by = "ref" /\ e.link \in SentTo(e.rec)
      BY <2>1 DEF LinkPaid, Event
    <3> QED
      BY <1>b, <2>1, <2>2, <3>1 DEF SettlePaid
  <2>3. CASE SettleFailed(i)
    <3> DEFINE e == Failed(i, "ref", <<"settle", 0>>)
    <3>1. e.by = "ref" /\ e.link \in SentTo(e.rec)
      BY <2>1 DEF Failed, Event
    <3> QED
      BY <1>b, <2>1, <2>3, <3>1 DEF SettleFailed
  <2>4. CASE SettleSilence(i)
    <3>1. Silence(i) /\ emitted' = emitted
      BY <1>10, <2>4 DEF Settle, SettleSilence, Silence, hooks
    <3> QED
      BY <3>1, SilenceDesk
  <2> QED
    BY <1>10, <2>2, <2>3, <2>4 DEF Settle
<1>11. CASE HandleStep("batch") /\ UNCHANGED batch
  BY <1>11, HandleDesk
<1>12. CASE ServerStep
  BY <1>12, <1>d DEF ServerStep, HandleStep, Look, Apply, SettleEventRow, Free, Idle
<1>13. CASE Customer
  <2>1. UNCHANGED <<books, emitted, hand, task>>
    BY <1>13 DEF DryRun, Customer, CustomerPays, CustomerFails,
       CustomerPaysUnprompted, batch
  <2> QED
    BY <1>a, <1>c, <2>1
<1>14. CASE UNCHANGED vars
  BY <1>14, <1>a, <1>c DEF vars, hooks, batch
<1> QED
  BY <1>1, <1>2, <1>3, <1>4, <1>5, <1>6, <1>7, <1>8, <1>9, <1>10, <1>11, <1>12,
     <1>13, <1>14 DEF Next, TickStep, DryRun

\* Both invariants together are inductive in a dry run.
LEMMA DryStep ==
  ASSUME DryRun, CountInv /\ DeskInv, [Next]_vars
  PROVE  (CountInv /\ DeskInv)'
BY DeskStep, CountInvStep

\* They hold at the start.
LEMMA InitDry == Init => CountInv /\ DeskInv
<1> SUFFICES ASSUME Init PROVE DeskInv
  BY InitCount
<1>1. Free("batch") /\ HandKnows(hand["batch"])
  BY DEF Init, HooksInit, Free, Hands, HandKnows, Idle
<1>2. TaskFresh(task) /\ EventsKnown /\ Credited
  BY DEF Init, HooksInit, BooksInit, TaskFresh, Nothing, EventsKnown, Credited
<1>3. Desk
  BY DEF Init, BooksInit, Desk, Terminal
<1> QED
  BY <1>1, <1>2, <1>3 DEF DeskInv

\* A record whose money arrived stays recovered, for any ladders, verdicts,
\* replies, failed calls and crashes of a dry run.
THEOREM RecoveredStays ==
  ASSUME DryRun
  PROVE  Spec => RecoveredIsFinal
<1>1. DryRun /\ CountInv /\ DeskInv /\ [Next]_vars =>
        [\A r \in Records : state[r] = "RECOVERED" => state'[r] = "RECOVERED"]_vars
  BY DeskStep
<1>2. DryRun /\ (CountInv /\ DeskInv) /\ [Next]_vars => (CountInv /\ DeskInv)'
  BY DryStep
<1> QED
  BY <1>1, <1>2, InitDry, PTL DEF Spec, RecoveredIsFinal

\* A record that is settled, or credited, is on nobody's desk.
THEOREM SettledLeavesTheDesk ==
  ASSUME DryRun
  PROVE  Spec => []SettledIsNobodysWork
<1>1. CountInv /\ DeskInv => SettledIsNobodysWork
  <2> SUFFICES ASSUME CountInv, DeskInv, NEW r \in Records,
                      state[r] \in Terminal \/ SentWith(r, {"RECOVERED"}) # {}
               PROVE  queued[r] = 0
    BY DEF SettledIsNobodysWork
  <2>1. state[r] \in Terminal
    <3>1. ASSUME NEW i \in SentWith(r, {"RECOVERED"}) PROVE state[r] = "RECOVERED"
      <4>1. i \in Interventions /\ RecordOf(i) = r /\ result[i] = "RECOVERED"
        BY <3>1 DEF SentWith, CountInv, TypeInv, RowsOwn
      <4> QED
        BY <4>1 DEF DeskInv, Credited
    <3> QED
      BY <3>1 DEF Terminal
  <2> QED
    BY <2>1 DEF DeskInv, Desk
<1>2. DryRun /\ (CountInv /\ DeskInv) /\ [Next]_vars => (CountInv /\ DeskInv)'
  BY DryStep
<1> QED
  BY <1>1, <1>2, InitDry, PTL DEF Spec

\* A record that is escalated is on exactly one desk.
THEOREM EscalatedIsOnOneDesk ==
  ASSUME DryRun
  PROVE  Spec => []EscalatedIsSomebodysWork
<1>1. CountInv /\ DeskInv => EscalatedIsSomebodysWork
  BY DEF DeskInv, Desk, EscalatedIsSomebodysWork
<1>2. DryRun /\ (CountInv /\ DeskInv) /\ [Next]_vars => (CountInv /\ DeskInv)'
  BY DryStep
<1> QED
  BY <1>1, <1>2, InitDry, PTL DEF Spec

\* The agent is credited with no more recoveries than there were payments on
\* its links.
THEOREM CreditsArePaid ==
  ASSUME DryRun
  PROVE  Spec => []OneCreditPerPayment
<1>1. CountInv /\ DeskInv => OneCreditPerPayment
  <2> SUFFICES ASSUME CountInv, DeskInv, NEW r \in Records
               PROVE  Cardinality(SentWith(r, {"RECOVERED"})) <= Cardinality(PaidLinks(r))
    BY DEF OneCreditPerPayment
  <2>1. \A i \in SentWith(r, {"RECOVERED"}) :
          /\ i \in Interventions
          /\ \E e \in emitted : e.ok /\ e.rec = r /\ e.link = i
    BY DEF SentWith, CountInv, TypeInv, RowsOwn, DeskInv, Credited
  <2>2. \A i \in Interventions : i # NoLink
    <3>1. ASSUME NEW i \in Interventions PROVE Len(i) = 3 /\ Len(<<>>) = 0
      BY DEF Interventions
    <3> QED
      BY <3>1 DEF NoLink
  <2>3. SentWith(r, {"RECOVERED"}) \subseteq PaidLinks(r)
    BY <2>1, <2>2 DEF PaidLinks
  <2>4. PaidLinks(r) \subseteq SentTo(r)
    BY DEF PaidLinks, DeskInv, EventsKnown
  <2>5. IsFiniteSet(PaidLinks(r))
    BY <2>4, FS_Subset DEF CountInv, SentFinite
  <2> QED
    BY <2>3, <2>5, FS_Subset
<1>2. DryRun /\ (CountInv /\ DeskInv) /\ [Next]_vars => (CountInv /\ DeskInv)'
  BY DryStep
<1> QED
  BY <1>1, <1>2, InitDry, PTL DEF Spec
=============================================================================
