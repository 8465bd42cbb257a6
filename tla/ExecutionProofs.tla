--------------------------- MODULE ExecutionProofs ---------------------------
(***************************************************************************)
(* Proofs about Execution, for every set of workers and keys.              *)
(*                                                                         *)
(* IInv needs no assumption: it speaks of the keys for which no request    *)
(* that was given up on can still charge.  NoDoubleCharge speaks of all    *)
(* keys, and needs that these are all: an assumption about Razorpay that   *)
(* the code cannot discharge for an order, whose receipt is not unique.    *)
(* Payment links do not need it, as Razorpay refuses a second one with the *)
(* same reference_id.                                                      *)
(***************************************************************************)
EXTENDS Execution, TLAPS

OrdersLandInTime == LateKeys \subseteq LinkKeys

-----------------------------------------------------------------------------
\* Every variable keeps its type: pc moves between the named places, counters
\* stay naturals and the retry counter stays within _MAX_ATTEMPTS.
LEMMA TypeStep == TypeOK /\ [Next]_vars => TypeOK'
<1> USE ClientAssumption, ExecutionAssumption
        DEF TypeOK, Workers, Places
<1> SUFFICES ASSUME TypeOK, [Next]_vars PROVE TypeOK'
  OBVIOUS
<1>1. ASSUME NEW w \in Workers, BeginBatch(w) PROVE TypeOK'
  BY <1>1 DEF BeginBatch
<1>2. ASSUME NEW w \in Workers, NEW k \in Keys, Admit(w, k) PROVE TypeOK'
  BY <1>2 DEF Admit
<1>3. ASSUME NEW w \in Workers, EndBatch(w) PROVE TypeOK'
  BY <1>3 DEF EndBatch, execVars
<1>4. ASSUME NEW w \in Workers, Claim(w) PROVE TypeOK'
  BY <1>4 DEF Claim
<1>5. ASSUME NEW w \in Workers, SendOk(w), UNCHANGED execVars PROVE TypeOK'
  BY <1>5 DEF SendOk, Create, execVars
<1>6. ASSUME NEW w \in Workers, SendRefused(w), UNCHANGED execVars
      PROVE  TypeOK'
  BY <1>6 DEF SendRefused, execVars
<1>7. ASSUME NEW w \in Workers, NEW retryable \in BOOLEAN,
             SendFails(w, retryable), UNCHANGED execVars
      PROVE  TypeOK'
  <2>1. pc' \in [Workers -> Places] /\ tries' \in [Workers -> 1..MaxAttempts]
    BY <1>7 DEF SendFails, AfterException
  <2>2. entities' \in [Keys -> Nat] /\ inflight' \in [Keys -> Nat]
    BY <1>7 DEF SendFails, Create
  <2> QED
    BY <2>1, <2>2, <1>7 DEF SendFails, execVars
<1>8. ASSUME NEW w \in Workers, LookupBeforeResend(w), UNCHANGED execVars
      PROVE  TypeOK'
  BY <1>8 DEF LookupBeforeResend, execVars
<1>9. ASSUME NEW w \in Workers, LookupAfterRefusal(w), UNCHANGED execVars
      PROVE  TypeOK'
  BY <1>9 DEF LookupAfterRefusal, execVars
<1>10. ASSUME NEW w \in Workers, Deliver(w) PROVE TypeOK'
  BY <1>10 DEF Deliver
<1>11. ASSUME NEW w \in Workers, RecordExecuted(w) PROVE TypeOK'
  BY <1>11 DEF RecordExecuted
<1>12. ASSUME NEW w \in Workers, RecordFailed(w) PROVE TypeOK'
  BY <1>12 DEF RecordFailed
<1>13. ASSUME NEW w \in Workers, Crash(w) PROVE TypeOK'
  BY <1>13 DEF Crash
<1>14. ASSUME NEW k \in Keys, RazorpayCatchesUp(k) PROVE TypeOK'
  BY <1>14 DEF RazorpayCatchesUp, LateRequest, Create, execVars
<1>15. CASE UNCHANGED vars
  BY <1>15 DEF vars, clientVars, execVars
<1> QED
  BY <1>1, <1>2, <1>3, <1>4, <1>5, <1>6, <1>7, <1>8, <1>9, <1>10, <1>11,
     <1>12, <1>13, <1>14, <1>15 DEF Next, ExecuteStep, CallRazorpay, WriteStep

\* Types hold in every reachable state.
THEOREM TypeCorrect == Spec => []TypeOK
<1>1. Init => TypeOK
  BY ClientAssumption DEF Init, TypeOK, Zero, Workers, Places
<1> QED
  BY <1>1, TypeStep, PTL DEF Spec

-----------------------------------------------------------------------------
\* The parts of IInv that relate variables, as opposed to typing them.
Core ==
  /\ ClaimedByOne
  /\ HeldKey
  /\ UnclaimedIsUntouched
  /\ OnlyLateIsInFlight
  /\ OneEach
  /\ NoDoubleContact
  /\ LedgerIsTruthful

\* The five moves that can put an entity at Razorpay or change who holds a key
\* need an argument; the others only leave a place or write a row.
LEMMA InitCore == Init => IInv
<1> SUFFICES ASSUME Init PROVE IInv
  OBVIOUS
<1>1. TypeOK
  BY ClientAssumption DEF Init, TypeOK, Zero, Workers, Places
<1>2. ClaimedByOne /\ HeldKey
  BY DEF Init, ClaimedByOne, HeldKey, Holding
<1>3. UnclaimedIsUntouched /\ OnlyLateIsInFlight
  BY DEF Init, UnclaimedIsUntouched, OnlyLateIsInFlight, Zero
<1>4. OneEach /\ NoDoubleContact /\ LedgerIsTruthful
  BY ClientAssumption DEF Init, OneEach, SureKeys, NoDoubleContact, LedgerIsTruthful,
     Zero
<1> QED
  BY <1>1, <1>2, <1>3, <1>4 DEF IInv

\* Every step keeps the inductive invariant.
LEMMA CoreStep ==
  ASSUME IInv, TypeOK', [Next]_vars
  PROVE  Core'
<1> USE ClientAssumption, ExecutionAssumption DEF Workers, Holding, Places
<1> USE DEF IInv, TypeOK, SureKeys
<1>1. ASSUME NEW w \in Workers, BeginBatch(w) PROVE Core'
  BY <1>1 DEF BeginBatch, Core, ClaimedByOne, HeldKey, UnclaimedIsUntouched,
              OnlyLateIsInFlight, OneEach, NoDoubleContact,
              LedgerIsTruthful
<1>2. ASSUME NEW w \in Workers, NEW k \in Keys, Admit(w, k) PROVE Core'
  BY <1>2 DEF Admit, Core, ClaimedByOne, HeldKey, UnclaimedIsUntouched,
              OnlyLateIsInFlight, OneEach, NoDoubleContact,
              LedgerIsTruthful
<1>3. ASSUME NEW w \in Workers, EndBatch(w) PROVE Core'
  BY <1>3 DEF EndBatch, execVars, Core, ClaimedByOne, HeldKey,
              UnclaimedIsUntouched, OnlyLateIsInFlight, OneEach,
              NoDoubleContact, LedgerIsTruthful
<1>4. ASSUME NEW w \in Workers, Claim(w) PROVE Core'
  <2>1. ClaimedByOne'
    BY <1>4 DEF Claim, ClaimedByOne, HeldKey
  <2>2. HeldKey'
    BY <1>4 DEF Claim, HeldKey, UnclaimedIsUntouched
  <2>3. UnclaimedIsUntouched' /\ OnlyLateIsInFlight'
    BY <1>4 DEF Claim, UnclaimedIsUntouched, OnlyLateIsInFlight
  <2>4. OneEach' /\ NoDoubleContact' /\ LedgerIsTruthful'
    BY <1>4 DEF Claim, OneEach, NoDoubleContact, LedgerIsTruthful
  <2> QED
    BY <2>1, <2>2, <2>3, <2>4 DEF Core
<1>5. ASSUME NEW w \in Workers, SendOk(w), UNCHANGED execVars PROVE Core'
  <2>1. ClaimedByOne'
    BY <1>5 DEF SendOk, ClaimedByOne
  <2>2. HeldKey'
    BY <1>5 DEF SendOk, Create, execVars, HeldKey, ClaimedByOne
  <2>3. UnclaimedIsUntouched' /\ OnlyLateIsInFlight'
    BY <1>5 DEF SendOk, Create, execVars, UnclaimedIsUntouched,
                OnlyLateIsInFlight, HeldKey
  <2>4. OneEach' /\ NoDoubleContact' /\ LedgerIsTruthful'
    BY <1>5 DEF SendOk, Create, Refuses, execVars, HeldKey, OneEach,
                NoDoubleContact, LedgerIsTruthful
  <2> QED
    BY <2>1, <2>2, <2>3, <2>4 DEF Core
<1>6. ASSUME NEW w \in Workers, SendRefused(w), UNCHANGED execVars PROVE Core'
  BY <1>6 DEF SendRefused, execVars, Core, ClaimedByOne, HeldKey,
              UnclaimedIsUntouched, OnlyLateIsInFlight, OneEach,
              NoDoubleContact, LedgerIsTruthful
<1>7. ASSUME NEW w \in Workers, NEW retryable \in BOOLEAN,
             SendFails(w, retryable), UNCHANGED execVars
      PROVE  Core'
  <2>1. /\ pc[w] = "send"
        /\ pc' = [pc EXCEPT ![w] = "lookup"] \/ pc' = [pc EXCEPT ![w] = "raised"]
        /\ key' = key
    BY <1>7 DEF SendFails, AfterException
  <2>2. \/ entities' = entities /\ inflight' = inflight
        \/ /\ ~Refuses(key[w])
           /\ Create(key[w])
           /\ inflight' = inflight
        \/ /\ key[w] \in LateKeys
           /\ inflight' = [inflight EXCEPT ![key[w]] = @ + 1]
           /\ entities' = entities
    BY <1>7 DEF SendFails
  <2>3. ClaimedByOne'
    BY <2>1 DEF ClaimedByOne
  <2>4. HeldKey'
    BY <1>7, <2>1, <2>2 DEF Create, execVars, HeldKey, ClaimedByOne
  <2>5. UnclaimedIsUntouched'
    BY <1>7, <2>1, <2>2 DEF Create, execVars, UnclaimedIsUntouched, HeldKey
  <2>6. OnlyLateIsInFlight'
    BY <1>7, <2>1, <2>2 DEF OnlyLateIsInFlight, HeldKey
  <2>7. messages' = messages /\ executed' = executed /\ failed' = failed
    BY <1>7 DEF execVars
  <2>8. OneEach'
    BY <2>1, <2>2 DEF Create, Refuses, HeldKey, OneEach
  <2>9. \A k \in Keys : entities[k] <= entities'[k]
    BY <2>2 DEF Create
  <2>10. NoDoubleContact' /\ LedgerIsTruthful'
    BY <2>7, <2>9 DEF NoDoubleContact, LedgerIsTruthful
  <2> QED
    BY <2>3, <2>4, <2>5, <2>6, <2>8, <2>10 DEF Core
<1>8. ASSUME NEW w \in Workers, LookupBeforeResend(w), UNCHANGED execVars
      PROVE  Core'
  <2>1. ClaimedByOne'
    BY <1>8 DEF LookupBeforeResend, ClaimedByOne
  <2>2. HeldKey'
    BY <1>8 DEF LookupBeforeResend, execVars, HeldKey
  <2>3. UnclaimedIsUntouched' /\ OnlyLateIsInFlight'
    BY <1>8 DEF LookupBeforeResend, execVars, UnclaimedIsUntouched,
                OnlyLateIsInFlight
  <2>4. OneEach' /\ NoDoubleContact' /\ LedgerIsTruthful'
    BY <1>8 DEF LookupBeforeResend, execVars, OneEach, NoDoubleContact,
                LedgerIsTruthful
  <2> QED
    BY <2>1, <2>2, <2>3, <2>4 DEF Core
<1>9. ASSUME NEW w \in Workers, LookupAfterRefusal(w), UNCHANGED execVars
      PROVE  Core'
  <2>1. ClaimedByOne'
    BY <1>9 DEF LookupAfterRefusal, ClaimedByOne
  <2>2. HeldKey'
    BY <1>9 DEF LookupAfterRefusal, execVars, HeldKey
  <2>3. UnclaimedIsUntouched' /\ OnlyLateIsInFlight'
    BY <1>9 DEF LookupAfterRefusal, execVars, UnclaimedIsUntouched,
                OnlyLateIsInFlight
  <2>4. OneEach' /\ NoDoubleContact' /\ LedgerIsTruthful'
    BY <1>9 DEF LookupAfterRefusal, execVars, OneEach, NoDoubleContact,
                LedgerIsTruthful
  <2> QED
    BY <2>1, <2>2, <2>3, <2>4 DEF Core
<1>10. ASSUME NEW w \in Workers, Deliver(w) PROVE Core'
  <2>1. ClaimedByOne' /\ HeldKey'
    BY <1>10 DEF Deliver, ClaimedByOne, HeldKey
  <2>2. UnclaimedIsUntouched' /\ OnlyLateIsInFlight'
    BY <1>10 DEF Deliver, UnclaimedIsUntouched, OnlyLateIsInFlight, HeldKey
  <2>3. OneEach' /\ NoDoubleContact' /\ LedgerIsTruthful'
    BY <1>10 DEF Deliver, HeldKey, OneEach, NoDoubleContact,
                 LedgerIsTruthful
  <2> QED
    BY <2>1, <2>2, <2>3 DEF Core
<1>11. ASSUME NEW w \in Workers, RecordExecuted(w) PROVE Core'
  <2>1. ClaimedByOne' /\ HeldKey'
    BY <1>11 DEF RecordExecuted, ClaimedByOne, HeldKey
  <2>2. UnclaimedIsUntouched' /\ OnlyLateIsInFlight'
    BY <1>11 DEF RecordExecuted, UnclaimedIsUntouched, OnlyLateIsInFlight,
                 HeldKey
  <2>3. OneEach' /\ NoDoubleContact' /\ LedgerIsTruthful'
    BY <1>11 DEF RecordExecuted, HeldKey, OneEach, NoDoubleContact,
                 LedgerIsTruthful
  <2> QED
    BY <2>1, <2>2, <2>3 DEF Core
<1>12. ASSUME NEW w \in Workers, RecordFailed(w) PROVE Core'
  <2>1. ClaimedByOne' /\ HeldKey'
    BY <1>12 DEF RecordFailed, ClaimedByOne, HeldKey
  <2>2. UnclaimedIsUntouched' /\ OnlyLateIsInFlight'
    BY <1>12 DEF RecordFailed, UnclaimedIsUntouched, OnlyLateIsInFlight, HeldKey
  <2>3. OneEach' /\ NoDoubleContact' /\ LedgerIsTruthful'
    BY <1>12 DEF RecordFailed, HeldKey, OneEach, NoDoubleContact,
                 LedgerIsTruthful
  <2> QED
    BY <2>1, <2>2, <2>3 DEF Core
<1>13. ASSUME NEW w \in Workers, Crash(w) PROVE Core'
  BY <1>13 DEF Crash, Core, ClaimedByOne, HeldKey, UnclaimedIsUntouched,
               OnlyLateIsInFlight, OneEach, NoDoubleContact,
               LedgerIsTruthful
<1>14. ASSUME NEW k \in Keys, RazorpayCatchesUp(k) PROVE Core'
  <2>1. k \in LateKeys /\ k \in claimed
    BY <1>14 DEF RazorpayCatchesUp, LateRequest, OnlyLateIsInFlight,
                 UnclaimedIsUntouched
  <2>2. ClaimedByOne' /\ HeldKey'
    BY <1>14, <2>1 DEF RazorpayCatchesUp, LateRequest, Create, execVars,
                       ClaimedByOne, HeldKey
  <2>3. UnclaimedIsUntouched' /\ OnlyLateIsInFlight'
    BY <1>14, <2>1 DEF RazorpayCatchesUp, LateRequest, Create, execVars,
                       UnclaimedIsUntouched, OnlyLateIsInFlight
  <2>4. /\ UNCHANGED <<messages, executed, failed>>
        /\ \/ UNCHANGED entities
           \/ /\ ~Refuses(k)
              /\ \A j \in Keys :
                   entities'[j] = IF j = k THEN entities[j] + 1 ELSE entities[j]
    BY <1>14 DEF RazorpayCatchesUp, LateRequest, Create, execVars
  <2>5. OneEach'
    <3>1. k \in SureKeys => k \in LinkKeys
      BY <2>1
    <3> QED
      BY <2>4, <3>1 DEF Refuses, OneEach
  <2>6. NoDoubleContact' /\ LedgerIsTruthful'
    BY <2>4 DEF NoDoubleContact, LedgerIsTruthful
  <2> QED
    BY <2>2, <2>3, <2>5, <2>6 DEF Core
<1>15. CASE UNCHANGED vars
  BY <1>15 DEF vars, clientVars, execVars, Core, ClaimedByOne, HeldKey,
               UnclaimedIsUntouched, OnlyLateIsInFlight, OneEach,
               NoDoubleContact, LedgerIsTruthful
<1> QED
  BY <1>1, <1>2, <1>3, <1>4, <1>5, <1>6, <1>7, <1>8, <1>9, <1>10, <1>11,
     <1>12, <1>13, <1>14, <1>15 DEF Next, ExecuteStep, CallRazorpay, WriteStep

\* The inductive invariant: a claimed key has one living holder or none, and an
\* order's key has no entity whenever its holder is about to send, unless a
\* request that was given up on lands late.
THEOREM Inductive == Spec => []IInv
<1>1. IInv /\ [Next]_vars => IInv'
  <2> SUFFICES ASSUME IInv, [Next]_vars PROVE IInv'
    OBVIOUS
  <2>1. TypeOK'
    BY TypeStep DEF IInv
  <2>2. Core'
    BY <2>1, CoreStep
  <2> QED
    BY <2>1, <2>2 DEF IInv, Core
<1> QED
  BY <1>1, InitCore, PTL DEF Spec

\* A payment link is never created twice, nor is any order of a key whose
\* requests Razorpay does not process late.
THEOREM OneChargePerSureKey == Spec => []OneEach
<1>1. IInv => OneEach
  BY DEF IInv
<1> QED
  BY <1>1, Inductive, PTL

\* A key never makes Razorpay create two orders or two links, however many
\* processes race, retry, crash and resume, if no order lands late.
THEOREM OneChargePerKey == OrdersLandInTime /\ Spec => []NoDoubleCharge
<1> SUFFICES ASSUME OrdersLandInTime PROVE Spec => []NoDoubleCharge
  OBVIOUS
<1>1. OneEach => NoDoubleCharge
  BY DEF OrdersLandInTime, OneEach, SureKeys, NoDoubleCharge
<1> QED
  BY <1>1, OneChargePerSureKey, PTL

\* A key never sends the customer two messages, nor one without a link, also when
\* what it asked for lands late.
THEOREM OneContactPerKey == Spec => []NoDoubleContact
<1>1. IInv => NoDoubleContact
  BY DEF IInv
<1> QED
  BY <1>1, Inductive, PTL

\* The rows of the ledger never claim an entity that is not there, also when
\* something lands late.
THEOREM TruthfulLedger == Spec => []LedgerIsTruthful
<1>1. IInv => LedgerIsTruthful
  BY DEF IInv
<1> QED
  BY <1>1, Inductive, PTL

\* Only RecordExecuted, RecordFailed and Crash take a worker out of Holding.
LEMMA RecordedStep ==
  ASSUME IInv, [Next]_vars, NEW w \in Workers,
         pc[w] \in Holding, pc'[w] \notin Holding
  PROVE  pc'[w] = "idle" \/ executed'[key[w]] + failed'[key[w]] = 1
<1> USE DEF Workers, Holding
<1>0. /\ pc \in [Workers -> Places] /\ key[w] \in Keys
      /\ executed \in [Keys -> Nat] /\ failed \in [Keys -> Nat]
      /\ executed[key[w]] = 0 /\ failed[key[w]] = 0
  BY DEF IInv, TypeOK, HeldKey
<1>1. ASSUME NEW v \in Workers,
             \/ BeginBatch(v) \/ (\E k \in Keys : Admit(v, k)) \/ EndBatch(v)
             \/ Claim(v) \/ Deliver(v)
      PROVE  FALSE
  BY <1>0, <1>1 DEF BeginBatch, Admit, EndBatch, Claim, Deliver, IInv, HeldKey
<1>2. ASSUME NEW v \in Workers, WriteStep(v) PROVE FALSE
  BY <1>0, <1>2 DEF WriteStep, SendOk, SendRefused, SendFails, AfterException,
                    LookupBeforeResend, LookupAfterRefusal
<1>3. ASSUME NEW k \in Keys, RazorpayCatchesUp(k) PROVE FALSE
  BY <1>3 DEF RazorpayCatchesUp, LateRequest
<1>4. ASSUME NEW v \in Workers, RecordExecuted(v) \/ RecordFailed(v)
      PROVE  executed'[key[w]] + failed'[key[w]] = 1
  <2>1. v = w
    BY <1>0, <1>4 DEF RecordExecuted, RecordFailed
  <2> QED
    BY <1>0, <1>4, <2>1 DEF RecordExecuted, RecordFailed
<1>5. ASSUME NEW v \in Workers, Crash(v) PROVE pc'[w] = "idle"
  BY <1>0, <1>5 DEF Crash
<1>6. ~ UNCHANGED vars
  BY DEF vars, clientVars
<1> QED
  BY <1>1, <1>2, <1>3, <1>4, <1>5, <1>6 DEF Next, ExecuteStep, CallRazorpay

\* A worker lets go of a claimed key only by dying or with a row for it.
THEOREM ClaimsAreRecorded == Spec => ClaimIsRecorded
<1>1. IInv /\ [Next]_vars =>
        [\A w \in Workers :
           pc[w] \in Holding /\ pc'[w] \notin Holding =>
             pc'[w] = "idle" \/ executed'[key[w]] + failed'[key[w]] = 1]_vars
  BY RecordedStep
<1> QED
  BY <1>1, Inductive, PTL DEF Spec, ClaimIsRecorded

-----------------------------------------------------------------------------
\* A creation for a key that can be sure of one entity is a Charge; for another
\* key OncePerKey does not see it.
LEMMA CreateIsCharge ==
  ASSUME NEW k \in Keys, TypeOK, OneEach', Create(k), UNCHANGED messages
  PROVE  Promised!Next \/ UNCHANGED <<At(entities), At(messages)>>
<1>1. \A j \in Keys : entities'[j] = IF j = k THEN entities[j] + 1 ELSE entities[j]
  BY DEF TypeOK, Create
<1>2. At(messages)' = At(messages) /\ SureKeys \subseteq Keys
  BY ClientAssumption DEF At, SureKeys
<1>3. CASE k \in SureKeys
  <2>1. entities[k] = 0 /\ entities'[k] = 1
    BY <1>1, <1>3 DEF TypeOK, OneEach
  <2>2. At(entities)[k] = 0
    BY <1>3, <2>1 DEF At
  <2>3. At(entities)' = [At(entities) EXCEPT ![k] = 1]
    BY <1>1, <1>2, <2>1 DEF At
  <2>4. Promised!Charge(k)
    BY <1>2, <2>2, <2>3 DEF Promised!Charge
  <2> QED
    BY <1>3, <2>4 DEF Promised!Next
<1>4. CASE k \notin SureKeys
  <2>1. At(entities)' = At(entities)
    BY <1>1, <1>2, <1>4 DEF At
  <2> QED
    BY <1>2, <2>1
<1> QED
  BY <1>3, <1>4

\* Every step of the executor is a Charge, a Contact or a stutter of OncePerKey.
LEMMA RefineStep ==
  ASSUME IInv, IInv', [Next]_vars
  PROVE  Promised!Next \/ UNCHANGED <<At(entities), At(messages)>>
<1> DEFINE Seen == Promised!Next \/ UNCHANGED <<At(entities), At(messages)>>
<1>0. TypeOK /\ HeldKey /\ OneEach /\ OneEach'
  BY DEF IInv
<1>a. ASSUME UNCHANGED <<entities, messages>> PROVE Seen
  BY <1>a DEF At
<1>1. ASSUME NEW w \in Workers, SendOk(w), UNCHANGED execVars PROVE Seen
  <2>1. key[w] \in Keys /\ Create(key[w]) /\ UNCHANGED messages
    BY <1>0, <1>1 DEF SendOk, execVars, TypeOK
  <2> QED
    BY <1>0, <2>1, CreateIsCharge
<1>2. ASSUME NEW w \in Workers, NEW retryable \in BOOLEAN,
             SendFails(w, retryable), UNCHANGED execVars
      PROVE  Seen
  <2>1. /\ key[w] \in Keys /\ UNCHANGED messages
        /\ Create(key[w]) \/ UNCHANGED entities
    BY <1>0, <1>2 DEF SendFails, execVars, TypeOK
  <2> QED
    BY <1>0, <1>a, <2>1, CreateIsCharge
<1>3. ASSUME NEW k \in Keys, RazorpayCatchesUp(k) PROVE Seen
  <2>1. UNCHANGED messages /\ (Create(k) \/ UNCHANGED entities)
    BY <1>3 DEF RazorpayCatchesUp, LateRequest, execVars
  <2> QED
    BY <1>0, <1>a, <2>1, CreateIsCharge
<1>4. ASSUME NEW w \in Workers, Deliver(w) PROVE Seen
  <2>1. key[w] \in Keys /\ entities[key[w]] > 0 /\ messages[key[w]] = 0
    BY <1>0, <1>4 DEF Deliver, HeldKey, Holding, TypeOK
  <2>2. CASE key[w] \in ContactKeys /\ messages' = [messages EXCEPT ![key[w]] = @ + 1]
    <3>1. key[w] \in SureKeys /\ SureKeys \subseteq Keys
      BY <2>2, ClientAssumption, ExecutionAssumption DEF SureKeys
    <3>2. entities[key[w]] = 1
      BY <1>0, <2>1, <3>1 DEF OneEach, TypeOK
    <3>3. At(entities)[key[w]] = 1 /\ At(messages)[key[w]] = 0
      BY <2>1, <3>1, <3>2 DEF At
    <3>4. /\ At(messages)' = [At(messages) EXCEPT ![key[w]] = 1]
          /\ At(entities)' = At(entities)
      <4>1. \A j \in Keys :
              messages'[j] = IF j = key[w] THEN messages[j] + 1 ELSE messages[j]
        BY <1>0, <2>2 DEF TypeOK
      <4>2. entities' = entities
        BY <1>4 DEF Deliver
      <4>3. \A j \in SureKeys : messages'[j] = IF j = key[w] THEN 1 ELSE messages[j]
        BY <2>1, <3>1, <4>1
      <4> QED
        BY <4>2, <4>3 DEF At
    <3>5. Promised!Contact(key[w])
      BY <3>3, <3>4 DEF Promised!Contact
    <3> QED
      BY <3>1, <3>5 DEF Promised!Next
  <2> QED
    BY <1>4, <1>a, <2>2 DEF Deliver
<1>5. ASSUME NEW w \in Workers,
             \/ BeginBatch(w) \/ (\E k \in Keys : Admit(w, k)) \/ EndBatch(w)
             \/ Claim(w) \/ RecordExecuted(w) \/ RecordFailed(w) \/ Crash(w)
      PROVE  UNCHANGED <<entities, messages>>
  BY <1>5 DEF BeginBatch, Admit, EndBatch, Claim, RecordExecuted, RecordFailed,
              Crash, execVars
<1>6. ASSUME NEW w \in Workers, UNCHANGED execVars,
             SendRefused(w) \/ LookupBeforeResend(w) \/ LookupAfterRefusal(w)
      PROVE  UNCHANGED <<entities, messages>>
  BY <1>6 DEF SendRefused, LookupBeforeResend, LookupAfterRefusal, execVars
<1>7. CASE UNCHANGED vars
  BY <1>7, <1>a DEF vars, clientVars, execVars
<1> QED
  BY <1>a, <1>1, <1>2, <1>3, <1>4, <1>5, <1>6, <1>7
  DEF Next, ExecuteStep, CallRazorpay, WriteStep

\* The executor, with its races, retries and crashes, implements OncePerKey for
\* every key whose requests do not land late or are refused when they do.
THEOREM ImplementsOncePerKey == Spec => OncePerKeySpec
<1>1. Init => Promised!Init
  BY ClientAssumption DEF Init, Zero, At, SureKeys, Promised!Init
<1>2. IInv /\ IInv' /\ [Next]_vars => [Promised!Next]_(Promised!vars)
  BY RefineStep DEF Promised!vars
<1> QED
  BY <1>1, <1>2, Inductive, PTL DEF Spec, OncePerKeySpec, Promised!Spec
=============================================================================
