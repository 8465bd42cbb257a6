----------------------------- MODULE Execution -----------------------------
(***************************************************************************)
(* The executor of reclaim/execute/actions.py, called by several batch     *)
(* processes that share one database: the API's background thread, a CLI   *)
(* run beside it, and every run that resumes after a crash.                *)
(*                                                                         *)
(* A worker runs one batch at a time.  The gate admits a key that was not  *)
(* in executed_actions when the batch began and that the batch has not     *)
(* admitted before; execute() then claims the key with an INSERT, calls    *)
(* Razorpay, sends the message and writes the intervention row.  Each of   *)
(* these is a transaction or a request of its own, so another worker or a  *)
(* crash can come between any two.                                         *)
(***************************************************************************)
EXTENDS RazorpayClient

CONSTANTS
  RecordOnlyKeys,  \* keys of ESCALATE and NO_ACTION, which call nobody
  ContactKeys,     \* keys of links that also go out over a channel
  Crashes          \* whether a worker may die

ASSUME ExecutionAssumption ==
  /\ RecordOnlyKeys \subseteq Keys \ LinkKeys
  /\ ContactKeys \subseteq LinkKeys
  /\ Crashes \in BOOLEAN

VARIABLES
  seen,      \* seen[w]: executed_keys() at the start of w's batch, plus the tally
  claimed,   \* keys in executed_actions
  messages,  \* messages[k]: messages handed to the channel for key k
  executed,  \* executed[k]: intervention rows with outcome EXECUTED
  failed     \* failed[k]: intervention rows with outcome FAILED

execVars == <<seen, claimed, messages, executed, failed>>
vars == <<clientVars, execVars>>

Workers == Callers

Places == {"idle", "gate", "claim", "send", "lookup", "refused",
           "returned", "raised", "record"}

\* The places at which a worker has claimed its key and not yet recorded it.
Holding == {"send", "lookup", "refused", "returned", "raised", "record"}

Zero == [k \in Keys |-> 0]

Init ==
  /\ pc = [w \in Workers |-> "idle"]
  /\ key \in [Workers -> Keys]
  /\ tries = [w \in Workers |-> 1]
  /\ entities = Zero
  /\ inflight = Zero
  /\ seen = [w \in Workers |-> {}]
  /\ claimed = {}
  /\ messages = Zero
  /\ executed = Zero
  /\ failed = Zero

-----------------------------------------------------------------------------
\* run_batch hands executed_keys() to the gate once, before the first action.
BeginBatch(w) ==
  /\ pc[w] = "idle"
  /\ pc' = [pc EXCEPT ![w] = "gate"]
  /\ seen' = [seen EXCEPT ![w] = claimed]
  /\ UNCHANGED <<key, tries, entities, inflight, claimed, messages, executed,
                 failed>>

\* Guardrail 10 and the gate's in-batch tally: an admitted key is added to it.
Admit(w, k) ==
  /\ pc[w] = "gate"
  /\ k \notin seen[w]
  /\ seen' = [seen EXCEPT ![w] = @ \union {k}]
  /\ key' = [key EXCEPT ![w] = k]
  /\ tries' = [tries EXCEPT ![w] = 1]
  /\ pc' = [pc EXCEPT ![w] = "claim"]
  /\ UNCHANGED <<entities, inflight, claimed, messages, executed, failed>>

EndBatch(w) ==
  /\ pc[w] = "gate"
  /\ pc' = [pc EXCEPT ![w] = "idle"]
  /\ UNCHANGED <<key, tries, entities, inflight, execVars>>

\* Mutation: executed_actions has no UNIQUE constraint.
ClaimUnconstrained(w) ==
  /\ pc[w] = "claim"
  /\ claimed' = claimed \union {key[w]}
  /\ pc' = [pc EXCEPT ![w] =
              IF key[w] \in RecordOnlyKeys THEN "record" ELSE "send"]
  /\ UNCHANGED <<key, tries, entities, inflight, seen, messages, executed,
                 failed>>

\* Mutation: the claim is left for after the call.
ClaimPostponed(w) ==
  /\ pc[w] = "claim"
  /\ key[w] \notin claimed
  /\ pc' = [pc EXCEPT ![w] = "send"]
  /\ UNCHANGED <<key, tries, entities, inflight, seen, claimed, messages,
                 executed, failed>>

\* claim(): the UNIQUE constraint lets exactly one INSERT of a key through.  The
\* loser is skipped; ESCALATE and NO_ACTION have nobody to call.
Claim(w) ==
  /\ pc[w] = "claim"
  /\ IF key[w] \in claimed
       THEN /\ pc' = [pc EXCEPT ![w] = "gate"]
            /\ UNCHANGED claimed
       ELSE /\ claimed' = claimed \union {key[w]}
            /\ pc' = [pc EXCEPT ![w] =
                        IF key[w] \in RecordOnlyKeys THEN "record" ELSE "send"]
  /\ UNCHANGED <<key, tries, entities, inflight, seen, messages, executed,
                 failed>>

\* create_order or create_payment_link, one request or lookup at a time.
CallRazorpay(w) == WriteStep(w) /\ UNCHANGED execVars

\* The write came back with an entity.  A link with a channel goes out; the
\* sender may refuse the message (no recipient, too long) and nothing is sent.
Deliver(w) ==
  /\ pc[w] = "returned"
  /\ pc' = [pc EXCEPT ![w] = "record"]
  /\ \/ /\ key[w] \in ContactKeys
        /\ messages' = [messages EXCEPT ![key[w]] = @ + 1]
     \/ UNCHANGED messages
  /\ UNCHANGED <<key, tries, entities, inflight, seen, claimed, executed,
                 failed>>

\* _record(): the intervention row, EXECUTED or, after a RazorpayError, FAILED.
RecordExecuted(w) ==
  /\ pc[w] = "record"
  /\ executed' = [executed EXCEPT ![key[w]] = @ + 1]
  /\ pc' = [pc EXCEPT ![w] = "gate"]
  /\ UNCHANGED <<key, tries, entities, inflight, seen, claimed, messages,
                 failed>>

\* Mutation: a RazorpayError is logged and leaves no row.
RecordFailedNot(w) ==
  /\ pc[w] = "raised"
  /\ pc' = [pc EXCEPT ![w] = "gate"]
  /\ UNCHANGED <<key, tries, entities, inflight, seen, claimed, messages,
                 executed, failed>>

RecordFailed(w) ==
  /\ pc[w] = "raised"
  /\ failed' = [failed EXCEPT ![key[w]] = @ + 1]
  /\ pc' = [pc EXCEPT ![w] = "gate"]
  /\ UNCHANGED <<key, tries, entities, inflight, seen, claimed, messages,
                 executed>>

\* The process dies.  Only the database and Razorpay remember anything; a
\* request it had just issued may already have landed (SendFails, then Crash).
Crash(w) ==
  /\ Crashes
  /\ pc[w] # "idle"
  /\ pc' = [pc EXCEPT ![w] = "idle"]
  /\ seen' = [seen EXCEPT ![w] = {}]
  /\ UNCHANGED <<key, tries, entities, inflight, claimed, messages, executed,
                 failed>>

RazorpayCatchesUp(k) == LateRequest(k) /\ UNCHANGED execVars

-----------------------------------------------------------------------------
\* The statements of execute(), which a live thread runs one after the other.
ExecuteStep(w) ==
  \/ Claim(w)
  \/ CallRazorpay(w)
  \/ Deliver(w)
  \/ RecordExecuted(w)
  \/ RecordFailed(w)

Next ==
  \/ \E w \in Workers :
       \/ BeginBatch(w)
       \/ \E k \in Keys : Admit(w, k)
       \/ EndBatch(w)
       \/ ExecuteStep(w)
       \/ Crash(w)
  \/ \E k \in Keys : RazorpayCatchesUp(k)

Spec == Init /\ [][Next]_vars

-----------------------------------------------------------------------------
TypeOK ==
  /\ pc \in [Workers -> Places]
  /\ key \in [Workers -> Keys]
  /\ tries \in [Workers -> 1..MaxAttempts]
  /\ entities \in [Keys -> Nat]
  /\ inflight \in [Keys -> Nat]
  /\ seen \in [Workers -> SUBSET Keys]
  /\ claimed \in SUBSET Keys
  /\ messages \in [Keys -> Nat]
  /\ executed \in [Keys -> Nat]
  /\ failed \in [Keys -> Nat]

\* No key makes Razorpay create two entities, whatever is retried, raced or
\* resumed: the module docstring's "they are not allowed to double-charge".
NoDoubleCharge == \A k \in Keys : entities[k] <= 1

\* No customer gets two messages for one attempt, and none gets a message whose
\* link does not exist at Razorpay.
NoDoubleContact == \A k \in Keys : messages[k] <= 1 /\ messages[k] <= entities[k]

\* The ledger tells the truth about the outside: at most one row per key, an
\* EXECUTED row of a calling action only for an entity that exists.
LedgerIsTruthful ==
  \A k \in Keys :
    /\ executed[k] + failed[k] <= 1
    /\ executed[k] = 1 /\ k \notin RecordOnlyKeys => entities[k] >= 1

\* A worker that has claimed a key lets go of it only by dying or with a row in
\* the ledger, so a claimed key that nobody holds and that has no row always
\* means a crash.
ClaimIsRecorded ==
  [][\A w \in Workers :
       pc[w] \in Holding /\ pc'[w] \notin Holding =>
         pc'[w] = "idle" \/ executed'[key[w]] + failed'[key[w]] = 1]_vars

\* Keys that no request given up on can charge for: Razorpay processes none of
\* them late, or refuses it.
SureKeys == LinkKeys \union (Keys \ LateKeys)

\* The strengthening that makes NoDoubleCharge inductive, part by part.
ClaimedByOne ==  \* a key between claim and row belongs to one living worker
  \A v, w \in Workers :
    pc[v] \in Holding /\ pc[w] \in Holding /\ key[v] = key[w] => v = w

HeldKey ==  \* what holds of the key a worker is working on
  \A w \in Workers :
    /\ pc[w] \in Holding =>
         /\ key[w] \in claimed
         /\ executed[key[w]] = 0 /\ failed[key[w]] = 0
    /\ pc[w] \in Holding \ {"record"} =>
         /\ key[w] \notin RecordOnlyKeys
         /\ messages[key[w]] = 0
    /\ pc[w] = "send" /\ key[w] \notin LinkKeys \union LateKeys => entities[key[w]] = 0
    /\ pc[w] = "returned" => entities[key[w]] > 0
    /\ pc[w] = "record" /\ key[w] \notin RecordOnlyKeys => entities[key[w]] > 0

UnclaimedIsUntouched ==
  \A k \in Keys \ claimed :
    /\ entities[k] = 0 /\ inflight[k] = 0 /\ messages[k] = 0
    /\ executed[k] = 0 /\ failed[k] = 0

OnlyLateIsInFlight == \A k \in Keys : inflight[k] > 0 => k \in LateKeys

OneEach == \A k \in SureKeys : entities[k] <= 1

IInv ==
  /\ TypeOK
  /\ ClaimedByOne
  /\ HeldKey
  /\ UnclaimedIsUntouched
  /\ OnlyLateIsInFlight
  /\ OneEach
  /\ NoDoubleContact
  /\ LedgerIsTruthful

\* The executor implements OncePerKey, for the keys that can be sure of it.
At(counts) == [k \in SureKeys |-> counts[k]]

Promised ==
  INSTANCE OncePerKey WITH Keys <- SureKeys, charges <- At(entities), contacts <- At(messages)

OncePerKeySpec == Promised!Spec
=============================================================================
