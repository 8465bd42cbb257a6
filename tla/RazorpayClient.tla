--------------------------- MODULE RazorpayClient ---------------------------
(***************************************************************************)
(* The retrying write of reclaim/execute/razorpay_client.py and the part   *)
(* of Razorpay it talks to.  A caller inside a write is at one of          *)
(*                                                                         *)
(*   "send"    about to issue the request (attempt number tries)           *)
(*   "lookup"  about to ask Razorpay whether an earlier request landed     *)
(*   "refused" Razorpay said the key already exists; about to look it up   *)
(*   "returned", "raised"  the write ended; the executor takes over        *)
(*                                                                         *)
(* Razorpay is external.  It is a count, per idempotency key, of the       *)
(* entities (orders or payment links) that carry the key, plus the         *)
(* requests whose sender gave up on them and which may still be processed. *)
(* A lookup is assumed to see every entity created before it.              *)
(*                                                                         *)
(* DRY_RUN makes no request, so the model is of a live client.             *)
(***************************************************************************)
EXTENDS Integers

CONSTANTS
  Callers,      \* threads or processes that can be inside a write
  Keys,         \* idempotency keys
  LinkKeys,     \* keys sent as a payment link's reference_id, unique at Razorpay
  MaxAttempts,  \* _MAX_ATTEMPTS
  LateKeys      \* keys whose requests Razorpay may still process, once given up on

ASSUME ClientAssumption ==
  /\ LinkKeys \subseteq Keys
  /\ MaxAttempts \in Nat \ {0}
  /\ LateKeys \subseteq Keys

VARIABLES
  pc,        \* pc[c]: where caller c is
  key,       \* key[c]: the key c is working on
  tries,     \* tries[c]: the loop variable `attempt` of _with_retry
  entities,  \* entities[k]: orders or links at Razorpay carrying key k
  inflight   \* inflight[k]: requests given up on that may still be processed

clientVars == <<pc, key, tries, entities, inflight>>

-----------------------------------------------------------------------------
\* Razorpay refuses a second payment link with the same reference_id; it
\* accepts any number of orders with the same receipt.
Refuses(k) == k \in LinkKeys /\ entities[k] > 0

Create(k) == entities' = [entities EXCEPT ![k] = @ + 1]

\* The request is accepted and the answer comes back.
SendOk(c) ==
  /\ pc[c] = "send"
  /\ ~Refuses(key[c])
  /\ Create(key[c])
  /\ pc' = [pc EXCEPT ![c] = "returned"]
  /\ UNCHANGED <<key, tries, inflight>>

\* Razorpay answers "already exists": the remote half of the guarantee.
SendRefused(c) ==
  /\ pc[c] = "send"
  /\ Refuses(key[c])
  /\ pc' = [pc EXCEPT ![c] = "refused"]
  /\ UNCHANGED <<key, tries, entities, inflight>>

\* Mutation: the loop bound is off by one.
AfterExceptionOnceMore(c, retryable) ==
  IF retryable /\ tries[c] <= MaxAttempts
    THEN /\ pc' = [pc EXCEPT ![c] = "lookup"]
         /\ tries' = [tries EXCEPT ![c] = @ + 1]
    ELSE /\ pc' = [pc EXCEPT ![c] = "raised"]
         /\ UNCHANGED tries

\* What _with_retry does after an exception: a retryable one is retried while
\* attempts remain, after a lookup; anything else ends the write.
AfterException(c, retryable) ==
  IF retryable /\ tries[c] < MaxAttempts
    THEN /\ pc' = [pc EXCEPT ![c] = "lookup"]
         /\ tries' = [tries EXCEPT ![c] = @ + 1]
    ELSE /\ pc' = [pc EXCEPT ![c] = "raised"]
         /\ UNCHANGED tries

\* The call raises.  The request may have landed all the same (its answer was
\* lost), may not have, or may still be on its way.
SendFails(c, retryable) ==
  /\ pc[c] = "send"
  /\ AfterException(c, retryable)
  /\ \/ UNCHANGED <<entities, inflight>>
     \/ /\ ~Refuses(key[c])
        /\ Create(key[c])
        /\ UNCHANGED inflight
     \/ /\ key[c] \in LateKeys
        /\ inflight' = [inflight EXCEPT ![key[c]] = @ + 1]
        /\ UNCHANGED entities
  /\ UNCHANGED key

\* Mutation: a lookup that failed is read as "nothing there".
LookupFailureIsNothing(c) ==
  /\ pc[c] = "lookup"
  /\ \/ /\ entities[key[c]] > 0
        /\ pc' = [pc EXCEPT ![c] = "returned"]
     \/ pc' = [pc EXCEPT ![c] = "send"]
  /\ UNCHANGED <<key, tries, entities, inflight>>

\* Mutation: "nothing there" is taken for an answer to the write.
LookupNothingIsAnswer(c) ==
  /\ pc[c] = "lookup"
  /\ \/ pc' = [pc EXCEPT ![c] = "returned"]
     \/ pc' = [pc EXCEPT ![c] = "raised"]
  /\ UNCHANGED <<key, tries, entities, inflight>>

\* Three answers: the entity, nothing, or "cannot tell".  Only a clear "nothing"
\* lets the loop send again; "cannot tell" refuses to.
LookupBeforeResend(c) ==
  /\ pc[c] = "lookup"
  /\ \/ /\ entities[key[c]] > 0
        /\ pc' = [pc EXCEPT ![c] = "returned"]
     \/ /\ entities[key[c]] = 0
        /\ pc' = [pc EXCEPT ![c] = "send"]
     \/ pc' = [pc EXCEPT ![c] = "raised"]
  /\ UNCHANGED <<key, tries, entities, inflight>>

\* After a refusal only a found entity is an answer; "already exists" is not
\* one of the retryable errors.
LookupAfterRefusal(c) ==
  /\ pc[c] = "refused"
  /\ \/ /\ entities[key[c]] > 0
        /\ pc' = [pc EXCEPT ![c] = "returned"]
     \/ pc' = [pc EXCEPT ![c] = "raised"]
  /\ UNCHANGED <<key, tries, entities, inflight>>

\* Razorpay gets round to a request its sender gave up on, or drops it.
LateRequest(k) ==
  /\ inflight[k] > 0
  /\ inflight' = [inflight EXCEPT ![k] = @ - 1]
  /\ \/ ~Refuses(k) /\ Create(k)
     \/ UNCHANGED entities
  /\ UNCHANGED <<pc, key, tries>>

WriteStep(c) ==
  \/ SendOk(c)
  \/ SendRefused(c)
  \/ \E retryable \in BOOLEAN : SendFails(c, retryable)
  \/ LookupBeforeResend(c)
  \/ LookupAfterRefusal(c)
=============================================================================
