----------------------------- MODULE OncePerKey -----------------------------
(***************************************************************************)
(* What the executor promises about the outside world, with no mention of  *)
(* processes, claims, retries or crashes: for one idempotency key Razorpay *)
(* is made to create at most one entity, and the customer is sent at most  *)
(* one message, never before there is a link to put in it.                 *)
(***************************************************************************)
EXTENDS Integers

CONSTANT Keys

VARIABLES
  charges,   \* charges[k]: entities at Razorpay for key k
  contacts   \* contacts[k]: messages sent to the customer for key k

vars == <<charges, contacts>>

Init ==
  /\ charges = [k \in Keys |-> 0]
  /\ contacts = [k \in Keys |-> 0]

Charge(k) ==
  /\ charges[k] = 0
  /\ charges' = [charges EXCEPT ![k] = 1]
  /\ UNCHANGED contacts

Contact(k) ==
  /\ charges[k] = 1
  /\ contacts[k] = 0
  /\ contacts' = [contacts EXCEPT ![k] = 1]
  /\ UNCHANGED charges

Next == \E k \in Keys : Charge(k) \/ Contact(k)

Spec == Init /\ [][Next]_vars
=============================================================================
