----------------------------- MODULE CheckoutLab -----------------------------
(***************************************************************************)
(* The checkout lab (ui/src/components/CheckoutLab.tsx): an order and the  *)
(* script of Razorpay Checkout are fetched side by side, Checkout opens,   *)
(* and a payment that fails in it is handed to the server, once.           *)
(*                                                                         *)
(* Checkout is a window of somebody else's: it reports a failed attempt    *)
(* with or without the id of its payment, lets the customer try again, and *)
(* reports that it was closed some time after it was told to close.        *)
(***************************************************************************)
EXTENDS ApiCall

ASSUME CheckoutAssumption == "tab" \in Callers

VARIABLES
  phase,     \* "idle", "opening", "paying", "importing", "paid" or "done"
  script,    \* checkout.js, for the whole page: "absent", "loading", "loaded", or
             \* "hollow": it came without Razorpay in it
  order,     \* "none", "asked" or "got"
  window,    \* Checkout: "closed", "open" or "closing"
  failed     \* the flag of the closure of pay()

checkoutVars == <<phase, script, order, window, failed>>

\* The script stays with the page.
CheckoutFresh ==
  /\ phase' = "idle" /\ order' = "none" /\ window' = "closed" /\ failed' = FALSE
  /\ UNCHANGED script

CheckoutInit ==
  /\ phase = "idle" /\ script = "absent" /\ order = "none"
  /\ window = "closed" /\ failed = FALSE

Busy == phase \in {"opening", "paying", "importing"}
ImportInFlight == call["tab"].what.kind = "import"

-----------------------------------------------------------------------------
\* pay(): the order is posted, and the script is loaded unless it is there or
\* another click is loading it.  A window that is still closing is waited for: a
\* simplification, the code makes a second one beside it.
Pay ==
  /\ ~Busy /\ window # "closing"
  /\ phase' = "opening"
  /\ order' = "asked"
  /\ script' = IF script = "absent" THEN "loading" ELSE script
  /\ UNCHANGED <<callVars, window, failed>>

\* The order comes back, or the whole of Promise.all fails with it.
OrderAnswered ==
  /\ order = "asked"
  /\ \/ order' = "got" /\ UNCHANGED phase
     \/ order' = "none" /\ phase' = "idle"
  /\ UNCHANGED <<callVars, script, window, failed>>

\* onload: the promise is kept, whatever the script brought.
ScriptLoads ==
  /\ script = "loading"
  /\ script' \in {"loaded", "hollow"}
  /\ UNCHANGED <<callVars, phase, order, window, failed>>

\* Mutation: the rejected promise is kept.
ScriptFailsForGood ==
  /\ script = "loading"
  /\ script' = "broken"
  /\ IF phase = "opening"
       THEN phase' = "idle" /\ order' = "none"
       ELSE UNCHANGED <<phase, order>>
  /\ UNCHANGED <<callVars, window, failed>>

\* onerror forgets the promise, so that the next click tries again; the click that
\* waited for it fails, and the order, if it comes, is nobody's.
ScriptFails ==
  /\ script = "loading"
  /\ script' = "absent"
  /\ IF phase = "opening"
       THEN phase' = "idle" /\ order' = "none"
       ELSE UNCHANGED <<phase, order>>
  /\ UNCHANGED <<callVars, window, failed>>

\* Both are there.
OpenCheckout ==
  /\ phase = "opening" /\ order = "got" /\ script = "loaded"
  /\ phase' = "paying"
  /\ order' = "none"
  /\ window' = "open"
  /\ failed' = FALSE
  /\ UNCHANGED <<callVars, script>>

\* Both came, but there is no Razorpay to open; nor will the next click find one.
NothingToOpen ==
  /\ phase = "opening" /\ order = "got" /\ script = "hollow"
  /\ phase' = "idle"
  /\ order' = "none"
  /\ UNCHANGED <<callVars, script, window, failed>>

-----------------------------------------------------------------------------
\* handler: the payment went through.
PaymentSucceeds ==
  /\ window = "open"
  /\ window' = "closed"
  /\ phase' = "paid"
  /\ UNCHANGED <<callVars, script, order, failed>>

\* payment.failed: without an id, or after the first, it is ignored; otherwise
\* Checkout is told to close and the failure is imported.
PaymentFails(identified) ==
  /\ window \in {"open", "closing"}
  /\ IF identified /\ ~failed
       THEN /\ failed' = TRUE
            /\ window' = "closing"
            /\ phase' = "importing"
            /\ Send("tab", [kind |-> "import"])
       ELSE UNCHANGED <<callVars, phase, window, failed>>
  /\ UNCHANGED <<script, order>>

\* Mutation: closing always means that the customer gave up.
DismissedAnyway ==
  /\ window # "closed"
  /\ window' = "closed"
  /\ phase' = "idle"
  /\ UNCHANGED <<callVars, script, order, failed>>

\* ondismiss: by the customer, or by the close() of a failure.
Dismissed ==
  /\ window # "closed"
  /\ window' = "closed"
  /\ phase' = IF failed THEN phase ELSE "idle"
  /\ UNCHANGED <<callVars, script, order, failed>>

\* importFailure ends; an error leaves no way back to that payment.
ImportAnswered ==
  /\ phase = "importing"
  /\ \/ Returns("tab", "done") /\ phase' = "done"
     \/ /\ Returns("tab", "busy") \/ Returns("tab", "refused") \/ GivesUp("tab")
        /\ phase' = "idle"
  /\ UNCHANGED <<script, order, window, failed>>

\* commit_failed_payment: busy, refused, or a record, new or found.
ServeImport ==
  /\ \E r \in {"busy", "done", "refused"} :
       \/ ImportInFlight /\ Serve("tab", r)
       \/ \E s \in stray : s.what.kind = "import" /\ ServeStray(s, r)
  /\ UNCHANGED checkoutVars

CheckoutGoesOn ==
  \/ OrderAnswered \/ ScriptLoads \/ ScriptFails \/ OpenCheckout
  \/ NothingToOpen \/ PaymentSucceeds \/ (\E i \in BOOLEAN : PaymentFails(i)) \/ Dismissed
  \/ ImportAnswered \/ ServeImport

CheckoutQuiet == ~Busy /\ window = "closed"

-----------------------------------------------------------------------------
CheckoutTypeOK ==
  /\ phase \in {"idle", "opening", "paying", "importing", "paid", "done"}
  /\ script \in {"absent", "loading", "loaded", "hollow"}
  /\ order \in {"none", "asked", "got"}
  /\ window \in {"closed", "open", "closing"}
  /\ failed \in BOOLEAN

\* What the lab says it is doing is being done, so that its button is disabled
\* for exactly that long: it waits for a script somebody is loading, for a window
\* that is open, for an import that is under way.
PhaseIsReal ==
  /\ phase = "opening" => script \in {"loading", "loaded", "hollow"} /\ order # "none"
  /\ phase = "paying" <=> window = "open"
  /\ phase = "importing" <=> ImportInFlight
=============================================================================
