--------------------------------- MODULE Tabs ---------------------------------
(***************************************************************************)
(* The tabs of the page that write something: the rules screen, and the    *)
(* three kinds of sandbox.  One of them is on screen, or a view is, which  *)
(* reads only.  Leaving one takes its state away and not what it has       *)
(* started: requests are answered, an apply posts its next section, and    *)
(* Checkout stays open over the page.                                      *)
(*                                                                         *)
(* The state of a screen that was left is kept here for what it still has  *)
(* to do; what it would show is nobody's to see.  Bound: a screen opens    *)
(* when no other has anything under way.                                   *)
(***************************************************************************)
EXTENDS RulesForm, TryIt, CheckoutLab, Views

CONSTANT Visits   \* bound: the screens one visitor uses

VARIABLES
  tab,    \* the screen that is up, or "view"
  visit   \* the screens this visitor uses

vars == <<callVars, formVars, tryVars, checkoutVars, viewVars, tab, visit>>

Screens == {"rules", "classify", "lab", "checkout"}

ASSUME TabsAssumption == Visits \subseteq SUBSET (Screens \union {"views"})

Init ==
  /\ CallInit /\ FormInit /\ TryInit /\ CheckoutInit /\ ViewsInit
  /\ tab = "view"
  /\ visit \in Visits

Quiet == FormQuiet /\ TryQuiet /\ CheckoutQuiet /\ ~InFlight("tab")

AllFresh(l, d) == FormFresh(l) /\ ClassifyFresh /\ LabFresh(d) /\ CheckoutFresh

\* setTab to a view: nothing is cancelled.
Leave ==
  /\ tab # "view"
  /\ tab' = "view"
  /\ IF Quiet THEN AllFresh("no", "nothing") ELSE UNCHANGED <<formVars, tryVars, checkoutVars>>
  /\ UNCHANGED <<callVars, viewVars, visit>>

\* setTab and setMode: the screen is mounted anew.
Open(t) ==
  /\ t \in visit /\ tab # t
  /\ Quiet
  /\ tab' = t
  /\ \E d \in {"nothing"} \union IF t = "lab" THEN Subjects ELSE {} :
       AllFresh(IF t = "rules" THEN "asked" ELSE "no", d)
  /\ UNCHANGED <<callVars, viewVars, visit>>

FormSteps ==
  /\ "rules" \in visit
  /\ FormGoesOn \/ (tab = "rules" /\ FormInput)
  /\ UNCHANGED <<tryVars, checkoutVars, viewVars, tab, visit>>

TrySteps ==
  /\ \/ TryGoesOn
     \/ tab = "classify" /\ ClassifyInput
     \/ tab = "lab" /\ LabInput
  /\ UNCHANGED <<formVars, checkoutVars, viewVars, tab, visit>>

CheckoutSteps ==
  /\ CheckoutGoesOn \/ (tab = "checkout" /\ Pay)
  /\ UNCHANGED <<formVars, tryVars, viewVars, tab, visit>>

\* The token is asked for, or a write that was given up on is lost.
CallSteps ==
  /\ AskForAdminToken("tab") \/ LoseStray
  /\ UNCHANGED <<formVars, tryVars, checkoutVars, viewVars, tab, visit>>

\* The views, when none of the screens that write is up.
ReadSteps ==
  /\ "views" \in visit /\ tab = "view"
  /\ ViewSteps
  /\ UNCHANGED <<callVars, formVars, tryVars, checkoutVars, tab, visit>>

Next ==
  \/ Leave
  \/ \E t \in Screens : Open(t)
  \/ FormSteps \/ TrySteps \/ CheckoutSteps \/ CallSteps \/ ReadSteps

Spec == Init /\ [][Next]_vars

\* What ends something that is under way.
Answers ==
  /\ \/ /\ \/ LoadFails \/ ReplayAnswered \/ ResetAnswered
           \/ PostSection \/ SectionTaken \/ ApplyStops
        /\ UNCHANGED <<tryVars, checkoutVars>>
     \/ /\ PressAnswered \/ \E i \in Asks : LabAnswered(i)
        /\ UNCHANGED <<formVars, checkoutVars>>
     \/ /\ OrderAnswered \/ ScriptLoads \/ ScriptFails \/ OpenCheckout
           \/ NothingToOpen \/ ImportAnswered
        /\ UNCHANGED <<formVars, tryVars>>
     \/ LoseStray /\ UNCHANGED <<formVars, tryVars, checkoutVars>>
  /\ UNCHANGED <<viewVars, tab, visit>>

\* Every request of the page ends, by its answer or by its time limit, and so does
\* the loading of a script; what the page does with an answer it does.  Nobody has
\* to click, the customer has not to close Checkout, and no write has to succeed.
FairSpec == Spec /\ WF_vars(Answers)

-----------------------------------------------------------------------------
TypeOK ==
  /\ CallTypeOK /\ FormTypeOK /\ TryTypeOK /\ CheckoutTypeOK /\ ViewsTypeOK
  /\ tab \in visit \union {"view"} /\ visit \in Visits

Pressed ==
  \/ doing # "none" \/ pressed # "none" \/ waits
  \/ phase \in {"opening", "importing"}

\* A button that was pressed comes back, whatever the server does and whether or
\* not its screen is still there.  Only an open Checkout waits for a person.
ButtonsComeBack == Pressed ~> ~Pressed
=============================================================================
