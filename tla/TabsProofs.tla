------------------------------ MODULE TabsProofs ------------------------------
(***************************************************************************)
(* Proofs about Tabs, for any records, books, subjects, sections, edits of *)
(* others and questions in flight.                                         *)
(***************************************************************************)
EXTENDS Tabs, ApiCallProofs, ViewsProofs, WellFoundedInduction,
        SequenceTheorems

-----------------------------------------------------------------------------
(* The views. *)

\* A view that is not waiting has its answer or has failed; the queue a card opened
\* is searched for nothing.
ViewsInv ==
  /\ broken \in BOOLEAN
  /\ view \in Asking /\ "wanted" \notin loads => got = "wanted" \/ broken
  /\ drilled => search = "nothing"

\* A view that is mounted has asked for what it needs.
LEMMA MountKeeps ==
  ASSUME NEW v, Mount(v)
  PROVE  /\ broken' \in BOOLEAN
         /\ view' \in Asking => "wanted" \in loads'
  BY DEF Mount

\* Each step of a view.
LEMMA ViewStep == ViewsInv /\ ViewSteps => ViewsInv'
<1> SUFFICES ASSUME ViewsInv, ViewSteps PROVE ViewsInv'
  OBVIOUS
<1> USE DEF ViewsInv
<1>1. ASSUME NEW b \in [Records -> Entries], Refreshed(b) PROVE ViewsInv'
  BY <1>1 DEF Refreshed
<1>2. ASSUME NEW v, GoTo(v) PROVE ViewsInv'
  BY <1>2, MountKeeps DEF GoTo
<1>3. ASSUME NEW f \in Cards, Drill(f) PROVE ViewsInv'
  BY <1>3, MountKeeps DEF Drill
<1>4. ASSUME NEW q, SearchFor(q) PROVE ViewsInv'
  BY <1>4, MountKeeps DEF SearchFor
<1>5. ASSUME NEW f \in Filters, ChooseFilter(f) PROVE ViewsInv'
  BY <1>5 DEF ChooseFilter
<1>6. CASE OpenAudit
  BY <1>6, MountKeeps DEF OpenAudit
<1>7. CASE ViewAnswered
  BY <1>7 DEF ViewAnswered
<1>8. CASE ViewFails
  BY <1>8 DEF ViewFails
<1>9. CASE LateAnswer
  BY <1>9 DEF LateAnswer
<1> QED
  BY <1>1, <1>2, <1>3, <1>4, <1>5, <1>6, <1>7, <1>8, <1>9 DEF ViewSteps

\* No screen that writes touches what the views hold.
LEMMA ViewsKept == ViewsInv /\ [Next]_vars => ViewsInv'
<1> SUFFICES ASSUME ViewsInv, [Next]_vars PROVE ViewsInv'
  OBVIOUS
<1>1. CASE ReadSteps
  BY <1>1, ViewStep DEF ReadSteps
<1>2. CASE UNCHANGED viewVars
  BY <1>2 DEF viewVars, ViewsInv
<1> QED
  BY <1>1, <1>2 DEF Next, vars, Leave, Open, FormSteps, TrySteps, CheckoutSteps, CallSteps

\* The views are always as described.
LEMMA ViewsAlways == Spec => []ViewsInv
<1>1. Init => ViewsInv
  BY DEF Init, ViewsInit, ViewsInv, Asking
<1> QED
  BY <1>1, ViewsKept, PTL DEF Spec

\* A view that waits for nothing shows the answer to what it last asked, or that
\* there is none.
THEOREM LatestAnswer == Spec => []LatestAnswerIsShown
<1>1. ViewsInv => LatestAnswerIsShown
  BY DEF ViewsInv, LatestAnswerIsShown, MainCard, Asking
<1> QED
  BY <1>1, ViewsAlways, PTL

\* The cards for all records and for the recovered ones open every row they count.
THEOREM DrillShows == Spec => []DrillShowsTheCard
<1>1. ViewsInv => DrillShowsTheCard
  BY DEF ViewsInv, DrillShowsTheCard, Counted, Rows, Recovered
<1> QED
  BY <1>1, ViewsAlways, PTL

-----------------------------------------------------------------------------
(* The labs. *)

\* While nothing has crossed, one question at most is in flight, and it is the last.
LabInv ==
  /\ asks \in [Asks -> Subjects \union {"nothing"}]
  /\ dials \in Subjects \union {"nothing"}
  /\ ~crossed =>
       /\ \A i \in Asks : asks[i] # "nothing" => asks[i] = meant
       /\ \A i, j \in Asks : asks[i] # "nothing" /\ asks[j] # "nothing" => i = j
       /\ AtRest => shown = meant

\* A question that is asked when none is in flight is the only one.
LEMMA QuestionKeeps ==
  ASSUME LabInv, NEW x \in Subjects, Ask(x, x), dials' \in Subjects \union {"nothing"}
  PROVE  LabInv'
<1> USE LabAssumption DEF LabInv, Ask
<1>1. PICK i \in Asks :
        asks[i] = "nothing" /\ asks' = [asks EXCEPT ![i] = x]
  OBVIOUS
<1>2. asks' \in [Asks -> Subjects \union {"nothing"}] /\ asks'[i] = x /\ x # "nothing"
  BY <1>1
<1>3. ~AtRest'
  BY <1>2 DEF AtRest
<1>4. CASE AtRest
  <2>1. \A j \in Asks : asks'[j] # "nothing" => j = i /\ asks'[j] = x
    BY <1>1, <1>4 DEF AtRest
  <2> QED
    BY <1>2, <1>3, <2>1
<1>5. CASE ~AtRest
  BY <1>2, <1>5
<1> QED
  BY <1>4, <1>5

\* Every step of the page keeps the questions of the labs in order.
LEMMA LabStep == LabInv /\ [Next]_vars => LabInv'
<1> SUFFICES ASSUME LabInv, [Next]_vars PROVE LabInv'
  OBVIOUS
<1>1. ASSUME NEW d \in Subjects \union {"nothing"}, LabFresh(d) PROVE LabInv'
  BY <1>1 DEF LabInv, LabFresh, AtRest
<1>2. ASSUME NEW x \in Subjects, Turn(x) PROVE LabInv'
  BY <1>2 DEF LabInv, Turn, AtRest
<1>3. ASSUME NEW x \in Subjects, Preset(x) PROVE LabInv'
  BY <1>3, QuestionKeeps DEF Preset
<1>4. CASE AskNow
  BY <1>4, QuestionKeeps DEF AskNow, LabInv
<1>5. ASSUME NEW i \in Asks, LabAnswered(i) PROVE LabInv'
  <2>1. /\ asks' = [asks EXCEPT ![i] = "nothing"] /\ asks[i] # "nothing"
        /\ meant' = meant /\ dials' = dials
    BY <1>5 DEF LabAnswered
  <2>2. CASE crossed'
    BY <2>1, <2>2 DEF LabInv
  <2>3. CASE ~crossed'
    <3>1. ~crossed /\ shown' = asks[i] /\ asks[i] = meant
      BY <1>5, <2>3 DEF LabAnswered, LabInv
    <3> QED
      BY <2>1, <3>1 DEF LabInv, AtRest
  <2> QED
    BY <2>2, <2>3
<1>6. CASE UNCHANGED labVars
  BY <1>6 DEF LabInv, labVars, AtRest
<1>7. CASE Leave
  <2>1. LabFresh("nothing") \/ UNCHANGED labVars
    BY <1>7 DEF Leave, AllFresh, tryVars, labVars
  <2> QED
    BY <1>1, <1>6, <2>1
<1>8. ASSUME NEW t \in Screens, Open(t) PROVE LabInv'
  <2>1. \E d \in Subjects \union {"nothing"} : LabFresh(d)
    BY <1>8 DEF Open, AllFresh
  <2> QED
    BY <1>1, <2>1
<1>9. CASE TrySteps
  <2>1. CASE TryGoesOn
    <3>1. PressAnswered \/ ServeTry => UNCHANGED labVars
      BY DEF PressAnswered, ServeTry, tryVars, labVars
    <3> QED
      BY <1>5, <1>6, <2>1, <3>1 DEF TryGoesOn
  <2>2. CASE ClassifyInput
    <3>1. UNCHANGED labVars
      BY <2>2 DEF ClassifyInput, FillIn, Press
    <3> QED
      BY <1>6, <3>1
  <2>3. CASE LabInput
    BY <1>2, <1>3, <1>4, <2>3 DEF LabInput
  <2> QED
    BY <1>9, <2>1, <2>2, <2>3 DEF TrySteps
<1>10. CASE FormSteps \/ CheckoutSteps \/ CallSteps \/ ReadSteps \/ UNCHANGED vars
  <2>1. UNCHANGED labVars
    BY <1>10 DEF FormSteps, CheckoutSteps, CallSteps, ReadSteps, vars, tryVars, labVars
  <2> QED
    BY <1>6, <2>1
<1> QED
  BY <1>7, <1>8, <1>9, <1>10 DEF Next

\* The questions of the labs are always in order.
LEMMA LabAlways == Spec => []LabInv
<1>1. Init => LabInv
  BY DEF Init, TryInit, LabInv, AtRest
<1> QED
  BY <1>1, LabStep, PTL DEF Spec

\* At rest, and unless questions crossed or one failed, the answer on screen is about
\* what was last asked, whatever the dials were when it was.
THEOREM AnswersQuestion == Spec => []AnswersTheQuestion
<1>1. LabInv => AnswersTheQuestion
  BY DEF LabInv, AnswersTheQuestion
<1> QED
  BY <1>1, LabAlways, PTL

-----------------------------------------------------------------------------
(* The writes of the screens. *)

TabWrites ==
  [kind : {"replay"}, overrides : [Sections -> Values \union {"untyped"}]]
  \union [kind : {"set"}, section : Sections, config : Configs]
  \union [kind : {"reset", "import", "nothing"}]
  \union [kind : TryWrites, of : Subjects \union {"nothing"}]

Kind == call["tab"].what.kind
WriteUp == call["tab"].at # "idle"

\* What the tab is waiting for, by the step it takes.
LEMMA KindSent ==
  ASSUME CallInv(TabWrites), NEW w \in TabWrites, Send("tab", w)
  PROVE  ~WriteUp /\ WriteUp' /\ Kind' = w.kind /\ call'["tab"].what = w
  BY FormAssumption DEF CallInv, CallShape, Send, Kind, WriteUp

\* An answer, or giving up, ends the wait.
LEMMA KindOver ==
  ASSUME CallInv(TabWrites), GivesUp("tab") \/ \E r \in Replies : Returns("tab", r)
  PROVE  WriteUp /\ ~WriteUp' /\ Kind' = "nothing"
  BY FormAssumption DEF CallInv, CallShape, GivesUp, Returns, NoCall, Kind, WriteUp,
     InFlight

\* Everything else leaves the write as it is.
LEMMA KindStays ==
  ASSUME CallInv(TabWrites),
         \/ AskForAdminToken("tab") \/ LoseStray \/ UNCHANGED callVars
         \/ \E r \in Replies : Serve("tab", r) \/ \E x \in stray : ServeStray(x, r)
  PROVE  call'["tab"].what = call["tab"].what /\ Kind' = Kind /\ WriteUp' = WriteUp
<1> USE FormAssumption DEF CallInv, CallShape, Kind, WriteUp
<1>1. CASE AskForAdminToken("tab")
  BY <1>1 DEF AskForAdminToken
<1>2. ASSUME NEW r \in Replies, Serve("tab", r)
      PROVE  call'["tab"].what = call["tab"].what /\ Kind' = Kind /\ WriteUp' = WriteUp
  BY <1>2 DEF Serve
<1>3. CASE call' = call
  BY <1>3
<1> QED
  BY <1>1, <1>2, <1>3 DEF LoseStray, ServeStray, callVars

\* The kinds there are, and what comes with those the server works with.
LEMMA KindsThereAre ==
  ASSUME NEW w \in TabWrites
  PROVE  /\ w.kind \in {"replay", "set", "reset", "import", "nothing"} \union TryWrites
         /\ w.kind = "set" => w.section \in Sections /\ w.config \in Configs
         /\ w.kind \in TryWrites => w.of \in Subjects \union {"nothing"}
<1>1. CASE w \in [kind : {"set"}, section : Sections, config : Configs]
  BY <1>1 DEF TryWrites
<1>2. CASE w \in [kind : TryWrites, of : Subjects \union {"nothing"}]
  BY <1>2 DEF TryWrites
<1>3. CASE \/ w \in [kind : {"reset", "import", "nothing"}]
           \/ w \in [kind : {"replay"}, overrides : [Sections -> Values \union {"untyped"}]]
  BY <1>3 DEF TryWrites
<1> QED
  BY <1>1, <1>2, <1>3 DEF TabWrites

\* What is waited for, or was given up on, is a write of some screen.
LEMMA WhatIsUp ==
  ASSUME CallInv(TabWrites)
  PROVE  /\ call["tab"].what \in TabWrites
         /\ Kind \in {"replay", "set", "reset", "import", "nothing"} \union TryWrites
         /\ \A x \in stray : x.what \in TabWrites
<1>1. call["tab"].what \in TabWrites /\ \A x \in stray : x.what \in TabWrites
  BY FormAssumption DEF CallInv, CallShape
<1> QED
  BY <1>1, KindsThereAre DEF Kind

\* The server's verdicts on the writes of the form are replies.
LEMMA Verdicts ==
  ASSUME NEW w \in TabWrites, w.kind \in FormWrites, NEW with, NEW r \in FormVerdicts(w, with)
  PROVE  r \in Replies \ {"none"}
<1>1. CASE w.kind = "set"
  BY <1>1 DEF FormVerdicts, Answer, Replies
<1>2. CASE w.kind = "reset"
  BY <1>2 DEF FormVerdicts, Answer, Replies
<1>3. CASE w.kind = "replay"
  BY <1>3 DEF FormVerdicts, Answer, Replies
<1> QED
  BY <1>1, <1>2, <1>3 DEF FormWrites

\* A write that is done leaves rules behind.
LEMMA AfterIsRules ==
  ASSUME NEW w \in TabWrites, NEW r, live \in [Sections -> Configs]
  PROVE  After(w, r) \in [Sections -> Configs]
<1>1. Shipped \in [Sections -> Configs]
  BY DEF Shipped, Configs, Values
<1>2. CASE r = "done" /\ w.kind = "set"
  <2>1. [live EXCEPT ![w.section] = w.config] \in [Sections -> Configs]
    BY <1>2, KindsThereAre
  <2> QED
    BY <1>2, <2>1 DEF After
<1>3. CASE ~(r = "done" /\ w.kind = "set")
  BY <1>1, <1>3 DEF After
<1> QED
  BY <1>2, <1>3

-----------------------------------------------------------------------------
(* Who is under way. *)

TabShape ==
  /\ FormTypeOK /\ CheckoutTypeOK
  /\ form \in Subjects \union {"nothing"}
  /\ pressed \in TryWrites \union {"none"}
  /\ tab \in Screens \union {"view"}

\* One screen at a time has something under way, and it is the one on screen or was
\* left.
Owner ==
  /\ ~FormQuiet =>
       tab \in {"rules", "view"} /\ pressed = "none" /\ CheckoutQuiet
  /\ pressed # "none" => tab \in {"classify", "view"} /\ CheckoutQuiet
  /\ ~CheckoutQuiet => tab \in {"checkout", "view"}

\* The write that is waited for is that of what is under way.
Answerable ==
  /\ WriteUp <=> Kind # "nothing"
  /\ Kind \in TryWrites <=> pressed # "none"
  /\ Kind = "replay" <=> doing = "replay"
  /\ Kind = "set" => doing = "apply" /\ loading = "no"
  /\ Kind = "reset" <=> doing = "reset" /\ loading = "no"
  /\ Kind = "import" <=> phase = "importing"
  /\ loading # "no" => doing # "replay" /\ (doing = "none" => snap = Unloaded)

\* The places of the Checkout lab.
Checkout ==
  /\ phase = "opening" <=> order # "none"
  /\ phase = "opening" => script # "absent" /\ window = "closed"
  /\ phase = "paying" <=> window = "open"
  /\ window = "open" => ~failed
  /\ window = "closing" => failed

TabInv == TabShape /\ Owner /\ Answerable /\ Checkout

\* The steps of the rules form.
LEMMA FormKeepsPlaces ==
  ASSUME TabInv, CallInv(TabWrites), FormSteps
  PROVE  TabInv' /\ CallInv(TabWrites)'
<1> USE FormAssumption
<1>a. UNCHANGED <<tryVars, checkoutVars, tab, visit>>
  BY DEF FormSteps
<1>b. "tab" \in Callers /\ NoCall.what \in TabWrites
  BY DEF NoCall, TabWrites
<1>c. SUFFICES /\ CallInv(TabWrites)'
               /\ FormTypeOK' /\ Owner' /\ Answerable'
  BY <1>a DEF TabInv, TabShape, Checkout, CheckoutTypeOK, tryVars, checkoutVars
<1> DEFINE Good == FormTypeOK' /\ Owner' /\ Answerable'
           Still == call'["tab"].what = call["tab"].what /\ Kind' = Kind /\ WriteUp' = WriteUp
<1>d. CheckoutQuiet' = CheckoutQuiet /\ pressed' = pressed /\ tab' = tab /\ phase' = phase
  BY <1>a DEF CheckoutQuiet, Busy, tryVars, checkoutVars
<1> USE DEF TabInv, TabShape, Owner, Answerable, FormQuiet
<1> HIDE FormAssumption
<1>1. CASE LoadReads
  <2>1. CallInv(TabWrites)' /\ Still
    BY <1>1, UnchangedKeeps, KindStays DEF LoadReads
  <2> QED
    BY <1>1, <1>d, <2>1 DEF LoadReads, FormTypeOK
<1>2. CASE LoadDone
  <2>1. CallInv(TabWrites)' /\ Still
    BY <1>2, UnchangedKeeps, KindStays DEF LoadDone
  <2>2. FormTypeOK'
    BY <1>2 DEF LoadDone, FormTypeOK, Unloaded, Untyped, Configs
  <2> QED
    BY <1>2, <1>d, <2>1, <2>2 DEF LoadDone
<1>3. CASE LoadFails
  <2>1. CallInv(TabWrites)' /\ Still
    BY <1>3, UnchangedKeeps, KindStays DEF LoadFails
  <2>2. FormTypeOK'
    BY <1>3 DEF LoadFails, FormTypeOK, Unloaded, Untyped, Configs
  <2> QED
    BY <1>3, <1>d, <2>1, <2>2 DEF LoadFails
<1>4. CASE ReplayAnswered
  <2>1. GivesUp("tab") \/ \E r \in Replies : Returns("tab", r)
    BY <1>4 DEF ReplayAnswered, Replies
  <2>2. CallInv(TabWrites)' /\ WriteUp /\ ~WriteUp' /\ Kind' = "nothing"
    BY <1>b, <2>1, GivesUpKeeps, ReturnsKeeps, KindOver
  <2> QED
    BY <1>4, <1>d, <2>2 DEF ReplayAnswered, FormTypeOK, TryWrites
<1>5. CASE PostSection
  <2>1. PICK t \in Sections :
          /\ doing = "apply" /\ loading = "no" /\ IsNext(t)
          /\ Send("tab", [kind |-> "set", section |-> t,
                            config |-> [snap[t] EXCEPT !.tuned = todo[t]]])
          /\ sent' = t
          /\ UNCHANGED <<live, others, snap, draft, doing, todo, loading, fetched,
                         excused>>
    BY <1>5 DEF PostSection
  <2>2. [snap[t] EXCEPT !.tuned = todo[t]] \in Configs
    BY <2>1 DEF FormTypeOK, Configs, IsNext, Typed
  <2> DEFINE w == [kind |-> "set", section |-> t,
                   config |-> [snap[t] EXCEPT !.tuned = todo[t]]]
  <2>3. w \in TabWrites /\ w.kind = "set"
    BY <2>2 DEF TabWrites
  <2>4. Send("tab", w)
    BY <2>1
  <2> HIDE DEF w
  <2>5. CallInv(TabWrites)' /\ ~WriteUp /\ WriteUp' /\ Kind' = "set"
    BY <1>b, <2>3, <2>4, SendKeeps, KindSent
  <2>6. FormTypeOK'
    BY <2>1 DEF FormTypeOK
  <2> QED
    BY <1>d, <2>1, <2>5, <2>6 DEF TryWrites
<1>6. CASE SectionTaken
  <2>1. \E r \in Replies : Returns("tab", r)
    BY <1>6 DEF SectionTaken, Replies
  <2>2. CallInv(TabWrites)' /\ WriteUp /\ ~WriteUp' /\ Kind' = "nothing"
    BY <1>b, <2>1, ReturnsKeeps, KindOver
  <2>3. FormTypeOK'
    BY <1>6 DEF SectionTaken, FormTypeOK, Untyped
  <2>4. loading = "no" /\ phase # "importing" /\ Kind \notin TryWrites
    BY <1>6, <2>2, WhatIsUp DEF SectionTaken, CheckoutQuiet, Busy
  <2> QED
    BY <1>6, <1>d, <2>2, <2>3, <2>4 DEF SectionTaken, TryWrites
<1>7. CASE ApplyStops
  <2>1. GivesUp("tab") \/ \E r \in Replies : Returns("tab", r)
    BY <1>7 DEF ApplyStops, Replies
  <2>2. CallInv(TabWrites)' /\ WriteUp /\ ~WriteUp' /\ Kind' = "nothing"
    BY <1>b, <2>1, GivesUpKeeps, ReturnsKeeps, KindOver
  <2>3. FormTypeOK'
    BY <1>7 DEF ApplyStops, FormTypeOK, Untyped
  <2>4. loading = "no" /\ phase # "importing" /\ Kind \notin TryWrites
    BY <1>7, <2>2, WhatIsUp DEF ApplyStops, CheckoutQuiet, Busy
  <2> QED
    BY <1>7, <1>d, <2>2, <2>3, <2>4 DEF ApplyStops, TryWrites
<1>8. CASE ResetAnswered
  <2>1. GivesUp("tab") \/ \E r \in Replies : Returns("tab", r)
    BY <1>8 DEF ResetAnswered, Replies
  <2>2. CallInv(TabWrites)' /\ WriteUp /\ ~WriteUp' /\ Kind' = "nothing"
    BY <1>b, <2>1, GivesUpKeeps, ReturnsKeeps, KindOver
  <2>3. FormTypeOK'
    BY <1>8 DEF ResetAnswered, FormTypeOK, Untyped
  <2>4. loading = "no" /\ phase # "importing" /\ Kind \notin TryWrites
    BY <1>8, <2>2, WhatIsUp DEF ResetAnswered, CheckoutQuiet, Busy
  <2> QED
    BY <1>8, <1>d, <2>2, <2>3, <2>4 DEF ResetAnswered, TryWrites
<1>9. CASE ServeForm
  <2>1. \E r \in Replies \ {"none"} :
          Serve("tab", r) \/ \E x \in stray : ServeStray(x, r)
    BY <1>9, WhatIsUp, Verdicts DEF ServeForm
  <2>2. CallInv(TabWrites)' /\ Still
    BY <1>b, <2>1, ServeKeeps, ServeStrayKeeps, KindStays
  <2>3. live' \in [Sections -> Configs]
    BY <1>9, WhatIsUp, AfterIsRules DEF ServeForm, FormTypeOK
  <2> QED
    BY <1>9, <1>d, <2>2, <2>3 DEF ServeForm, FormTypeOK
<1>10. CASE OthersEdit
  <2>1. CallInv(TabWrites)' /\ Still
    BY <1>10, UnchangedKeeps, KindStays DEF OthersEdit
  <2>2. FormTypeOK'
    <3>1. Shipped \in [Sections -> Configs]
      BY DEF Shipped, Configs, Values
    <3>2. ASSUME NEW t \in Sections
          PROVE  [live EXCEPT ![t].rest = "foreign"] \in [Sections -> Configs]
      BY DEF FormTypeOK, Configs
    <3>3. live' \in [Sections -> Configs]
      BY <1>10, <3>1, <3>2 DEF OthersEdit
    <3>4. others' \in 0 .. MaxOthers
      BY <1>10, FormAssumption DEF OthersEdit, FormTypeOK
    <3> QED
      BY <1>10, <3>3, <3>4 DEF OthersEdit, FormTypeOK
  <2> QED
    BY <1>10, <1>d, <2>1, <2>2 DEF OthersEdit
<1>11. CASE tab = "rules" /\ FormInput
  <2>0. pressed = "none" /\ CheckoutQuiet
    BY <1>11
  <2>1. ASSUME NEW t \in Sections, NEW v \in {"typed", "unsound", "untyped"}, Type(t, v)
        PROVE  CallInv(TabWrites)' /\ Good
    <3>1. CallInv(TabWrites)' /\ Still
      BY <2>1, UnchangedKeeps, KindStays DEF Type
    <3>2. FormTypeOK'
      BY <2>1 DEF Type, FormTypeOK, Values
    <3> QED
      BY <2>1, <1>d, <3>1, <3>2 DEF Type
  <2>2. CASE ClickReplay
    <3>1. [kind |-> "replay", overrides |-> Overrides] \in TabWrites
      BY DEF TabWrites, Overrides, FormTypeOK
    <3>2. CallInv(TabWrites)' /\ ~WriteUp /\ WriteUp' /\ Kind' = "replay"
      BY <1>b, <2>2, <3>1, SendKeeps, KindSent DEF ClickReplay
    <3> QED
      BY <1>11, <2>0, <2>2, <1>d, <3>2 DEF ClickReplay, Idle, FormTypeOK, TryWrites
  <2>3. CASE ClickApply
    <3>1. CallInv(TabWrites)' /\ Still
      BY <2>3, UnchangedKeeps, KindStays DEF ClickApply
    <3>2. FormTypeOK'
      BY <2>3 DEF ClickApply, FormTypeOK, Overrides
    <3> QED
      BY <1>11, <2>0, <2>3, <1>d, <3>1, <3>2 DEF ClickApply, Idle
  <2>4. CASE ClickReset
    <3>1. [kind |-> "reset"] \in TabWrites
      BY DEF TabWrites
    <3>2. CallInv(TabWrites)' /\ ~WriteUp /\ WriteUp' /\ Kind' = "reset"
      BY <1>b, <2>4, <3>1, SendKeeps, KindSent DEF ClickReset
    <3> QED
      BY <1>11, <2>0, <2>4, <1>d, <3>2 DEF ClickReset, Idle, FormTypeOK, TryWrites
  <2> QED
    BY <1>11, <2>1, <2>2, <2>3, <2>4 DEF FormInput
<1> QED
  BY <1>1, <1>2, <1>3, <1>4, <1>5, <1>6, <1>7, <1>8, <1>9, <1>10, <1>11
     DEF FormSteps, FormGoesOn

\* The verdicts on the submissions are replies.
LEMMA TryVerdictsAreReplies ==
  ASSUME NEW w, NEW r \in TryVerdicts(w)
  PROVE  r \in Replies \ {"none"}
  BY DEF TryVerdicts, Replies

\* The steps of the classify form and of the labs.
LEMMA TryKeepsPlaces ==
  ASSUME TabInv, CallInv(TabWrites), TrySteps
  PROVE  TabInv' /\ CallInv(TabWrites)'
<1>a. UNCHANGED <<formVars, checkoutVars, tab, visit>>
  BY DEF TrySteps
<1>b. "tab" \in Callers /\ NoCall.what \in TabWrites
  BY FormAssumption DEF NoCall, TabWrites
<1> DEFINE Still == call'["tab"].what = call["tab"].what /\ Kind' = Kind /\ WriteUp' = WriteUp
<1>c. /\ FormTypeOK' /\ CheckoutTypeOK' /\ Checkout' /\ tab' = tab
      /\ FormQuiet' = FormQuiet /\ CheckoutQuiet' = CheckoutQuiet
      /\ doing' = doing /\ loading' = loading /\ snap' = snap /\ phase' = phase
  BY <1>a DEF TabInv, TabShape, FormTypeOK, CheckoutTypeOK, Checkout, FormQuiet,
     CheckoutQuiet, Busy, formVars, checkoutVars
<1>d. SUFFICES /\ CallInv(TabWrites)' /\ Answerable'
               /\ form' \in Subjects \union {"nothing"}
               /\ pressed' \in TryWrites \union {"none"}
               /\ pressed' # "none" => tab \in {"classify", "view"} /\ CheckoutQuiet
               /\ ~FormQuiet => pressed' = "none"
  BY <1>c DEF TabInv, TabShape, Owner
<1> USE DEF TabInv, TabShape, Owner, Answerable
<1>1. ASSUME UNCHANGED callVars, form' \in Subjects \union {"nothing"}, pressed' = pressed
      PROVE  /\ CallInv(TabWrites)' /\ Answerable'
             /\ form' \in Subjects \union {"nothing"}
             /\ pressed' \in TryWrites \union {"none"}
             /\ pressed' # "none" => tab \in {"classify", "view"} /\ CheckoutQuiet
             /\ ~FormQuiet => pressed' = "none"
  <2>1. CallInv(TabWrites)' /\ Still
    BY <1>1, UnchangedKeeps, KindStays
  <2> QED
    BY <1>1, <1>c, <2>1
<1>2. CASE PressAnswered
  <2>1. GivesUp("tab") \/ \E r \in Replies : Returns("tab", r)
    BY <1>2 DEF PressAnswered, Replies
  <2>2. CallInv(TabWrites)' /\ WriteUp /\ ~WriteUp' /\ Kind' = "nothing"
    BY <1>b, <2>1, GivesUpKeeps, ReturnsKeeps, KindOver
  <2>3. /\ Kind \in TryWrites /\ doing = "none" /\ loading = "no" /\ phase # "importing"
        /\ form' = form /\ pressed' = "none"
    BY <1>2 DEF PressAnswered, FormQuiet, CheckoutQuiet, Busy
  <2> QED
    BY <1>c, <2>2, <2>3 DEF TryWrites
<1>3. ASSUME NEW i \in Asks, LabAnswered(i)
      PROVE UNCHANGED callVars /\ form' = form /\ pressed' = pressed
  BY <1>3 DEF LabAnswered, classifyVars
<1>4. CASE ServeTry
  <2>1. \E r \in Replies \ {"none"} :
          Serve("tab", r) \/ \E x \in stray : ServeStray(x, r)
    BY <1>4, TryVerdictsAreReplies DEF ServeTry
  <2>2. CallInv(TabWrites)' /\ Still
    BY <1>b, <2>1, ServeKeeps, ServeStrayKeeps, KindStays
  <2>3. form' = form /\ pressed' = pressed
    BY <1>4 DEF ServeTry, tryVars
  <2> QED
    BY <1>c, <2>2, <2>3
<1>5. ASSUME NEW x \in Subjects, FillIn(x)
      PROVE UNCHANGED callVars /\ form' = x /\ pressed' = pressed
  BY <1>5 DEF FillIn
<1>6. ASSUME tab = "classify", NEW b \in {"preview", "commit", "wipe"}, Press(b)
      PROVE  /\ CallInv(TabWrites)' /\ Answerable'
             /\ form' \in Subjects \union {"nothing"}
             /\ pressed' \in TryWrites \union {"none"}
             /\ pressed' # "none" => tab \in {"classify", "view"} /\ CheckoutQuiet
             /\ ~FormQuiet => pressed' = "none"
  <2>1. [kind |-> b, of |-> form] \in TabWrites
    BY DEF TabWrites, TryWrites
  <2>2. CallInv(TabWrites)' /\ ~WriteUp /\ WriteUp' /\ Kind' = b
    BY <1>b, <1>6, <2>1, SendKeeps, KindSent DEF Press
  <2>3. CheckoutQuiet /\ FormQuiet /\ phase # "importing"
    BY <1>6 DEF CheckoutQuiet, Busy
  <2> QED
    BY <1>6, <1>c, <2>2, <2>3 DEF Press, TryWrites, FormQuiet
<1>7. ASSUME LabInput PROVE UNCHANGED callVars /\ form' = form /\ pressed' = pressed
  BY <1>7 DEF LabInput, Turn, Preset, AskNow, classifyVars
<1> QED
  BY <1>1, <1>2, <1>3, <1>4, <1>5, <1>6, <1>7 DEF TrySteps, TryGoesOn, ClassifyInput

\* The steps of the Checkout lab.
LEMMA CheckoutKeepsPlaces ==
  ASSUME TabInv, CallInv(TabWrites), CheckoutSteps
  PROVE  TabInv' /\ CallInv(TabWrites)'
<1>a. UNCHANGED <<formVars, tryVars, tab, visit>>
  BY DEF CheckoutSteps
<1>b. "tab" \in Callers /\ NoCall.what \in TabWrites
  BY FormAssumption DEF NoCall, TabWrites
<1> DEFINE Still == call'["tab"].what = call["tab"].what /\ Kind' = Kind /\ WriteUp' = WriteUp
<1>c. /\ FormTypeOK' /\ form' = form /\ pressed' = pressed /\ tab' = tab
      /\ FormQuiet' = FormQuiet
      /\ doing' = doing /\ loading' = loading /\ snap' = snap
  BY <1>a DEF TabInv, TabShape, FormTypeOK, FormQuiet, formVars, tryVars
<1>d. SUFFICES /\ CallInv(TabWrites)' /\ Answerable' /\ CheckoutTypeOK' /\ Checkout'
               /\ ~CheckoutQuiet' => ~CheckoutQuiet \/ tab = "checkout"
  BY <1>c DEF TabInv, TabShape, Owner
<1> USE DEF TabInv, TabShape, Owner, Answerable, CheckoutTypeOK, Checkout, CheckoutQuiet, Busy
<1>1. ASSUME UNCHANGED callVars, phase' = "importing" <=> phase = "importing"
      PROVE  CallInv(TabWrites)' /\ Answerable'
  <2>1. CallInv(TabWrites)' /\ Still
    BY <1>1, UnchangedKeeps, KindStays
  <2> QED
    BY <1>1, <1>c, <2>1
<1>2. CASE OrderAnswered
  BY <1>1, <1>2 DEF OrderAnswered
<1>3. CASE ScriptLoads
  BY <1>1, <1>3 DEF ScriptLoads
<1>4. CASE ScriptFails
  BY <1>1, <1>4 DEF ScriptFails
<1>5. CASE OpenCheckout
  BY <1>1, <1>5 DEF OpenCheckout
<1>6. CASE PaymentSucceeds
  BY <1>1, <1>6 DEF PaymentSucceeds
<1>7. ASSUME NEW i \in BOOLEAN, PaymentFails(i)
      PROVE  /\ CallInv(TabWrites)' /\ Answerable' /\ CheckoutTypeOK' /\ Checkout'
             /\ ~CheckoutQuiet' => ~CheckoutQuiet
  <2>1. CASE i /\ ~failed
    <3>1. [kind |-> "import"] \in TabWrites
      BY DEF TabWrites
    <3>2. CallInv(TabWrites)' /\ ~WriteUp /\ WriteUp' /\ Kind' = "import"
      BY <1>b, <1>7, <2>1, <3>1, SendKeeps, KindSent DEF PaymentFails
    <3>3. FormQuiet /\ pressed = "none" /\ window = "open"
      BY <1>7, <2>1 DEF PaymentFails
    <3> QED
      BY <1>7, <1>c, <2>1, <3>2, <3>3 DEF PaymentFails, FormQuiet, TryWrites
  <2>2. CASE ~(i /\ ~failed)
    BY <1>1, <1>7, <2>2 DEF PaymentFails
  <2> QED
    BY <2>1, <2>2
<1>8. CASE Dismissed
  BY <1>1, <1>8 DEF Dismissed
<1>9. CASE ImportAnswered
  <2>1. GivesUp("tab") \/ \E r \in Replies : Returns("tab", r)
    BY <1>9 DEF ImportAnswered, Replies
  <2>2. CallInv(TabWrites)' /\ WriteUp /\ ~WriteUp' /\ Kind' = "nothing"
    BY <1>b, <2>1, GivesUpKeeps, ReturnsKeeps, KindOver
  <2>3. FormQuiet /\ pressed = "none" /\ phase' \in {"done", "idle"}
    BY <1>9 DEF ImportAnswered
  <2> QED
    BY <1>9, <1>c, <2>2, <2>3 DEF ImportAnswered, FormQuiet, TryWrites
<1>10. CASE ServeImport
  <2>1. \E r \in Replies \ {"none"} :
          Serve("tab", r) \/ \E x \in stray : ServeStray(x, r)
    BY <1>10 DEF ServeImport, Replies
  <2>2. CallInv(TabWrites)' /\ Still
    BY <1>b, <2>1, ServeKeeps, ServeStrayKeeps, KindStays
  <2> QED
    BY <1>10, <1>c, <2>2 DEF ServeImport, checkoutVars
<1>11. CASE tab = "checkout" /\ Pay
  BY <1>1, <1>11 DEF Pay
<1>12. CASE NothingToOpen
  BY <1>1, <1>12 DEF NothingToOpen
<1> QED
  BY <1>2, <1>3, <1>4, <1>5, <1>6, <1>7, <1>8, <1>9, <1>10, <1>11, <1>12
     DEF CheckoutSteps, CheckoutGoesOn

\* The rules as shipped, and a form that has loaded or typed nothing.
LEMMA FormConstants ==
  /\ Shipped \in [Sections -> Configs] /\ Unloaded \in [Sections -> Configs]
  /\ Untyped \in [Sections -> Values \union {"untyped"}]
  BY DEF Shipped, Unloaded, Untyped, Configs, Values

\* A screen that is mounted or taken down, when nothing is under way, has nothing
\* under way.
LEMMA FreshKeeps ==
  ASSUME TabInv, CallInv(TabWrites), UNCHANGED callVars, Quiet,
         NEW l \in {"asked", "no"}, NEW d, AllFresh(l, d),
         tab' \in Screens \union {"view"}, l = "asked" => tab' = "rules"
  PROVE  TabInv' /\ CallInv(TabWrites)'
<1>1. CallInv(TabWrites)' /\ Kind' = Kind /\ WriteUp' = WriteUp
  BY UnchangedKeeps, KindStays
<1>2. Kind = "nothing"
  <2>1. ~WriteUp
    BY WhatIsUp, FormAssumption
       DEF Quiet, WriteUp, InFlight, CallInv, CallShape
  <2> QED
    BY <2>1 DEF TabInv, Answerable
<1>3. /\ doing' = "none" /\ loading' = l /\ snap' = Unloaded /\ pressed' = "none"
      /\ form' = "nothing" /\ phase' = "idle" /\ order' = "none" /\ window' = "closed"
      /\ failed' = FALSE /\ script' = script
  BY DEF AllFresh, FormFresh, ClassifyFresh, CheckoutFresh
<1>4. FormTypeOK'
  <2>1. /\ live' = live /\ others' = others /\ snap' = Unloaded /\ fetched' = Unloaded
        /\ draft' = Untyped /\ todo' = Untyped /\ sent' = 0 /\ excused' = FALSE
    BY DEF AllFresh, FormFresh
  <2> QED
    BY <1>3, <2>1, FormConstants DEF TabInv, TabShape, FormTypeOK
<1>5. TabShape' /\ Checkout'
  BY <1>3, <1>4 DEF TabInv, TabShape, CheckoutTypeOK, Checkout
<1>6. Owner'
  BY <1>3 DEF Owner, FormQuiet, CheckoutQuiet, Busy
<1>7. Answerable'
  BY <1>1, <1>2, <1>3 DEF TabInv, Answerable, TryWrites
<1> QED
  BY <1>1, <1>5, <1>6, <1>7 DEF TabInv

\* Every step of the page keeps the screens apart and their writes answerable.
LEMMA PlacesKept == TabInv /\ CallInv(TabWrites) /\ [Next]_vars => (TabInv /\ CallInv(TabWrites))'
<1> SUFFICES ASSUME TabInv, CallInv(TabWrites), [Next]_vars
             PROVE  TabInv' /\ CallInv(TabWrites)'
  OBVIOUS
<1>1. ASSUME CallInv(TabWrites)', Kind' = Kind, WriteUp' = WriteUp,
             UNCHANGED <<formVars, form, pressed, checkoutVars>>,
             tab' = tab \/ (tab' = "view" /\ tab \in Screens)
      PROVE  TabInv' /\ CallInv(TabWrites)'
  BY <1>1 DEF TabInv, TabShape, Owner, Answerable, Checkout, FormTypeOK, CheckoutTypeOK,
     FormQuiet, CheckoutQuiet, Busy, formVars, checkoutVars
<1>2. CASE CallSteps
  <2>1. CallInv(TabWrites)' /\ Kind' = Kind /\ WriteUp' = WriteUp
    BY <1>2, FormAssumption, AskKeeps, LoseStrayKeeps, KindStays DEF CallSteps
  <2> QED
    BY <1>1, <1>2, <2>1 DEF CallSteps, tryVars
<1>3. CASE ReadSteps \/ UNCHANGED vars
  <2>1. UNCHANGED <<callVars, formVars, tryVars, checkoutVars, tab>>
    BY <1>3 DEF ReadSteps, vars
  <2>2. CallInv(TabWrites)' /\ Kind' = Kind /\ WriteUp' = WriteUp
    BY <2>1, UnchangedKeeps, KindStays
  <2> QED
    BY <1>1, <2>1, <2>2 DEF tryVars
<1>4. CASE Leave
  <2>1. CASE Quiet
    BY <1>4, <2>1, FreshKeeps DEF Leave
  <2>2. CASE ~Quiet
    <3>1. CallInv(TabWrites)' /\ Kind' = Kind /\ WriteUp' = WriteUp
      BY <1>4, UnchangedKeeps, KindStays DEF Leave
    <3> QED
      BY <1>1, <1>4, <2>2, <3>1 DEF Leave, tryVars, TabInv, TabShape
  <2> QED
    BY <2>1, <2>2
<1>5. ASSUME NEW t \in Screens, Open(t) PROVE TabInv' /\ CallInv(TabWrites)'
  <2>1. PICK d : AllFresh(IF t = "rules" THEN "asked" ELSE "no", d)
    BY <1>5 DEF Open
  <2> QED
    BY <1>5, <2>1, FreshKeeps DEF Open
<1> QED
  BY <1>2, <1>3, <1>4, <1>5, FormKeepsPlaces, TryKeepsPlaces, CheckoutKeepsPlaces DEF Next

\* One screen at a time has something under way, the write that is waited for is its
\* own, and the server's record of each write agrees with what its screen was told.
THEOREM Inductive == Spec => [](TabInv /\ CallInv(TabWrites))
<1>1. Init => CallInv(TabWrites)
  BY FormAssumption
     DEF Init, CallInit, NoCall, CallInv, CallShape, OnceEach, InFlight, Tokens, Replies,
         TabWrites
<1>2. Init => TabInv
  <2> SUFFICES ASSUME Init PROVE TabInv
    OBVIOUS
  <2>1. FormTypeOK
    <3>1. /\ live = Shipped /\ others = 0 /\ snap = Unloaded /\ fetched = Unloaded
          /\ draft = Untyped /\ todo = Untyped /\ sent = 0 /\ excused = FALSE
          /\ doing = "none" /\ loading = "no"
      BY DEF Init, FormInit
    <3>2. 0 \in 0 .. MaxOthers
      BY FormAssumption
    <3>4. excused \in BOOLEAN
      BY <3>1
    <3>3. {live, snap, fetched} \subseteq [Sections -> Configs]
      BY <3>1, FormConstants
    <3> QED
      BY <3>1, <3>2, <3>3, <3>4, FormConstants DEF FormTypeOK
  <2>2. TabShape /\ Checkout
    BY <2>1 DEF Init, TryInit, CheckoutInit, TabShape, CheckoutTypeOK, Checkout
  <2>3. Owner
    BY DEF Init, FormInit, TryInit, CheckoutInit, Owner, FormQuiet, CheckoutQuiet, Busy
  <2>4. WriteUp = FALSE /\ Kind = "nothing"
    BY FormAssumption DEF Init, CallInit, NoCall, WriteUp, Kind
  <2>5. Answerable
    BY <2>4 DEF Init, FormInit, TryInit, CheckoutInit, Answerable, TryWrites
  <2> QED
    BY <2>2, <2>3, <2>5 DEF TabInv
<1> QED
  BY <1>1, <1>2, PlacesKept, PTL DEF Spec

\* What the Checkout lab says it is doing is being done: the script is there or being
\* loaded and the order asked for, the window is open, the import is under way.
THEOREM CheckoutPhase == Spec => []PhaseIsReal
<1>1. TabInv /\ CallInv(TabWrites) => PhaseIsReal
  BY DEF TabInv, TabShape, Answerable, Checkout, CheckoutTypeOK, PhaseIsReal,
     ImportInFlight, Kind
<1> QED
  BY <1>1, Inductive, PTL

\* A click on any screen is done at most once by the server.
THEOREM EachWriteOnce == Spec => []WriteAtMostOnce
<1>1. TabInv /\ CallInv(TabWrites) => WriteAtMostOnce
  BY DEF CallInv, OnceEach, WriteAtMostOnce
<1> QED
  BY <1>1, Inductive, PTL

-----------------------------------------------------------------------------
(* What the form knows of the rules. *)

Plain(rules) == \A s \in Sections : rules[s].rest = "shipped"
PlainWrite(w) == w.kind = "set" => w.config.rest = "shipped"

\* As long as nobody else edits, no field that the form does not offer is changed,
\* on the server, in the form or in a write between them.
AllPlain ==
  others = 0 =>
    /\ Plain(live)
    /\ snap = Unloaded \/ Plain(snap)
    /\ loading = "read" => Plain(fetched)
    /\ PlainWrite(call["tab"].what)
    /\ \A x \in stray : PlainWrite(x.what)

\* Unless it is excused, the form has the rules in force: between actions, while a
\* replay runs, and in an apply or a reset of which nothing was taken.
UpToDate ==
  ~excused =>
    /\ loading = "read" => fetched = live
    /\ loading = "no" /\ doing \in {"none", "replay"} => snap \in {Unloaded, live}
    /\ loading = "no" /\ doing = "apply" /\ sent = 0 => snap = live
    /\ Kind = "set" /\ call["tab"].reply # "done" /\ (\A t \in Typed(todo) : ~(t < sent))
         => snap = live
    /\ Kind = "reset" /\ call["tab"].reply # "done" => snap = live

InTurn ==
  /\ doing = "apply" => snap # Unloaded
  /\ doing = "apply" /\ sent # 0 => sent \in Typed(todo)
  /\ doing # "apply" => sent = 0
  /\ Kind = "set" => sent # 0

FormInv == AllPlain /\ UpToDate /\ InTurn

\* An apply sends the section it is at, and, unless it is excused, what it has been
\* through is in force; it asks for the rules when it has been through everything.
Saved ==
  /\ Kind = "set" =>
       call["tab"].what.section = sent /\ call["tab"].what.config.tuned = todo[sent]
  /\ doing = "apply" /\ loading = "asked" => \A s \in Typed(todo) : s <= sent
  /\ doing = "apply" /\ loading # "read" /\ ~excused =>
       \A s \in Typed(todo) :
         s < sent \/ (s = sent /\ (Kind = "set" => call["tab"].reply = "done"))
           => live[s].tuned = todo[s]

\* Where the writes in stray come from.
LEMMA StraysWere ==
  ASSUME CallInv(TabWrites),
         \/ AskForAdminToken("tab") \/ LoseStray \/ UNCHANGED callVars \/ GivesUp("tab")
         \/ \E w \in TabWrites : Send("tab", w)
         \/ \E r \in Replies :
              \/ Serve("tab", r) \/ Returns("tab", r)
              \/ \E x \in stray : ServeStray(x, r)
  PROVE  \A x \in stray' :
           x.what = call["tab"].what \/ \E y \in stray : x.what = y.what
<1>1. CASE \E w \in TabWrites : Send("tab", w)
  <2> SUFFICES ASSUME NEW x \in stray' PROVE \E y \in stray : x.what = y.what
    OBVIOUS
  <2>1. PICK y \in stray : x = [y EXCEPT !.mine = @ /\ y.by # "tab"]
    BY <1>1 DEF Send
  <2>2. x.what = y.what
    BY <2>1 DEF CallInv, CallShape
  <2> QED
    BY <2>2
<1>2. CASE GivesUp("tab")
  BY <1>2 DEF GivesUp, Abandoned
<1>3. CASE stray' \subseteq stray
  BY <1>3
<1> QED
  BY <1>1, <1>2, <1>3 DEF AskForAdminToken, LoseStray, callVars, Serve, Returns, ServeStray

\* The writes stay plain, whatever becomes of them.
LEMMA WritesStayPlain ==
  ASSUME PlainWrite(call["tab"].what), \A x \in stray : PlainWrite(x.what),
         PlainWrite(call'["tab"].what),
         \A x \in stray' :
           x.what = call["tab"].what \/ \E y \in stray : x.what = y.what
  PROVE  \A x \in stray' : PlainWrite(x.what)
<1> SUFFICES ASSUME NEW x \in stray' PROVE PlainWrite(x.what)
  OBVIOUS
<1>1. CASE x.what = call["tab"].what
  BY <1>1
<1>2. ASSUME NEW y \in stray, x.what = y.what PROVE PlainWrite(x.what)
  BY <1>2
<1> QED
  BY <1>1, <1>2

\* An answer, or giving up, leaves nothing up; what is left on its way was up.
LEMMA OverKeepsPlain ==
  ASSUME TabInv, CallInv(TabWrites), AllPlain, others' = others, others = 0,
         GivesUp("tab") \/ \E r \in Replies : Returns("tab", r)
  PROVE  PlainWrite(call'["tab"].what) /\ \A x \in stray' : PlainWrite(x.what)
<1>1. call'["tab"].what.kind = "nothing"
  BY KindOver DEF Kind
<1>2. PlainWrite(call'["tab"].what)
  BY <1>1 DEF PlainWrite
<1> QED
  BY <1>2, StraysWere, WritesStayPlain DEF AllPlain

\* Each step of the form keeps what it knows of the rules true.
LEMMA FormKnows ==
  ASSUME TabInv, CallInv(TabWrites), FormInv, FormSteps
  PROVE  FormInv'
<1> USE FormAssumption DEF TabInv, TabShape, FormInv
<1>f. FormTypeOK /\ Answerable
  OBVIOUS
<1>1. CASE LoadReads
  <2>1. UNCHANGED <<callVars, live, others, snap, draft, doing, todo, sent>>
        /\ loading = "asked" /\ loading' = "read" /\ fetched' = live
    BY <1>1 DEF LoadReads
  <2>2. Kind \notin {"set", "reset"} /\ Kind' = Kind /\ stray' = stray /\ call' = call
    BY <2>1 DEF Answerable, Kind, callVars
  <2> QED
    BY <2>1, <2>2 DEF AllPlain, UpToDate, InTurn, Plain
<1>2. CASE LoadDone
  <2>1. UNCHANGED <<callVars, live, others, draft, excused>>
        /\ loading = "read" /\ loading' = "no" /\ snap' = fetched
        /\ doing' = "none" /\ sent' = 0
    BY <1>2 DEF LoadDone
  <2>2. Kind # "set" /\ Kind' = Kind /\ stray' = stray /\ call' = call
    BY <2>1 DEF Answerable, Kind, callVars
  <2> QED
    BY <2>1, <2>2 DEF AllPlain, UpToDate, InTurn, Plain
<1>3. CASE LoadFails
  <2>1. UNCHANGED <<callVars, live, others, snap, draft>> /\ excused' = TRUE
        /\ loading' = "no" /\ doing' = "none" /\ sent' = 0
    BY <1>3 DEF LoadFails
  <2>2. Kind # "set" /\ Kind' = Kind /\ stray' = stray /\ call' = call
    BY <1>3, <2>1 DEF LoadFails, Answerable, Kind, callVars
  <2> QED
    BY <2>1, <2>2 DEF AllPlain, UpToDate, InTurn, Plain
<1>4. CASE ReplayAnswered
  <2>1. GivesUp("tab") \/ \E r \in Replies : Returns("tab", r)
    BY <1>4 DEF ReplayAnswered, Replies
  <2>2. UNCHANGED <<live, others, snap, draft, todo, sent, loading, fetched, excused>>
        /\ doing = "replay" /\ doing' = "none" /\ Kind' = "nothing"
    BY <1>4, <2>1, KindOver DEF ReplayAnswered
  <2>3. AllPlain'
    BY <2>1, <2>2, OverKeepsPlain DEF AllPlain, Plain
  <2> QED
    BY <2>2, <2>3 DEF UpToDate, InTurn
<1>5. CASE PostSection
  <2>1. PICK t \in Sections :
          /\ doing = "apply" /\ loading = "no" /\ IsNext(t)
          /\ Send("tab", [kind |-> "set", section |-> t,
                            config |-> [snap[t] EXCEPT !.tuned = todo[t]]])
          /\ sent' = t
          /\ UNCHANGED <<live, others, snap, draft, doing, todo, loading, fetched,
                         excused>>
    BY <1>5 DEF PostSection
  <2> DEFINE c == [snap[t] EXCEPT !.tuned = todo[t]]
             w == [kind |-> "set", section |-> t, config |-> c]
  <2>2. c \in Configs /\ c.rest = snap[t].rest
    BY <2>1, <1>f DEF FormTypeOK, Configs, IsNext, Typed
  <2>3. w \in TabWrites /\ w.config.rest = snap[t].rest /\ w.kind = "set"
    BY <2>2 DEF TabWrites
  <2>4. Send("tab", w)
    BY <2>1
  <2> HIDE DEF w, c
  <2>5. ~WriteUp /\ Kind' = w.kind /\ call'["tab"].what = w
    BY <2>3, <2>4, KindSent
  <2>6. sent < t /\ t \in Typed(todo) /\ sent \in Nat
    BY <2>1, <1>f DEF IsNext, FormTypeOK
  <2>7. AllPlain'
    <3>1. CASE others = 0
      <4>1. PlainWrite(w)
        BY <2>1, <2>3, <3>1 DEF PlainWrite, AllPlain, InTurn, Plain
      <4>2. \A x \in stray' : PlainWrite(x.what)
        BY <2>3, <2>4, <2>5, <3>1, <4>1, StraysWere, WritesStayPlain DEF AllPlain
      <4> QED
        BY <2>1, <2>5, <3>1, <4>1, <4>2 DEF AllPlain, Plain
    <3>2. CASE others # 0
      BY <2>1, <3>2 DEF AllPlain
    <3> QED
      BY <3>1, <3>2
  <2>8. InTurn'
    <3>1. sent' # 0 /\ sent' \in Typed(todo) /\ Typed(todo)' = Typed(todo)
      BY <2>1, <2>6, <1>f DEF Typed, FormTypeOK
    <3> QED
      BY <2>1, <3>1 DEF InTurn
  <2>9. UpToDate'
    <3>1. CASE sent = 0
      BY <2>1, <2>3, <2>5, <2>6, <3>1 DEF UpToDate
    <3>2. CASE sent # 0
      <4>1. sent \in Typed(todo) /\ Typed(todo)' = Typed(todo)
        BY <2>1, <3>2 DEF InTurn, Typed
      <4> QED
        BY <2>1, <2>3, <2>5, <2>6, <4>1 DEF UpToDate
    <3> QED
      BY <3>1, <3>2
  <2> QED
    BY <2>7, <2>8, <2>9
<1>6. CASE SectionTaken
  <2>1. \E r \in Replies : Returns("tab", r)
    BY <1>6 DEF SectionTaken, Replies
  <2>2. /\ UNCHANGED <<live, others, snap, doing, todo, sent, fetched, excused>>
        /\ doing = "apply" /\ (loading' = loading \/ loading' = "asked") /\ Kind' = "nothing"
        /\ Kind = "set" /\ loading = "no"
    BY <1>6, <2>1, KindOver, WhatIsUp
       DEF SectionTaken, Answerable, Owner, CheckoutQuiet, Busy, FormQuiet
  <2>3. AllPlain'
    BY <2>1, <2>2, OverKeepsPlain DEF AllPlain, Plain
  <2>4. InTurn'
    BY <2>2 DEF InTurn, Typed
  <2> QED
    BY <2>2, <2>3, <2>4 DEF UpToDate
<1>7. CASE ApplyStops
  <2>1. GivesUp("tab") \/ \E r \in Replies : Returns("tab", r)
    BY <1>7 DEF ApplyStops, Replies
  <2>2. /\ UNCHANGED <<live, others, snap, draft, loading, fetched>>
        /\ doing = "apply" /\ doing' = "none" /\ sent' = 0 /\ Kind' = "nothing"
        /\ Kind = "set" /\ loading = "no"
    BY <1>7, <2>1, KindOver, WhatIsUp
       DEF ApplyStops, Answerable, Owner, CheckoutQuiet, Busy, FormQuiet
  <2>3. AllPlain'
    BY <2>1, <2>2, OverKeepsPlain DEF AllPlain, Plain
  <2>4. ~excused' => ~excused /\ call["tab"].reply # "done" /\ \A t \in Typed(todo) : ~(t < sent)
    <3> SUFFICES ASSUME ~excused'
                 PROVE  ~excused /\ call["tab"].reply # "done" /\ \A t \in Typed(todo) : ~(t < sent)
      OBVIOUS
    <3>1. Returns("tab", "refused") \/ Returns("tab", "denied")
      BY <1>7 DEF ApplyStops
    <3>2. excused' = (excused \/ \E t \in Typed(todo) : t < sent)
      BY <1>7 DEF ApplyStops
    <3> QED
      BY <3>1, <3>2 DEF Returns
  <2>5. UpToDate'
    BY <2>2, <2>4 DEF UpToDate
  <2> QED
    BY <2>2, <2>3, <2>5 DEF InTurn
<1>8. CASE ResetAnswered
  <2>1. GivesUp("tab") \/ \E r \in Replies : Returns("tab", r)
    BY <1>8 DEF ResetAnswered, Replies
  <2>2. /\ UNCHANGED <<live, others, snap, todo, sent, fetched>>
        /\ doing = "reset" /\ Kind' = "nothing" /\ Kind = "reset"
        /\ \/ loading' = "asked" /\ doing' = "reset" /\ excused' = excused
           \/ /\ loading' = loading /\ doing' = "none"
              /\ ~excused' => ~excused /\ call["tab"].reply # "done"
    <3>1. Kind = "reset"
      BY <1>8, <2>1, KindOver, WhatIsUp
         DEF ResetAnswered, Answerable, Owner, CheckoutQuiet, Busy, FormQuiet
    <3> QED
      BY <1>8, <2>1, <3>1, KindOver DEF ResetAnswered, Returns
  <2>3. AllPlain'
    BY <2>1, <2>2, OverKeepsPlain DEF AllPlain, Plain
  <2> QED
    BY <2>2, <2>3 DEF UpToDate, InTurn
<1>9. CASE tab = "rules" /\ FormInput
  <2>1. ASSUME NEW t \in Sections, NEW v, Type(t, v) PROVE FormInv'
    <3>1. UNCHANGED <<callVars, live, others, snap, doing, todo, sent, loading, fetched,
                     excused>>
      BY <2>1 DEF Type
    <3>2. Kind' = Kind /\ stray' = stray /\ call' = call
      BY <3>1 DEF Kind, callVars
    <3> QED
      BY <3>1, <3>2 DEF AllPlain, UpToDate, InTurn, Plain, Typed
  <2>2. ASSUME NEW w \in TabWrites, Send("tab", w), w.kind \in {"replay", "reset"},
               UNCHANGED <<live, others, snap, sent, todo, loading, fetched, excused>>,
               doing = "none", doing' = w.kind, snap # Unloaded
        PROVE  FormInv'
    <3>1. Kind' = w.kind /\ call'["tab"].what = w
      BY <2>2, KindSent
    <3>2. PlainWrite(w)
      BY <2>2 DEF PlainWrite
    <3>3. AllPlain'
      BY <2>2, <3>1, <3>2, StraysWere, WritesStayPlain DEF AllPlain, Plain
    <3>4. loading = "no" /\ (~excused => snap = live)
      BY <2>2 DEF Answerable, UpToDate
    <3> QED
      BY <2>2, <3>1, <3>3, <3>4 DEF UpToDate, InTurn
  <2>3. CASE ClickReplay
    <3>1. [kind |-> "replay", overrides |-> Overrides] \in TabWrites
      BY <1>f DEF TabWrites, Overrides, FormTypeOK
    <3> QED
      BY <2>2, <2>3, <3>1 DEF ClickReplay, Idle
  <2>4. CASE ClickReset
    <3>1. [kind |-> "reset"] \in TabWrites
      BY DEF TabWrites
    <3> QED
      BY <2>2, <2>4, <3>1 DEF ClickReset, Idle
  <2>5. CASE ClickApply
    <3>1. /\ UNCHANGED <<callVars, live, others, snap, sent, loading, fetched, excused>>
          /\ snap # Unloaded /\ doing = "none" /\ doing' = "apply"
      BY <2>5 DEF ClickApply, Idle
    <3>2. Kind' = Kind /\ stray' = stray /\ call' = call /\ Kind # "set" /\ sent = 0
      BY <3>1 DEF Kind, callVars, Answerable, InTurn
    <3> QED
      BY <3>1, <3>2 DEF AllPlain, UpToDate, InTurn, Plain
  <2> QED
    BY <1>9, <2>1, <2>3, <2>4, <2>5 DEF FormInput
<1>10. CASE OthersEdit
  <2>1. /\ UNCHANGED <<callVars, snap, draft, doing, todo, sent, loading, fetched>>
        /\ others' = others + 1 /\ excused' = TRUE /\ others \in Nat
    BY <1>10, <1>f DEF OthersEdit, FormTypeOK
  <2>2. Kind' = Kind
    BY <2>1 DEF Kind, callVars
  <2> QED
    BY <2>1, <2>2 DEF AllPlain, UpToDate, InTurn, Typed
<1>11. CASE ServeForm
  <2>1. \E r \in Replies \ {"none"} :
          Serve("tab", r) \/ \E x \in stray : ServeStray(x, r)
    BY <1>11, WhatIsUp, Verdicts DEF ServeForm
  <2>2. /\ UNCHANGED <<others, snap, draft, doing, todo, sent, loading, fetched>>
        /\ call'["tab"].what = call["tab"].what /\ Kind' = Kind
    BY <1>11, <2>1, KindStays DEF ServeForm
  <2>3. PICK w, r :
          /\ live' = After(w, r) /\ w \in TabWrites
          /\ w = call["tab"].what \/ \E x \in stray : w = x.what
          /\ \/ excused' = TRUE
             \/ /\ Serve("tab", r) /\ w = call["tab"].what /\ excused' = excused
                /\ w.kind \in FormWrites
    BY <1>11, WhatIsUp DEF ServeForm
  <2>4. AllPlain'
    <3>1. CASE others = 0
      <4>1. PlainWrite(w)
        BY <2>3, <3>1 DEF AllPlain
      <4>2. Plain(live')
        BY <1>f, <2>3, <3>1, <4>1, KindsThereAre
           DEF After, Plain, PlainWrite, AllPlain, Shipped, FormTypeOK
      <4>3. \A x \in stray' : PlainWrite(x.what)
        BY <2>1, <2>2, <3>1, StraysWere, WritesStayPlain DEF AllPlain
      <4> QED
        BY <2>2, <3>1, <4>2, <4>3 DEF AllPlain, Plain
    <3>2. CASE others # 0
      BY <2>2, <3>2 DEF AllPlain
    <3> QED
      BY <3>1, <3>2
  <2>5. InTurn'
    BY <2>2 DEF InTurn, Typed
  <2>6. UpToDate'
    <3>1. CASE excused'
      BY <3>1 DEF UpToDate
    <3>2. CASE ~excused'
      <4>1. /\ Serve("tab", r) /\ w = call["tab"].what /\ excused' = excused /\ ~excused
            /\ Kind \in FormWrites /\ w.kind = Kind /\ loading = "no" /\ Kind # "nothing"
        BY <2>3, <3>2 DEF Kind, FormWrites, Answerable
      <4>2. call["tab"].reply = "none" /\ call'["tab"].reply = r
        BY <4>1 DEF Serve, CallInv, CallShape
      <4>3. CASE Kind = "replay"
        BY <2>2, <2>3, <4>1, <4>3 DEF After, UpToDate, Answerable
      <4>4. CASE Kind = "reset"
        BY <2>2, <2>3, <4>1, <4>2, <4>4 DEF After, UpToDate, Answerable
      <4>5. CASE Kind = "set"
        <5>1. doing = "apply"
          BY <4>5 DEF Answerable
        <5>2. CASE r = "done"
          BY <2>2, <4>2, <4>1, <4>5, <5>1, <5>2 DEF UpToDate, InTurn, Answerable
        <5>3. CASE r # "done"
          <6>1. live' = live
            BY <2>3, <5>3 DEF After
          <6> QED
            BY <2>2, <4>1, <4>2, <5>1, <5>3, <6>1 DEF UpToDate, Typed
        <5> QED
          BY <5>2, <5>3
      <4> QED
        BY <4>1, <4>3, <4>4, <4>5 DEF FormWrites
    <3> QED
      BY <3>1, <3>2
  <2> QED
    BY <2>4, <2>5, <2>6
<1> QED
  BY <1>1, <1>2, <1>3, <1>4, <1>5, <1>6, <1>7, <1>8, <1>9, <1>10, <1>11
     DEF FormSteps, FormGoesOn

\* A set of numbers has a least one.
LEMMA LeastOf ==
  ASSUME NEW T, T \subseteq Nat, T # {}
  PROVE  \E x \in T : \A y \in T : x <= y
<1> DEFINE R == OpToRel(<, Nat)
<1>1. IsWellFoundedOn(R, Nat)
  BY NatLessThanWellFounded
<1>2. \A x, y \in Nat : y < x => <<y, x>> \in R
  BY DEF OpToRel
<1> HIDE DEF R
<1>3. PICK x \in T : \A y \in T : ~ (<<y, x>> \in R)
  BY <1>1, WFMin
<1>4. ASSUME NEW y \in T PROVE x <= y
  <2>1. x \in Nat /\ y \in Nat
    OBVIOUS
  <2>2. ~ (y < x)
    BY <1>2, <1>3, <2>1
  <2> QED
    BY <2>1, <2>2
<1> QED
  BY <1>4

\* An apply that has no next section is through.
LEMMA NoNext ==
  ASSUME FormTypeOK, \A s \in Sections : ~IsNext(s)
  PROVE  \A s \in Typed(todo) : s <= sent
<1>0. Sections \subseteq Nat /\ sent \in Nat
  <2>1. sent \in Sections \union {0}
    BY DEF FormTypeOK
  <2>2. Sections \subseteq Nat
    BY FormAssumption
  <2> QED
    BY <2>1, <2>2
<1> DEFINE Ahead == {s \in Typed(todo) : s > sent}
<1>1. Ahead \subseteq Nat /\ Typed(todo) \subseteq Sections /\ sent \in Nat
  BY <1>0 DEF Typed
<1>2. Ahead = {}
  <2> SUFFICES ASSUME Ahead # {} PROVE FALSE
    OBVIOUS
  <2>1. PICK x \in Ahead : \A y \in Ahead : x <= y
    BY <1>1, LeastOf
  <2>2. IsNext(x)
    BY <2>1 DEF IsNext
  <2> QED
    BY <1>1, <2>1, <2>2
<1>3. ASSUME NEW s \in Typed(todo) PROVE s <= sent
  <2>1. ~(s > sent) /\ s \in Nat
    BY <1>1, <1>2, FormAssumption
  <2> QED
    BY <1>1, <2>1
<1> QED
  BY <1>3

\* The apply keeps its books.
LEMMA FormSaves ==
  ASSUME TabInv, CallInv(TabWrites), FormInv, Saved, FormSteps
  PROVE  Saved'
<1> USE DEF TabInv, TabShape, Saved
<1>f. FormTypeOK /\ Answerable /\ sent \in Nat /\ Typed(todo) \subseteq Nat \ {0}
  <2>1. sent \in Sections \union {0} /\ Sections \subseteq Nat \ {0}
    BY FormAssumption DEF FormTypeOK
  <2>2. sent \in Nat
    BY <2>1
  <2>3. Typed(todo) \subseteq Sections
    BY DEF Typed
  <2>4. Typed(todo) \subseteq Nat \ {0}
    BY <2>1, <2>3
  <2> QED
    BY <2>2, <2>4
<1>1. ASSUME UNCHANGED callVars, doing' # "apply", Kind # "set" PROVE Saved'
  BY <1>1 DEF Kind, callVars
<1>2. ASSUME UNCHANGED callVars, UNCHANGED <<doing, todo, sent, loading>>,
             (live' = live /\ excused' = excused) \/ excused' = TRUE
      PROVE  Saved'
  BY <1>2 DEF Kind, callVars, Typed
<1>3. ASSUME doing' # "apply", Kind' # "set" PROVE Saved'
  BY <1>3
<1>4. CASE LoadReads
  <2>1. Kind # "set" /\ Kind' = Kind /\ loading' = "read"
    BY <1>4, <1>f DEF LoadReads, Answerable, Kind, callVars
  <2> QED
    BY <2>1
<1>5. CASE LoadDone \/ LoadFails
  <2>1. Kind # "set" /\ doing' = "none" /\ UNCHANGED callVars
    BY <1>5, <1>f DEF LoadDone, LoadFails, Answerable
  <2> QED
    BY <1>1, <2>1
<1>6. CASE ReplayAnswered \/ ApplyStops \/ ResetAnswered
  <2>1. GivesUp("tab") \/ \E r \in Replies : Returns("tab", r)
    BY <1>6 DEF ReplayAnswered, ApplyStops, ResetAnswered, Replies
  <2>2. doing' # "apply" /\ Kind' # "set"
    BY <1>6, <2>1, KindOver DEF ReplayAnswered, ApplyStops, ResetAnswered
  <2> QED
    BY <1>3, <2>2
<1>7. CASE PostSection
  <2>1. PICK t \in Sections :
          /\ doing = "apply" /\ loading = "no" /\ IsNext(t)
          /\ Send("tab", [kind |-> "set", section |-> t,
                            config |-> [snap[t] EXCEPT !.tuned = todo[t]]])
          /\ sent' = t
          /\ UNCHANGED <<live, others, snap, draft, doing, todo, loading, fetched,
                         excused>>
    BY <1>7 DEF PostSection
  <2> DEFINE c == [snap[t] EXCEPT !.tuned = todo[t]]
             w == [kind |-> "set", section |-> t, config |-> c]
  <2>2. c \in Configs /\ c.tuned = todo[t]
    BY <2>1, <1>f DEF FormTypeOK, Configs, IsNext, Typed
  <2>3. w \in TabWrites /\ w.section = t /\ w.config.tuned = todo[t] /\ w.kind = "set"
    BY <2>2 DEF TabWrites
  <2>4. Send("tab", w)
    BY <2>1
  <2> HIDE DEF w, c
  <2>5. ~WriteUp /\ Kind' = w.kind /\ call'["tab"].what = w
    BY <2>3, <2>4, KindSent
  <2>6. call'["tab"].reply = "none"
    BY <2>4, FormAssumption DEF Send, CallInv, CallShape
  <2>7. Kind # "set"
    BY <2>5, <1>f DEF Answerable
  <2>8. \A s \in Typed(todo) : s < t => s <= sent
    BY <2>1, <1>f, FormAssumption DEF IsNext
  <2>9. Typed(todo)' = Typed(todo)
    BY <2>1 DEF Typed
  <2>10. ~excused => \A s \in Typed(todo) : s < t => live[s].tuned = todo[s]
    BY <2>1, <2>7, <2>8, <1>f
  <2>11. \A s \in Typed(todo)' : s < sent' \/ (s = sent' /\ (Kind = "set" => call["tab"].reply = "done")') => s < t
    BY <2>1, <2>3, <2>5, <2>6, <2>9
  <2> QED
    BY <2>1, <2>3, <2>5, <2>9, <2>10, <2>11
<1>8. CASE SectionTaken
  <2>1. \E r \in Replies : Returns("tab", r)
    BY <1>8 DEF SectionTaken, Replies
  <2>2. /\ UNCHANGED <<live, doing, todo, sent, excused>>
        /\ doing = "apply" /\ Kind' = "nothing" /\ Kind = "set" /\ loading = "no"
        /\ call["tab"].reply = "done"
        /\ loading' = "asked" => \A s \in Sections : ~IsNext(s)
        /\ loading' \in {"no", "asked"}
    BY <1>8, <2>1, <1>f, KindOver, WhatIsUp
       DEF SectionTaken, Answerable, Owner, CheckoutQuiet, Busy, FormQuiet, Returns
  <2>3. loading' = "asked" => \A s \in Typed(todo) : s <= sent
    BY <2>2, <1>f, NoNext
  <2> QED
    BY <2>2, <2>3 DEF Typed
<1>9. CASE tab = "rules" /\ FormInput
  <2>1. ASSUME NEW t \in Sections, NEW v, Type(t, v) PROVE Saved'
    BY <1>2, <2>1 DEF Type
  <2>2. ASSUME NEW w \in TabWrites, Send("tab", w), w.kind \in {"replay", "reset"},
               doing' = w.kind
        PROVE  Saved'
    <3>1. Kind' = w.kind
      BY <2>2, KindSent
    <3> QED
      BY <1>3, <2>2, <3>1
  <2>3. CASE ClickReplay
    <3>1. [kind |-> "replay", overrides |-> Overrides] \in TabWrites
      BY <1>f DEF TabWrites, Overrides, FormTypeOK
    <3> QED
      BY <2>2, <2>3, <3>1 DEF ClickReplay
  <2>4. CASE ClickReset
    <3>1. [kind |-> "reset"] \in TabWrites
      BY DEF TabWrites
    <3> QED
      BY <2>2, <2>4, <3>1 DEF ClickReset
  <2>5. CASE ClickApply
    <3>1. /\ UNCHANGED <<callVars, live, sent, loading, excused>>
          /\ snap # Unloaded /\ doing = "none" /\ doing' = "apply"
      BY <2>5 DEF ClickApply, Idle
    <3>2. Kind' = Kind /\ Kind # "set" /\ sent' = 0 /\ loading' = "no"
      BY <3>1, <1>f DEF Kind, callVars, Answerable, FormInv, InTurn
    <3>3. \A s \in Sections : ~(s < sent') /\ s # sent'
      BY <3>2, FormAssumption
    <3>4. Typed(todo)' \subseteq Sections
      BY DEF Typed
    <3> QED
      BY <3>1, <3>2, <3>3, <3>4
  <2> QED
    BY <1>9, <2>1, <2>3, <2>4, <2>5 DEF FormInput
<1>10. CASE OthersEdit
  BY <1>2, <1>10 DEF OthersEdit
<1>11. CASE ServeForm
  <2>1. \E r \in Replies \ {"none"} :
          Serve("tab", r) \/ \E x \in stray : ServeStray(x, r)
    BY <1>11, WhatIsUp, Verdicts DEF ServeForm
  <2>2. /\ UNCHANGED <<doing, todo, sent, loading>>
        /\ call'["tab"].what = call["tab"].what /\ Kind' = Kind
    BY <1>11, <2>1, KindStays DEF ServeForm
  <2>3. \/ excused' = TRUE
        \/ /\ Kind \in FormWrites
           /\ \E r \in Replies :
                /\ Serve("tab", r) /\ live' = After(call["tab"].what, r)
                /\ excused' = excused
    BY <1>11, WhatIsUp, Verdicts DEF ServeForm, Kind
  <2>4. CASE excused' = TRUE
    BY <2>2, <2>4 DEF Typed
  <2>5. ASSUME Kind \in FormWrites, NEW r \in Replies, Serve("tab", r),
               live' = After(call["tab"].what, r), excused' = excused
        PROVE  Saved'
    <3>1. CASE doing # "apply"
      BY <2>2, <3>1
    <3>2. CASE doing = "apply"
      <4>1. Kind = "set" /\ loading = "no"
        BY <2>5, <3>2, <1>f DEF Answerable, FormWrites
      <4>2. call["tab"].reply = "none" /\ call'["tab"].reply = r
        BY <2>5, FormAssumption DEF Serve, CallInv, CallShape
      <4>3. CASE r = "done"
        <5>1. live' = [live EXCEPT ![sent] = call["tab"].what.config]
          BY <2>5, <4>1, <4>3 DEF After, Kind
        <5>2. \A s \in Typed(todo) : s \in Sections /\ s \in Nat
          BY <1>f DEF Typed
        <5>3. \A s \in Typed(todo) : s = sent => live'[s].tuned = todo[s]
          BY <4>1, <5>1, <5>2, <1>f DEF FormTypeOK
        <5>4. \A s \in Typed(todo) : s # sent => live'[s] = live[s]
          BY <5>1, <5>2, <1>f DEF FormTypeOK
        <5>5. ~excused => \A s \in Typed(todo) : s < sent => live'[s].tuned = todo[s]
          BY <3>2, <4>1, <5>2, <5>4, <1>f
        <5> QED
          BY <2>2, <2>5, <3>2, <4>1, <5>3, <5>5 DEF Typed
      <4>4. CASE r # "done"
        <5>1. live' = live
          BY <2>5, <4>1, <4>4 DEF After, Kind
        <5> QED
          BY <2>2, <2>5, <4>1, <4>2, <4>4, <5>1 DEF Typed
      <4> QED
        BY <4>3, <4>4
    <3> QED
      BY <3>1, <3>2
  <2> QED
    BY <2>3, <2>4, <2>5
<1> QED
  BY <1>4, <1>5, <1>6, <1>7, <1>8, <1>9, <1>10, <1>11 DEF FormSteps, FormGoesOn

\* What leaves the form alone and starts no apply teaches it nothing and costs it
\* nothing.
LEMMA FormLeftAlone ==
  ASSUME TabInv, CallInv(TabWrites), FormInv, Saved, UNCHANGED formVars,
         \/ AskForAdminToken("tab") \/ LoseStray \/ UNCHANGED callVars
         \/ \E w \in TabWrites : w.kind \notin {"set", "reset"} /\ Send("tab", w)
         \/ Kind # "set" /\ GivesUp("tab")
         \/ \E r \in Replies :
              \/ Kind # "set" /\ (Serve("tab", r) \/ Returns("tab", r))
              \/ \E x \in stray : ServeStray(x, r)
  PROVE  FormInv' /\ Saved'
<1>1. /\ (call'["tab"].what = call["tab"].what /\ Kind' = Kind) \/ Kind' # "set"
      /\ Kind' = "set" <=> Kind = "set"
      /\ Kind' = "set" => (call'["tab"].reply = "done" <=> call["tab"].reply = "done")
      /\ Kind' = "reset" =>
           Kind = "reset" /\ (call'["tab"].reply # "done" => call["tab"].reply # "done")
  <2> USE FormAssumption DEF CallInv, CallShape, Kind
  <2>1. CASE AskForAdminToken("tab")
    BY <2>1 DEF AskForAdminToken
  <2>2. CASE call' = call
    BY <2>2
  <2>3. CASE Kind # "set" /\ (GivesUp("tab") \/ \E r \in Replies : Returns("tab", r))
    BY <2>3, KindOver
  <2>4. ASSUME NEW w \in TabWrites, w.kind \notin {"set", "reset"}, Send("tab", w)
        PROVE  Kind # "set" /\ Kind' \notin {"set", "reset"}
    BY <2>4, KindSent DEF TabInv, Answerable
  <2>5. ASSUME NEW r \in Replies, Kind # "set", Serve("tab", r)
        PROVE  /\ call'["tab"].what = call["tab"].what /\ Kind' # "set"
               /\ Kind' = Kind /\ call["tab"].reply = "none"
    BY <2>5, KindStays DEF Serve
  <2> HIDE FormAssumption DEF CallInv, CallShape, Kind
  <2> QED
    BY <2>1, <2>2, <2>3, <2>4, <2>5 DEF LoseStray, ServeStray, callVars, Kind
<1>2. AllPlain'
  <2>1. CASE others = 0
    <3>1. PlainWrite(call'["tab"].what)
      BY <1>1, <2>1 DEF PlainWrite, Kind, FormInv, AllPlain
    <3>2. \A x \in stray' : PlainWrite(x.what)
      BY <2>1, <3>1, StraysWere, WritesStayPlain DEF FormInv, AllPlain
    <3> QED
      BY <2>1, <3>1, <3>2 DEF FormInv, AllPlain, Plain, formVars
  <2>2. CASE others # 0
    BY <2>2 DEF AllPlain, formVars
  <2> QED
    BY <2>1, <2>2
<1>3. UpToDate'
  BY <1>1 DEF FormInv, UpToDate, Typed, formVars
<1>4. InTurn'
  BY <1>1 DEF FormInv, InTurn, Typed, formVars
<1>5. Saved'
  BY <1>1 DEF Saved, Typed, Kind, formVars
<1> QED
  BY <1>2, <1>3, <1>4, <1>5 DEF FormInv

\* No step of the other screens, of the token or of the views writes a section.
LEMMA OthersLeaveForm ==
  ASSUME TabInv, CallInv(TabWrites), FormInv, Saved,
         TrySteps \/ CheckoutSteps \/ CallSteps \/ ReadSteps \/ UNCHANGED vars
  PROVE  FormInv' /\ Saved'
<1>1. CASE TrySteps
  <2>1. CASE PressAnswered
    <3>1. Kind # "set" /\ (GivesUp("tab") \/ \E r \in Replies : Returns("tab", r))
      BY <2>1 DEF PressAnswered, Replies, TabInv, Owner, Answerable, FormQuiet
    <3> QED
      BY <1>1, <3>1, FormLeftAlone DEF TrySteps
  <2>2. CASE ServeTry
    <3>1. \E r \in Replies :
            \/ Kind # "set" /\ Serve("tab", r)
            \/ \E x \in stray : ServeStray(x, r)
      <4>1. ASSUME NEW w, NEW r \in TryVerdicts(w) PROVE r \in Replies
        BY <4>1, TryVerdictsAreReplies
      <4> QED
        BY <2>2, <4>1 DEF ServeTry, Kind, TryWrites
    <3> QED
      BY <1>1, <3>1, FormLeftAlone DEF TrySteps
  <2>3. ASSUME NEW b \in {"preview", "commit", "wipe"}, Press(b)
        PROVE  FormInv' /\ Saved'
    <3>1. [kind |-> b, of |-> form] \in TabWrites
      BY DEF TabWrites, TryWrites, TabInv, TabShape
    <3>2. [kind |-> b, of |-> form].kind # "set"
      OBVIOUS
    <3>3. \E w \in TabWrites : w.kind \notin {"set", "reset"} /\ Send("tab", w)
      BY <2>3, <3>1, <3>2 DEF Press
    <3> QED
      BY <1>1, <3>3, FormLeftAlone DEF TrySteps
  <2>4. CASE UNCHANGED callVars
    BY <1>1, <2>4, FormLeftAlone DEF TrySteps
  <2>5. \/ PressAnswered \/ ServeTry \/ UNCHANGED callVars
        \/ \E b \in {"preview", "commit", "wipe"} : Press(b)
    BY <1>1 DEF TrySteps, TryGoesOn, ClassifyInput, LabInput, FillIn, Turn, Preset, AskNow,
       LabAnswered
  <2> QED
    BY <2>1, <2>2, <2>3, <2>4, <2>5
<1>2. CASE CheckoutSteps
  <2>1. CASE ImportAnswered
    <3>1. Kind # "set" /\ (GivesUp("tab") \/ \E r \in Replies : Returns("tab", r))
      BY <2>1 DEF ImportAnswered, Replies, TabInv, Answerable
    <3> QED
      BY <1>2, <3>1, FormLeftAlone DEF CheckoutSteps
  <2>2. CASE ServeImport
    <3>1. \E r \in Replies :
            \/ Kind # "set" /\ Serve("tab", r)
            \/ \E x \in stray : ServeStray(x, r)
      BY <2>2 DEF ServeImport, ImportInFlight, Kind, Replies
    <3> QED
      BY <1>2, <3>1, FormLeftAlone DEF CheckoutSteps
  <2>3. CASE Send("tab", [kind |-> "import"])
    <3>1. [kind |-> "import"] \in TabWrites
      BY DEF TabWrites
    <3>2. \E w \in TabWrites : w.kind \notin {"set", "reset"} /\ Send("tab", w)
      BY <2>3, <3>1
    <3> QED
      BY <1>2, <3>2, FormLeftAlone DEF CheckoutSteps
  <2>4. CASE UNCHANGED callVars
    BY <1>2, <2>4, FormLeftAlone DEF CheckoutSteps
  <2>5. \/ ImportAnswered \/ ServeImport \/ UNCHANGED callVars
        \/ Send("tab", [kind |-> "import"])
    BY <1>2 DEF CheckoutSteps, CheckoutGoesOn, OrderAnswered, ScriptLoads, ScriptFails,
       OpenCheckout, NothingToOpen, PaymentSucceeds, PaymentFails, Dismissed, Pay
  <2> QED
    BY <2>1, <2>2, <2>3, <2>4, <2>5
<1>3. CASE CallSteps
  BY <1>3, FormLeftAlone DEF CallSteps
<1>4. CASE ReadSteps \/ UNCHANGED vars
  BY <1>4, FormLeftAlone DEF ReadSteps, vars
<1> QED
  BY <1>1, <1>2, <1>3, <1>4

\* A form that is mounted, or taken down, when nothing is under way knows nothing.
LEMMA FreshKnows ==
  ASSUME TabInv, CallInv(TabWrites), FormInv, UNCHANGED callVars, Quiet,
         NEW l \in {"asked", "no"}, FormFresh(l)
  PROVE  FormInv' /\ Saved'
<1>1. Kind = "nothing"
  <2>1. ~WriteUp
    BY WhatIsUp, FormAssumption DEF Quiet, WriteUp, InFlight, CallInv, CallShape
  <2> QED
    BY <2>1 DEF TabInv, Answerable
<1>2. call' = call /\ stray' = stray /\ Kind' = Kind
  BY DEF callVars, Kind
<1>3. /\ live' = live /\ others' = others /\ snap' = Unloaded /\ doing' = "none"
      /\ sent' = 0 /\ loading' = l
  BY DEF FormFresh
<1> QED
  BY <1>1, <1>2, <1>3 DEF FormInv, AllPlain, UpToDate, InTurn, Plain, Saved

\* What the form knows is always true, and its apply is always where its books say.
LEMMA FormAlways == Spec => [](TabInv /\ CallInv(TabWrites) /\ FormInv /\ Saved)
<1>1. Init => FormInv /\ Saved
  BY FormAssumption
     DEF Init, CallInit, FormInit, NoCall, FormInv, AllPlain, UpToDate, InTurn, Plain,
         PlainWrite, Shipped, Kind, Saved
<1>2. TabInv /\ CallInv(TabWrites) /\ FormInv /\ Saved /\ [Next]_vars => (FormInv /\ Saved)'
  <2> SUFFICES ASSUME TabInv, CallInv(TabWrites), FormInv, Saved, [Next]_vars
               PROVE  FormInv' /\ Saved'
    OBVIOUS
  <2>1. CASE Leave
    <3>1. CASE Quiet
      BY <2>1, <3>1, FreshKnows DEF Leave, AllFresh
    <3>2. CASE ~Quiet
      BY <2>1, <3>2, FormLeftAlone DEF Leave
    <3> QED
      BY <3>1, <3>2
  <2>2. ASSUME NEW t \in Screens, Open(t) PROVE FormInv' /\ Saved'
    BY <2>2, FreshKnows DEF Open, AllFresh
  <2> QED
    BY <2>1, <2>2, FormKnows, FormSaves, OthersLeaveForm DEF Next
<1> QED
  BY <1>1, <1>2, Inductive, PTL DEF Spec

\* Between actions the rules screen shows the rules in force, unless somebody else
\* edited them or it gave up on a write of its own.
THEOREM FormShowsLive == Spec => []ShownIsLive
<1>1. TabInv /\ FormInv => ShownIsLive
  BY DEF FormInv, UpToDate, ShownIsLive, Idle
<1> QED
  BY <1>1, FormAlways, PTL

\* Applying thresholds changes no field of a guardrail that the form does not offer,
\* as long as nobody else edits the rules.
THEOREM NothingElse == Spec => []NothingElseChanges
<1>1. FormInv => NothingElseChanges
  BY DEF FormInv, AllPlain, Plain, NothingElseChanges
<1> QED
  BY <1>1, FormAlways, PTL

\* An apply that clears the form has put every threshold typed in force, unless it is
\* excused.
THEOREM ClearedIsSaved == Spec => []ClearedMeansSaved
<1>1. TabInv /\ Saved => ClearedMeansSaved
  <2> SUFFICES ASSUME TabInv, Saved, doing = "apply", loading = "asked", ~excused,
                      NEW s \in Typed(todo)
               PROVE  live[s].tuned = todo[s]
    BY DEF ClearedMeansSaved
  <2>1. Kind # "set" /\ s <= sent
    BY DEF TabInv, Answerable, Saved
  <2>2. s \in Nat /\ sent \in Nat
    BY FormAssumption DEF TabInv, TabShape, FormTypeOK, Typed
  <2> QED
    BY <2>1, <2>2 DEF Saved
<1> QED
  BY <1>1, FormAlways, PTL

-----------------------------------------------------------------------------
(* Types. *)

\* What a view does keeps the views' types.
LEMMA ViewsTypeStep == ViewsTypeOK /\ ViewSteps => ViewsTypeOK'
<1> SUFFICES ASSUME ViewsTypeOK, ViewSteps PROVE ViewsTypeOK'
  OBVIOUS
<1> USE DEF ViewsTypeOK
<1>1. ASSUME NEW v \in Asking \union {"queue", "human", "none"}, Mount(v)
      PROVE  /\ view' \in Asking \union {"queue", "human", "none"}
             /\ loads' \subseteq {"wanted", "superseded"}
             /\ got' = "none" /\ broken' = FALSE
  BY <1>1 DEF Mount
<1>2. ASSUME NEW b \in [Records -> Entries], Refreshed(b) PROVE ViewsTypeOK'
  <2>1. loads' \subseteq {"wanted", "superseded"} /\ got' \in {"none", "wanted", "outdated"}
    BY <1>2 DEF Refreshed
  <2> QED
    BY <1>2, <2>1 DEF Refreshed
<1>3. ASSUME NEW v \in Asking \union {"queue", "human", "none"}, GoTo(v) PROVE ViewsTypeOK'
  BY <1>1, <1>3 DEF GoTo
<1>4. ASSUME NEW f \in Cards, Drill(f) PROVE ViewsTypeOK'
  BY <1>1, <1>4 DEF Drill, Cards
<1>5. ASSUME NEW q \in Records \union {"nothing"}, SearchFor(q) PROVE ViewsTypeOK'
  BY <1>1, <1>5 DEF SearchFor
<1>6. ASSUME NEW f \in Filters, ChooseFilter(f) PROVE ViewsTypeOK'
  BY <1>6 DEF ChooseFilter
<1>7. CASE OpenAudit
  BY <1>1, <1>7 DEF OpenAudit, Asking
<1>8. CASE ViewAnswered \/ ViewFails \/ LateAnswer
  BY <1>8 DEF ViewAnswered, ViewFails, LateAnswer
<1> QED
  BY <1>2, <1>3, <1>4, <1>5, <1>6, <1>7, <1>8 DEF ViewSteps

\* No screen that writes touches what the views hold.
LEMMA ViewsTypeAlways == Spec => []ViewsTypeOK
<1>1. Init => ViewsTypeOK
  <2>1. Untried \in Entries /\ "all" \in Filters
    BY ViewsAssumption DEF Filters
  <2> QED
    BY <2>1 DEF Init, ViewsInit, ViewsTypeOK
<1>2. ViewsTypeOK /\ [Next]_vars => ViewsTypeOK'
  <2> SUFFICES ASSUME ViewsTypeOK, [Next]_vars PROVE ViewsTypeOK'
    OBVIOUS
  <2>1. CASE ReadSteps
    BY <2>1, ViewsTypeStep DEF ReadSteps
  <2>2. CASE UNCHANGED viewVars
    BY <2>2 DEF viewVars, ViewsTypeOK
  <2> QED
    BY <2>1, <2>2 DEF Next, vars, Leave, Open, FormSteps, TrySteps, CheckoutSteps, CallSteps
<1> QED
  BY <1>1, <1>2, PTL DEF Spec

\* The scoreboard balances exactly when no record was credited with more than it
\* owes, whatever the books of however many records a refresh finds.
THEOREM FlagIsRight == Spec => []BalanceFlagIsRight
<1>1. ViewsTypeOK => BalanceFlagIsRight
  BY FlagOfTheBooks DEF ViewsTypeOK, BalanceFlagIsRight
<1> QED
  BY <1>1, ViewsTypeAlways, PTL

\* What the labs show, and the trace.
LabShape ==
  /\ trace.of \in Subjects \union {"nothing"} /\ trace.from \in Sources
  /\ {shown, meant} \subseteq Subjects \union {"nothing"}
  /\ {waits, crossed} \subseteq BOOLEAN

\* A trace comes from a submission, which has a subject.
LEMMA LabShapeStep ==
  ASSUME TabInv, CallInv(TabWrites), LabInv, LabShape, [Next]_vars
  PROVE  LabShape'
<1> USE DEF LabShape
<1>1. CASE UNCHANGED tryVars
  BY <1>1 DEF tryVars
<1>2. ASSUME NEW d, ClassifyFresh, LabFresh(d) PROVE LabShape'
  BY <1>2 DEF ClassifyFresh, LabFresh, NoTrace, Sources
<1>3. CASE PressAnswered
  <2>1. call["tab"].what.of \in Subjects \union {"nothing"}
    <3>1. call["tab"].what \in TabWrites /\ Kind \in TryWrites
      BY <1>3, WhatIsUp DEF PressAnswered, TabInv, Answerable
    <3> QED
      BY <3>1, KindsThereAre DEF Kind
  <2>2. trace' = trace \/ trace' = NoTrace
        \/ \E source \in Sources :
             trace' = TraceOf(call["tab"].what.of, pressed = "commit", source)
    BY <1>3 DEF PressAnswered
  <2>3. trace'.of \in Subjects \union {"nothing"} /\ trace'.from \in Sources
    BY <2>1, <2>2 DEF NoTrace, TraceOf, Sources
  <2>4. UNCHANGED <<waits, shown, meant, crossed>>
    BY <1>3 DEF PressAnswered, labVars
  <2> QED
    BY <2>3, <2>4
<1>4. ASSUME NEW i \in Asks, LabAnswered(i) PROVE LabShape'
  <2>1. asks[i] \in Subjects \union {"nothing"}
    BY DEF LabInv
  <2> QED
    BY <1>4, <2>1 DEF LabAnswered, classifyVars
<1>5. ASSUME NEW x \in Subjects, FillIn(x) PROVE LabShape'
  BY <1>5 DEF FillIn, labVars, NoTrace, Sources
<1>6. ASSUME NEW b, Press(b) PROVE LabShape'
  BY <1>6 DEF Press, labVars
<1>7. ASSUME NEW x \in Subjects, Turn(x) PROVE LabShape'
  BY <1>7 DEF Turn, classifyVars
<1>8. ASSUME NEW x, NEW m \in Subjects \union {"nothing"}, Ask(x, m), trace' = trace,
             shown' = shown
      PROVE  LabShape'
  <2>1. waits' = TRUE /\ meant' = m /\ crossed' = ~AtRest
    BY <1>8 DEF Ask
  <2>2. crossed' \in BOOLEAN
    BY <2>1
  <2> QED
    BY <1>8, <2>1, <2>2
<1>9. ASSUME NEW x \in Subjects, Preset(x) PROVE LabShape'
  BY <1>8, <1>9 DEF Preset, classifyVars
<1>10. CASE AskNow
  BY <1>8, <1>10 DEF AskNow, classifyVars, LabInv
<1>11. CASE TrySteps
  <2>1. CASE ServeTry
    BY <1>1, <2>1 DEF ServeTry
  <2> QED
    BY <1>3, <1>4, <1>5, <1>6, <1>7, <1>9, <1>10, <1>11, <2>1
       DEF TrySteps, TryGoesOn, ClassifyInput, LabInput
<1>12. CASE Leave
  BY <1>1, <1>2, <1>12 DEF Leave, AllFresh
<1>13. ASSUME NEW t \in Screens, Open(t) PROVE LabShape'
  BY <1>2, <1>13 DEF Open, AllFresh
<1>14. CASE FormSteps \/ CheckoutSteps \/ CallSteps \/ ReadSteps \/ UNCHANGED vars
  BY <1>1, <1>14 DEF FormSteps, CheckoutSteps, CallSteps, ReadSteps, vars, tryVars
<1> QED
  BY <1>11, <1>12, <1>13, <1>14 DEF Next

\* Every variable has its type, and only screens that the visitor uses are up.
THEOREM TypeCorrect == Spec => []TypeOK
<1> DEFINE Shown == tab \in visit \union {"view"} /\ visit \in Visits
           All == TabInv /\ CallInv(TabWrites) /\ LabInv /\ ViewsTypeOK /\ LabShape /\ Shown
<1>1. Init => LabShape /\ Shown
  <2>1. Init => LabShape
    <3> SUFFICES ASSUME Init PROVE LabShape
      OBVIOUS
    <3>1. trace = NoTrace /\ shown = "nothing" /\ meant = "nothing"
      BY DEF Init, TryInit
    <3>2. waits \in BOOLEAN /\ crossed \in BOOLEAN
      BY DEF Init, TryInit
    <3> QED
      BY <3>1, <3>2 DEF LabShape, NoTrace, Sources
  <2> QED
    BY <2>1 DEF Init
<1>2. All /\ [Next]_vars => (LabShape /\ Shown)'
  <2> SUFFICES ASSUME All, [Next]_vars PROVE (LabShape /\ Shown)'
    OBVIOUS
  <2>1. LabShape'
    BY LabShapeStep
  <2>2. Shown'
    BY DEF Next, vars, Leave, Open, FormSteps, TrySteps, CheckoutSteps, CallSteps, ReadSteps
  <2> QED
    BY <2>1, <2>2
<1>3. All => TypeOK
  <2> SUFFICES ASSUME All PROVE TypeOK
    OBVIOUS
  <2>1. CallTypeOK
    <3>1. ASSUME NEW c \in Callers
          PROVE  call[c].at \in {"idle", "first", "again"} /\ call[c].with \in Tokens
                 /\ took[c] \in Nat
      BY DEF CallInv, CallShape
    <3>2. ASSUME NEW x \in stray
          PROVE  x.by \in Callers /\ x.with \in Tokens /\ x.mine \in BOOLEAN
      BY DEF CallInv, CallShape
    <3>3. token \in Tokens
      BY DEF CallInv, CallShape
    <3> QED
      BY <3>1, <3>2, <3>3 DEF CallTypeOK
  <2>2. TryTypeOK
    BY DEF TabInv, TabShape, LabInv, LabShape, TryTypeOK, TryWrites
  <2>3. FormTypeOK /\ CheckoutTypeOK
    BY DEF TabInv, TabShape
  <2> QED
    BY <2>1, <2>2, <2>3 DEF TypeOK
<1> QED
  BY <1>1, <1>2, <1>3, Inductive, LabAlways, ViewsTypeAlways, PTL DEF Spec
-----------------------------------------------------------------------------
(* The trace strip. *)

\* The trace shown is an answer of the server, with the stages it lists for where
\* the diagnosis came from.
TraceIsAnAnswer ==
  \/ trace = NoTrace
  \/ \E x : \E committed \in BOOLEAN : \E source \in Sources :
       trace = TraceOf(x, committed, source)

\* Only the answer to Classify's own button puts another trace on the screen.
LEMMA TraceStep == TraceIsAnAnswer /\ [Next]_vars => TraceIsAnAnswer'
<1> SUFFICES ASSUME TraceIsAnAnswer, [Next]_vars PROVE TraceIsAnAnswer'
  OBVIOUS
<1>1. CASE trace' = trace \/ trace' = NoTrace
  BY <1>1 DEF TraceIsAnAnswer, TraceOf, NoTrace
<1>2. CASE PressAnswered
  <2>1. CASE trace' # trace /\ trace' # NoTrace
    <3>1. PICK source \in Sources :
            trace' = TraceOf(call["tab"].what.of, pressed = "commit", source)
      BY <1>2, <2>1 DEF PressAnswered
    <3>2. (pressed = "commit") \in BOOLEAN
      OBVIOUS
    <3>3. \E x : \E committed \in BOOLEAN : trace' = TraceOf(x, committed, source)
      BY <3>1, <3>2
    <3> QED
      BY <3>3 DEF TraceIsAnAnswer, TraceOf
  <2> QED
    BY <1>1, <2>1
<1>3. CASE TrySteps
  <2>1. \/ PressAnswered \/ \E i \in Asks : LabAnswered(i)
        \/ ServeTry \/ ClassifyInput \/ LabInput
    BY <1>3 DEF TrySteps, TryGoesOn
  <2>2. ASSUME NEW i \in Asks, LabAnswered(i) PROVE trace' = trace
    BY <2>2 DEF LabAnswered, classifyVars
  <2>3. ServeTry => trace' = trace
    BY DEF ServeTry, tryVars
  <2>4. LabInput => trace' = trace
    BY DEF LabInput, Turn, Preset, AskNow, classifyVars
  <2>5. ClassifyInput => trace' = trace \/ trace' = NoTrace
    BY DEF ClassifyInput, FillIn, Press
  <2> QED
    BY <1>1, <1>2, <2>1, <2>2, <2>3, <2>4, <2>5
<1>4. Leave => trace' = trace \/ trace' = NoTrace
  BY DEF Leave, AllFresh, ClassifyFresh, tryVars
<1>5. ASSUME NEW t \in Screens, Open(t) PROVE trace' = NoTrace
  BY <1>5 DEF Open, AllFresh, ClassifyFresh
<1>6. FormSteps \/ CheckoutSteps \/ CallSteps \/ ReadSteps \/ UNCHANGED vars => trace' = trace
  BY DEF FormSteps, CheckoutSteps, CallSteps, ReadSteps, vars, tryVars
<1> QED
  BY <1>1, <1>3, <1>4, <1>5, <1>6 DEF Next

\* Two stages, some in the middle, and two more.
LEMMA AroundTheMiddle ==
  ASSUME NEW S, NEW a \in S, NEW b \in S, NEW d \in S, NEW e \in S, NEW middle \in Seq(S)
  PROVE  LET list == <<a, b>> \o middle \o <<d, e>>
         IN  /\ DOMAIN list = 1 .. 4 + Len(middle)
             /\ list[1] = a /\ list[2] = b
             /\ \A i \in 1 .. Len(middle) : list[2 + i] = middle[i]
             /\ list[3 + Len(middle)] = d /\ list[4 + Len(middle)] = e
<1> DEFINE first == <<a, b>>
           last == <<d, e>>
           most == first \o middle
           list == most \o last
<1>1. /\ first \in Seq(S) /\ Len(first) = 2 /\ first[1] = a /\ first[2] = b
      /\ last \in Seq(S) /\ Len(last) = 2 /\ last[1] = d /\ last[2] = e
  OBVIOUS
<1>2. Len(middle) \in Nat
  BY LenProperties
<1> HIDE DEF first, last
<1>3. /\ most \in Seq(S) /\ Len(most) = Len(first) + Len(middle)
      /\ \A i \in 1 .. Len(first) + Len(middle) :
           most[i] = IF i <= Len(first) THEN first[i] ELSE middle[i - Len(first)]
  <2>1. first \in Seq(S)
    BY <1>1
  <2> QED
    BY <2>1, ConcatProperties, Zenon
<1> HIDE DEF most
<1>4. /\ list \in Seq(S) /\ Len(list) = Len(most) + Len(last)
      /\ \A i \in 1 .. Len(most) + Len(last) :
           list[i] = IF i <= Len(most) THEN most[i] ELSE last[i - Len(most)]
  <2>1. most \in Seq(S) /\ last \in Seq(S)
    BY <1>1, <1>3
  <2> QED
    BY <2>1, ConcatProperties, Zenon
<1>5. DOMAIN list = 1 .. Len(list)
  BY <1>4, LenProperties
<1> HIDE DEF list
<1>6. Len(most) = 2 + Len(middle) /\ Len(list) = 4 + Len(middle)
  BY <1>1, <1>2, <1>3, <1>4
<1>7. list[1] = a /\ list[2] = b
  <2>1. 1 \in 1 .. Len(most) /\ 2 \in 1 .. Len(most)
    BY <1>2, <1>6
  <2>2. list[1] = most[1] /\ list[2] = most[2]
    BY <1>1, <1>2, <1>4, <1>6, <2>1
  <2>3. most[1] = first[1] /\ most[2] = first[2]
    BY <1>1, <1>2, <1>3
  <2> QED
    BY <1>1, <2>2, <2>3
<1>8. ASSUME NEW i \in 1 .. Len(middle) PROVE list[2 + i] = middle[i]
  <2>1. list[2 + i] = most[2 + i]
    BY <1>1, <1>2, <1>4, <1>6
  <2>2. 2 + i \in 1 .. Len(first) + Len(middle) /\ ~(2 + i <= Len(first))
        /\ (2 + i) - Len(first) = i
    BY <1>1, <1>2
  <2>3. most[2 + i] = middle[(2 + i) - Len(first)]
    BY <1>3, <2>2
  <2> QED
    BY <2>1, <2>2, <2>3
<1>9. list[3 + Len(middle)] = d /\ list[4 + Len(middle)] = e
  <2>1. list[3 + Len(middle)] = last[1]
    BY <1>1, <1>2, <1>4, <1>6
  <2>2. list[4 + Len(middle)] = last[2]
    BY <1>1, <1>2, <1>4, <1>6
  <2> QED
    BY <1>1, <2>1, <2>2
<1>10. /\ DOMAIN list = 1 .. 4 + Len(middle)
       /\ list[1] = a /\ list[2] = b
       /\ \A i \in 1 .. Len(middle) : list[2 + i] = middle[i]
       /\ list[3 + Len(middle)] = d /\ list[4 + Len(middle)] = e
  BY <1>5, <1>6, <1>7, <1>8, <1>9
<1> QED
  BY <1>10 DEF list, most, first, last

\* What the strip says, from what there is in a list.
LEMMA HeadlineFrom ==
  ASSUME NEW list
  PROVE  /\ (\E i \in DOMAIN list : list[i].by = "model") => Headline(list) = "model"
         /\ (\A i \in DOMAIN list : list[i].by # "model") =>
              /\ list[1].stage = "REPLY" => Headline(list) = "keywords"
              /\ list[1].stage # "REPLY" =>
                   /\ (\E i \in DOMAIN list : list[i].stage = "DIAGNOSE L2")
                        => Headline(list) = "fallback"
                   /\ (\A i \in DOMAIN list : list[i].stage # "DIAGNOSE L2")
                        => Headline(list) = "lookup"
<1>1. ModelCards(list) = {} <=> \A i \in DOMAIN list : list[i].by # "model"
  BY DEF ModelCards
<1>2. CASE ModelCards(list) # {}
  <2>1. Headline(list) = "model"
    BY <1>2 DEF Headline
  <2> QED
    BY <1>1, <1>2, <2>1
<1>3. CASE ModelCards(list) = {} /\ list[1].stage = "REPLY"
  <2>1. Headline(list) = "keywords"
    BY <1>3 DEF Headline
  <2> QED
    BY <1>1, <1>3, <2>1
<1>4. CASE ModelCards(list) = {} /\ list[1].stage # "REPLY"
  <2>1. CASE \E i \in DOMAIN list : list[i].stage = "DIAGNOSE L2"
    <3>1. Headline(list) = "fallback"
      BY <1>4, <2>1 DEF Headline
    <3> QED
      BY <1>1, <1>4, <2>1, <3>1
  <2>2. CASE \A i \in DOMAIN list : list[i].stage # "DIAGNOSE L2"
    <3>1. Headline(list) = "lookup"
      BY <1>4, <2>2 DEF Headline
    <3> QED
      BY <1>1, <1>4, <2>2, <3>1
  <2> QED
    BY <2>1, <2>2
<1> QED
  BY <1>2, <1>3, <1>4

\* The strip above a preview: by where the diagnosis came from.
LEMMA PreviewHeadline ==
  ASSUME NEW source \in Sources
  PROVE  Headline(PreviewStages(source)) = Truth(source)
<1> DEFINE a == Stage("DETECT", "detector")
           b == Stage("DIAGNOSE L1", "table")
           c == Stage("DIAGNOSE L2", Badge(source))
           d == Stage("POLICY", "table")
           e == Stage("GUARDRAILS", "gate")
           middle == IF source = "table" THEN <<>> ELSE <<c>>
           list == <<a, b>> \o middle \o <<d, e>>
           S == {a, b, c, d, e}
<1>1. /\ a.stage = "DETECT" /\ b.stage = "DIAGNOSE L1" /\ c.stage = "DIAGNOSE L2"
      /\ d.stage = "POLICY" /\ e.stage = "GUARDRAILS"
      /\ a.by = "detector" /\ b.by = "table" /\ d.by = "table" /\ e.by = "gate"
      /\ c.by = Badge(source) /\ Badge(source) = IF source = "model" THEN "model" ELSE "table"
  BY DEF Stage, Badge
<1>2. PreviewStages(source) = list
  BY DEF PreviewStages
<1>3. middle \in Seq(S) /\ (source = "table" => Len(middle) = 0)
      /\ (source # "table" => Len(middle) = 1 /\ middle[1] = c)
  <2> HIDE DEF a, b, c, d, e
  <2>1. <<c>> \in Seq(S) /\ Len(<<c>>) = 1 /\ <<c>>[1] = c
    OBVIOUS
  <2>2. <<>> \in Seq(S) /\ Len(<<>>) = 0
    BY EmptySeq
  <2> QED
    BY <2>1, <2>2
<1>4. a \in S /\ b \in S /\ d \in S /\ e \in S
  OBVIOUS
<1> HIDE DEF a, b, c, d, e, S, middle
<1>5. /\ DOMAIN list = 1 .. 4 + Len(middle)
      /\ list[1] = a /\ list[2] = b
      /\ \A i \in 1 .. Len(middle) : list[2 + i] = middle[i]
      /\ list[3 + Len(middle)] = d /\ list[4 + Len(middle)] = e
  BY <1>3, <1>4, AroundTheMiddle
<1> HIDE DEF list
<1>6. CASE source = "table"
  <2>1. /\ DOMAIN list = {1, 2, 3, 4}
        /\ list[1] = a /\ list[2] = b /\ list[3] = d /\ list[4] = e
    BY <1>3, <1>5, <1>6
  <2>2. \A i \in {1, 2, 3, 4} : list[i].by # "model" /\ list[i].stage \notin {"REPLY", "DIAGNOSE L2"}
    BY <1>1, <2>1
  <2>3. Headline(list) = "lookup"
    BY <2>1, <2>2, HeadlineFrom
  <2> QED
    BY <1>2, <1>6, <2>3 DEF Truth
<1>7. CASE source # "table"
  <2>1. /\ DOMAIN list = {1, 2, 3, 4, 5}
        /\ list[1] = a /\ list[2] = b /\ list[3] = c /\ list[4] = d /\ list[5] = e
    <3>1. Len(middle) = 1 /\ middle[1] = c
      BY <1>3, <1>7
    <3>2. 1 \in 1 .. Len(middle) /\ 2 + 1 = 3 /\ 3 + 1 = 4 /\ 4 + 1 = 5
      BY <3>1
    <3>3. list[3] = middle[1] /\ list[4] = d /\ list[5] = e
      BY <1>5, <3>1, <3>2
    <3>4. DOMAIN list = 1 .. 5
      BY <1>5, <3>1, <3>2
    <3> QED
      BY <1>5, <3>1, <3>3, <3>4
  <2>2. CASE source = "model"
    <3>1. Headline(list) = "model"
      BY <1>1, <2>1, <2>2, HeadlineFrom
    <3> QED
      BY <1>2, <2>2, <3>1 DEF Truth
  <2>3. CASE source = "fallback"
    <3>1. \A i \in {1, 2, 3, 4, 5} : list[i].by # "model"
      BY <1>1, <2>1, <2>3
    <3>2. list[1].stage # "REPLY" /\ list[3].stage = "DIAGNOSE L2"
      BY <1>1, <2>1
    <3>3. Headline(list) = "fallback"
      BY <2>1, <3>1, <3>2, HeadlineFrom
    <3> QED
      BY <1>2, <2>3, <3>3 DEF Truth
  <2> QED
    BY <1>7, <2>2, <2>3 DEF Sources
<1> QED
  BY <1>6, <1>7

\* The strip above a committed trace, but for the fallback.
LEMMA CommittedHeadline ==
  ASSUME NEW source \in Sources \ {"fallback"}
  PROVE  Headline(CommittedStages(source)) = Truth(source)
<1> DEFINE list == CommittedStages(source)
<1>1. /\ DOMAIN list = {1, 2, 3, 4, 5}
      /\ list[1] = Stage("DETECT", "detector") /\ list[2] = Stage("DIAGNOSE", Badge(source))
      /\ list[3] = Stage("DECIDE", "table") /\ list[4] = Stage("GUARDRAIL", "gate")
      /\ list[5] = Stage("EXECUTE", "runner")
  BY DEF CommittedStages
<1> HIDE DEF list
<1>2. /\ list[1].stage = "DETECT" /\ list[2].stage = "DIAGNOSE"
      /\ list[3].stage = "DECIDE" /\ list[4].stage = "GUARDRAIL" /\ list[5].stage = "EXECUTE"
  BY <1>1 DEF Stage
<1>3. list[2].by = Badge(source) /\ \A i \in {1, 3, 4, 5} : list[i].by # "model"
  BY <1>1 DEF Stage
<1>4. CASE source = "table"
  <2>1. \A i \in {1, 2, 3, 4, 5} : list[i].by # "model"
    BY <1>3, <1>4 DEF Badge
  <2>2. Headline(list) = "lookup"
    BY <1>1, <1>2, <2>1, HeadlineFrom
  <2> QED
    BY <1>4, <2>2 DEF Truth, list
<1>5. CASE source = "model"
  <2>1. Headline(list) = "model"
    BY <1>1, <1>3, <1>5, HeadlineFrom DEF Badge
  <2> QED
    BY <1>5, <2>1 DEF Truth, list
<1> QED
  BY <1>4, <1>5 DEF Sources

\* The strip above the reading of a reply.
LEMMA ReplyHeadline ==
  ASSUME NEW source \in {"model", "fallback"}
  PROVE  Headline(ReplyStages(source)) = (IF source = "model" THEN "model" ELSE "keywords")
<1> DEFINE list == ReplyStages(source)
<1>1. /\ DOMAIN list = {1, 2, 3, 4}
      /\ list[1] = Stage("REPLY", "detector") /\ list[2] = Stage("READ", Badge(source))
      /\ list[3] = Stage("CONFIDENCE", "gate") /\ list[4] = Stage("EFFECT", "table")
  BY DEF ReplyStages
<1> HIDE DEF list
<1>2. /\ list[1].stage = "REPLY" /\ list[2].by = Badge(source)
      /\ \A i \in {1, 3, 4} : list[i].by # "model"
  BY <1>1 DEF Stage
<1>3. CASE source = "fallback"
  <2>1. \A i \in {1, 2, 3, 4} : list[i].by # "model"
    BY <1>2, <1>3 DEF Badge
  <2>2. Headline(list) = "keywords"
    BY <1>1, <1>2, <2>1, HeadlineFrom
  <2> QED
    BY <1>3, <2>2 DEF list
<1>4. CASE source = "model"
  <2>1. Headline(list) = "model"
    BY <1>1, <1>2, <1>4, HeadlineFrom DEF Badge
  <2> QED
    BY <1>4, <2>1 DEF list
<1> QED
  BY <1>3, <1>4

\* The strip names who decided, told from the stages alone: the model where it
\* produced the label and only there, the table or the fallback where it did not.
THEOREM HeadlineTrue == Spec => []HeadlineIsTrue
<1>1. Init => TraceIsAnAnswer
  BY DEF Init, TryInit, TraceIsAnAnswer
<1>2. TraceIsAnAnswer => HeadlineIsTrue
  <2> SUFFICES ASSUME TraceIsAnAnswer,
                      trace.of # "nothing", ~(trace.committed /\ trace.from = "fallback")
               PROVE  Headline(trace.stages) = Truth(trace.from)
    BY ReplyHeadline DEF HeadlineIsTrue
  <2>1. PICK x : \E committed \in BOOLEAN : \E source \in Sources :
          trace = TraceOf(x, committed, source)
    BY DEF TraceIsAnAnswer, NoTrace
  <2>2. PICK committed \in BOOLEAN : \E source \in Sources : trace = TraceOf(x, committed, source)
    BY <2>1
  <2>3. PICK source \in Sources : trace = TraceOf(x, committed, source)
    BY <2>2
  <2>4. /\ trace.committed = committed /\ trace.from = source
        /\ trace.stages = IF committed THEN CommittedStages(source) ELSE PreviewStages(source)
    BY <2>3 DEF TraceOf
  <2> QED
    BY <2>4, PreviewHeadline, CommittedHeadline
<1> QED
  BY <1>1, <1>2, TraceStep, PTL DEF Spec
=============================================================================
