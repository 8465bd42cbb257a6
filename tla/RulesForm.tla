------------------------------ MODULE RulesForm ------------------------------
(***************************************************************************)
(* The rules screen (ui/src/components/RulesStudio.tsx): thresholds typed  *)
(* into a draft, replayed without saving, or applied one guardrail section *)
(* after another, each section written back whole: its fields as the form  *)
(* last loaded them, with the typed one on top.                            *)
(*                                                                         *)
(* A section stands for a guardrail with one threshold the form offers,    *)
(* "tuned", and the fields it does not, "rest".  The change history, which *)
(* loads with the rules, the banners and the result of a replay are left   *)
(* out.  A replay is answered in one step; that it holds the lock for      *)
(* minutes is modelled in RulesStudio.                                     *)
(***************************************************************************)
EXTENDS ApiCall

CONSTANTS
  Sections,   \* 1 .. n, in the order of TUNABLE
  MaxOthers   \* bound on the edits of others

ASSUME FormAssumption ==
  /\ Sections \subseteq Nat \ {0}
  /\ MaxOthers \in Nat
  /\ "tab" \in Callers

VARIABLES
  live,      \* the server: the rules in force
  others,    \* how often somebody else has edited them
  snap,      \* the rules the form has loaded
  draft,     \* what has been typed over them
  doing,     \* busy: "none", "replay", "apply" or "reset"
  todo,      \* the overrides of the pending apply
  sent,      \* the last section of it that was posted
  loading,   \* "no", "asked" or "read"
  fetched,   \* what a load has read
  excused    \* history: since the rules were last read, something happened that
             \* the form was not told of, or after which it did not load them

formVars == <<live, others, snap, draft, doing, todo, sent, loading, fetched,
              excused>>

Values == {"shipped", "typed", "unsound"}
Untyped == [s \in Sections |-> "untyped"]
Shipped == [s \in Sections |-> [tuned |-> "shipped", rest |-> "shipped"]]
Unloaded == [s \in Sections |-> [tuned |-> "unread", rest |-> "unread"]]

Typed(d) == {s \in Sections : d[s] # "untyped"}

\* edited: the thresholds typed that differ from what was loaded.  They are what a
\* replay or an apply sends.
Edited == {s \in Typed(draft) : draft[s] # snap[s].tuned}
Overrides == [s \in Sections |-> IF s \in Edited THEN draft[s] ELSE "untyped"]

\* validate_guardrail_config: the bounds of one section.
Sound(v) == v # "unsound"

\* A fresh form: the screen opens and asks for the rules, or is taken down.
FormFresh(l) ==
  /\ snap' = Unloaded /\ draft' = Untyped
  /\ doing' = "none" /\ todo' = Untyped /\ sent' = 0
  /\ loading' = l /\ fetched' = Unloaded
  /\ excused' = FALSE
  /\ UNCHANGED <<live, others>>

FormInit ==
  /\ live = Shipped /\ others = 0
  /\ snap = Unloaded /\ draft = Untyped
  /\ doing = "none" /\ todo = Untyped /\ sent = 0
  /\ loading = "no" /\ fetched = Unloaded
  /\ excused = FALSE

-----------------------------------------------------------------------------
\* load(): GET /api/admin/rules is answered now ...
LoadReads ==
  /\ loading = "asked"
  /\ loading' = "read"
  /\ fetched' = live
  /\ excused' = FALSE
  /\ UNCHANGED <<callVars, live, others, snap, draft, doing, todo, sent>>

\* ... and the form shows it; an apply or a reset that waited for it ends.
LoadDone ==
  /\ loading = "read"
  /\ loading' = "no"
  /\ snap' = fetched /\ fetched' = Unloaded
  /\ doing' = "none" /\ todo' = Untyped /\ sent' = 0
  /\ UNCHANGED <<callVars, live, others, draft, excused>>

\* What is on screen stays on screen: at first, the skeletons.
LoadFails ==
  /\ loading # "no"
  /\ loading' = "no"
  /\ fetched' = Unloaded
  /\ doing' = "none" /\ todo' = Untyped /\ sent' = 0
  /\ excused' = TRUE
  /\ UNCHANGED <<callVars, live, others, snap, draft>>

\* A number is typed or blanked out; nothing is disabled while a button is busy.
Type(s, v) ==
  /\ snap # Unloaded
  /\ draft' = [draft EXCEPT ![s] = v]
  /\ UNCHANGED <<callVars, live, others, snap, doing, todo, sent, loading, fetched,
                 excused>>

-----------------------------------------------------------------------------
Idle == snap # Unloaded /\ doing = "none"

\* runReplay.
ClickReplay ==
  /\ Idle /\ Edited # {}
  /\ Send("tab", [kind |-> "replay", overrides |-> Overrides])
  /\ doing' = "replay"
  /\ UNCHANGED <<live, others, snap, draft, todo, sent, loading, fetched, excused>>

\* A diff, a list of problems or an error; a 409 is worded as a replay of this tab
\* that is still going.
ReplayAnswered ==
  /\ doing = "replay"
  /\ \/ \E r \in {"done", "refused", "busy"} : Returns("tab", r)
     \/ GivesUp("tab")
  /\ doing' = "none"
  /\ UNCHANGED <<live, others, snap, draft, todo, sent, loading, fetched, excused>>

\* applyAll, with the overrides of the moment of the click.
ClickApply ==
  /\ Idle /\ Edited # {}
  /\ doing' = "apply"
  /\ todo' = Overrides
  /\ UNCHANGED <<callVars, live, others, snap, draft, sent, loading, fetched,
                 excused>>

\* The loop goes over the overrides in the order of TUNABLE.
IsNext(s) == s \in Typed(todo) /\ s > sent /\ \A t \in Typed(todo) : t > sent => s <= t

\* Mutation: the fields the form does not offer are not sent back.
PostBareSection ==
  \E s \in Sections :
    /\ doing = "apply" /\ loading = "no" /\ IsNext(s)
    /\ Send("tab", [kind |-> "set", section |-> s,
                      config |-> [tuned |-> todo[s], rest |-> "dropped"]])
    /\ sent' = s
    /\ UNCHANGED <<live, others, snap, draft, doing, todo, loading, fetched,
                   excused>>

\* The next section of the loop, merged over what was loaded.
PostSection ==
  \E s \in Sections :
    /\ doing = "apply" /\ loading = "no" /\ IsNext(s)
    /\ Send("tab", [kind |-> "set", section |-> s,
                      config |-> [snap[s] EXCEPT !.tuned = todo[s]]])
    /\ sent' = s
    /\ UNCHANGED <<live, others, snap, draft, doing, todo, loading, fetched,
                   excused>>

\* Mutation: a section that is refused does not stop the loop.
SectionTakenOrNot ==
  /\ doing = "apply"
  /\ Returns("tab", "done") \/ Returns("tab", "refused")
  /\ IF \E s \in Sections : IsNext(s)
       THEN UNCHANGED <<draft, loading>>
       ELSE draft' = Untyped /\ loading' = "asked"
  /\ UNCHANGED <<live, others, snap, doing, todo, sent, fetched, excused>>

\* Accepted; after the last one the draft is cleared and the rules load again.
SectionTaken ==
  /\ doing = "apply"
  /\ Returns("tab", "done")
  /\ IF \E s \in Sections : IsNext(s)
       THEN UNCHANGED <<draft, loading>>
       ELSE draft' = Untyped /\ loading' = "asked"
  /\ UNCHANGED <<live, others, snap, doing, todo, sent, fetched, excused>>

\* Mutation: the loop starts again until every section is taken.
ApplyRetries ==
  /\ doing = "apply"
  /\ Returns("tab", "refused") \/ Returns("tab", "denied") \/ GivesUp("tab")
  /\ excused' = TRUE
  /\ sent' = 0
  /\ UNCHANGED <<live, others, snap, draft, doing, todo, loading, fetched>>

\* One section fails: the rest is not sent, the draft stays, nothing is loaded.
ApplyStops ==
  /\ doing = "apply"
  /\ \/ /\ Returns("tab", "refused") \/ Returns("tab", "denied")
        /\ excused' = (excused \/ \E s \in Typed(todo) : s < sent)
     \/ /\ GivesUp("tab")
        /\ excused' = TRUE
  /\ doing' = "none" /\ todo' = Untyped /\ sent' = 0
  /\ UNCHANGED <<live, others, snap, draft, loading, fetched>>

\* resetAll.
ClickReset ==
  /\ Idle
  /\ Send("tab", [kind |-> "reset"])
  /\ doing' = "reset"
  /\ UNCHANGED <<live, others, snap, draft, todo, sent, loading, fetched, excused>>

\* Mutation: the rules are not loaded again.
ResetUnread ==
  /\ doing = "reset"
  /\ \/ /\ Returns("tab", "done")
        /\ draft' = Untyped
        /\ UNCHANGED excused
     \/ /\ Returns("tab", "denied")
        /\ UNCHANGED <<draft, excused>>
     \/ /\ GivesUp("tab")
        /\ excused' = TRUE
        /\ UNCHANGED draft
  /\ doing' = "none"
  /\ UNCHANGED <<live, others, snap, todo, sent, loading, fetched>>

\* Only a reset nobody heard of again may have been carried out unseen; one that was
\* denied was not.
ResetAnswered ==
  /\ doing = "reset"
  /\ \/ /\ Returns("tab", "done")
        /\ draft' = Untyped
        /\ loading' = "asked"
        /\ UNCHANGED <<doing, excused>>
     \/ /\ \/ Returns("tab", "denied") /\ UNCHANGED excused
           \/ GivesUp("tab") /\ excused' = TRUE
        /\ doing' = "none"
        /\ UNCHANGED <<draft, loading>>
  /\ UNCHANGED <<live, others, snap, todo, sent, fetched>>

-----------------------------------------------------------------------------
FormWrites == {"replay", "set", "reset"}

\* The endpoints: the token first, then the validation; a replay needs the lock,
\* which anybody may hold.
FormVerdicts(w, with) ==
  CASE w.kind = "set" ->
         {Answer(w, with, IF Sound(w.config.tuned) THEN "done" ELSE "refused")}
    [] w.kind = "reset" -> {Answer(w, with, "done")}
    [] w.kind = "replay" ->
         IF \E s \in Sections : ~Sound(w.overrides[s]) THEN {"refused"}
         ELSE {"done", "busy"}

After(w, r) ==
  CASE r = "done" /\ w.kind = "set" -> [live EXCEPT ![w.section] = w.config]
    [] r = "done" /\ w.kind = "reset" -> Shipped
    [] OTHER -> live

\* The server handles a write of the form; one the form gave up on takes effect
\* behind its back.
ServeForm ==
  /\ \/ LET w == call["tab"].what
        IN /\ w.kind \in FormWrites
           /\ \E r \in FormVerdicts(w, call["tab"].with) :
                Serve("tab", r) /\ live' = After(w, r)
           /\ UNCHANGED excused
     \/ \E s \in {x \in stray : x.what.kind \in FormWrites} :
          /\ \E r \in FormVerdicts(s.what, s.with) :
               ServeStray(s, r) /\ live' = After(s.what, r)
          /\ excused' = TRUE
  /\ UNCHANGED <<others, snap, draft, doing, todo, sent, loading, fetched>>

\* Somebody else edits a section; a batch that empties the database resets them all.
OthersEdit ==
  /\ others < MaxOthers
  /\ others' = others + 1
  /\ \/ \E s \in Sections : live' = [live EXCEPT ![s].rest = "foreign"]
     \/ live' = Shipped
  /\ excused' = TRUE
  /\ UNCHANGED <<callVars, snap, draft, doing, todo, sent, loading, fetched>>

\* What the operator does to a form that is on screen ...
FormInput ==
  \/ \E s \in Sections, v \in {"typed", "unsound", "untyped"} : Type(s, v)
  \/ ClickReplay \/ ClickApply \/ ClickReset

\* ... and what goes on without one, on screen or not.
FormGoesOn ==
  \/ LoadReads \/ LoadDone \/ LoadFails
  \/ ReplayAnswered
  \/ PostSection \/ SectionTaken \/ ApplyStops
  \/ ResetAnswered
  \/ ServeForm \/ OthersEdit

FormQuiet == doing = "none" /\ loading = "no"

-----------------------------------------------------------------------------
Configs == [tuned : Values \union {"unread"}, rest : {"shipped", "foreign", "unread"}]

FormTypeOK ==
  /\ {live, snap, fetched} \subseteq [Sections -> Configs]
  /\ others \in 0 .. MaxOthers
  /\ {draft, todo} \subseteq [Sections -> Values \union {"untyped"}]
  /\ doing \in {"none", "replay", "apply", "reset"}
  /\ sent \in Sections \union {0}
  /\ loading \in {"no", "asked", "read"}
  /\ excused \in BOOLEAN

\* Between actions the form shows the rules in force: it loads them again after
\* every write it knows the server took, and can be behind only by somebody else's
\* edit, by a write it gave up on, by an apply that stopped half-way or by a load
\* that failed.
ShownIsLive == Idle /\ loading = "no" /\ ~excused => snap = live

\* Saving a threshold changes no field it was not asked to change, as long as the
\* operator is the only one who edits.
NothingElseChanges == others = 0 => \A s \in Sections : live[s].rest = "shipped"

\* An apply that clears what was typed has put every override in force.
ClearedMeansSaved ==
  doing = "apply" /\ loading = "asked" /\ ~excused =>
    \A s \in Typed(todo) : live[s].tuned = todo[s]
=============================================================================
