-------------------------------- MODULE TryIt --------------------------------
(***************************************************************************)
(* The sandbox labs of the dashboard (ui/src/components/TryIt.tsx,         *)
(* ReplyLab.tsx and Guardrails.tsx).  Classify previews or commits what is *)
(* on its form, one button at a time.  The reply lab and the guardrail lab *)
(* ask the server about a text or a set of dials; a preset fills them in   *)
(* and asks at once, whether or not an answer is still on its way.         *)
(*                                                                         *)
(* A subject is what a form or a set of dials describes.                   *)
(***************************************************************************)
EXTENDS ApiCall, Trace

CONSTANTS
  Subjects,   \* what can be described
  Asks        \* the questions of a lab in flight at once: a bound

ASSUME LabAssumption ==
  /\ "nothing" \notin Subjects
  /\ Asks \subseteq Nat
  /\ "tab" \in Callers

VARIABLES
  form,      \* Classify: what the form describes
  pressed,   \* Classify: "none", "preview", "commit" or "wipe"
  trace,     \* Classify: the trace shown: its subject, whether it was committed, its
             \* stages, and, history, where the diagnosis came from
  dials,     \* a lab: what its dials describe
  asks,      \* the bodies of its questions in flight, or "nothing"
  waits,     \* its button is busy
  shown,     \* what the answer on screen is about
  meant,     \* history: what the last question was meant to be about
  crossed    \* history: since the lab was last at rest, two questions were in
             \* flight at once, or one of them failed

tryVars == <<form, pressed, trace, dials, asks, waits, shown, meant, crossed>>

NoTrace == [of |-> "nothing", committed |-> FALSE, stages |-> <<>>, from |-> "table"]

\* The answer of /api/sandbox/preview and /api/sandbox/commit.
TraceOf(x, committed, source) ==
  [of |-> x, committed |-> committed, from |-> source,
   stages |-> IF committed THEN CommittedStages(source) ELSE PreviewStages(source)]

ClassifyFresh ==
  /\ form' = "nothing" /\ pressed' = "none" /\ trace' = NoTrace

\* The reply lab starts with no text, the guardrail lab with its defaults.
LabFresh(d) ==
  /\ dials' = d /\ asks' = [i \in Asks |-> "nothing"] /\ waits' = FALSE
  /\ shown' = "nothing" /\ meant' = "nothing" /\ crossed' = FALSE

TryInit ==
  /\ form = "nothing" /\ pressed = "none" /\ trace = NoTrace
  /\ dials = "nothing" /\ asks = [i \in Asks |-> "nothing"] /\ waits = FALSE
  /\ shown = "nothing" /\ meant = "nothing" /\ crossed = FALSE

labVars == <<dials, asks, waits, shown, meant, crossed>>
classifyVars == <<form, pressed, trace>>

-----------------------------------------------------------------------------
\* applyPreset fills in the form and clears the trace; typing leaves it.
FillIn(x) ==
  /\ form' = x
  /\ trace' \in {trace, NoTrace}
  /\ UNCHANGED <<callVars, pressed, labVars>>

\* run() and reset(): the three buttons are disabled while one of them is busy.
Press(b) ==
  /\ pressed = "none"
  /\ pressed' = b
  /\ Send("tab", [kind |-> b, of |-> form])
  /\ UNCHANGED <<form, trace, labVars>>

\* The trace shown is the one that comes back, whatever the form says by now; a
\* refusal or an error leaves the old one.
PressAnswered ==
  /\ pressed # "none"
  /\ \/ /\ Returns("tab", "done")
        /\ \E source \in Sources :
             trace' = IF pressed = "wipe" THEN NoTrace
                      ELSE TraceOf(call["tab"].what.of, pressed = "commit", source)
     \/ /\ Returns("tab", "busy") \/ GivesUp("tab")
        /\ UNCHANGED trace
  /\ pressed' = "none"
  /\ UNCHANGED <<form, labVars>>

-----------------------------------------------------------------------------
AtRest == \A i \in Asks : asks[i] = "nothing"

\* evaluate() and read(): the body is fixed by the call.
Ask(body, meaning) ==
  \E i \in Asks :
    /\ asks[i] = "nothing"
    /\ \A j \in Asks : j < i => asks[j] # "nothing"
    /\ asks' = [asks EXCEPT ![i] = body]
    /\ waits' = TRUE
    /\ meant' = meaning
    /\ crossed' = ~AtRest

\* The dials are turned, or the text is typed.
Turn(x) ==
  /\ dials' = x
  /\ UNCHANGED <<callVars, classifyVars, asks, waits, shown, meant, crossed>>

\* Mutation: the preset asks about the dials of the last render.
PresetStale(x) ==
  /\ dials' = x
  /\ Ask(IF dials = "nothing" THEN x ELSE dials, x)
  /\ UNCHANGED <<callVars, classifyVars, shown>>

\* A scenario or a preset reply: it sets the dials and asks about what it has set,
\* not about the dials of the last render.
Preset(x) ==
  /\ dials' = x
  /\ Ask(x, x)
  /\ UNCHANGED <<callVars, classifyVars, shown>>

\* The lab's own button, which needs a text and is disabled while it is busy.
AskNow ==
  /\ ~waits
  /\ dials # "nothing"
  /\ Ask(dials, dials)
  /\ UNCHANGED <<callVars, classifyVars, dials, shown>>

\* The first answer to come back ends the waiting of all of them, the last one
\* stays on screen.
LabAnswered(i) ==
  /\ asks[i] # "nothing"
  /\ asks' = [asks EXCEPT ![i] = "nothing"]
  /\ waits' = FALSE
  /\ \/ shown' = asks[i] /\ UNCHANGED crossed
     \/ crossed' = TRUE /\ UNCHANGED shown
  /\ UNCHANGED <<callVars, classifyVars, dials, meant>>

-----------------------------------------------------------------------------
TryWrites == {"preview", "commit", "wipe"}

\* A preview writes nothing and needs no lock; a commit and the reset of the demo
\* do, and anybody may hold it.
TryVerdicts(w) == IF w.kind = "preview" THEN {"done"} ELSE {"done", "busy"}

ServeTry ==
  /\ \/ /\ call["tab"].what.kind \in TryWrites
        /\ \E r \in TryVerdicts(call["tab"].what) : Serve("tab", r)
     \/ \E s \in {x \in stray : x.what.kind \in TryWrites} :
          \E r \in TryVerdicts(s.what) : ServeStray(s, r)
  /\ UNCHANGED tryVars

ClassifyInput ==
  \/ \E x \in Subjects : FillIn(x)
  \/ \E b \in {"preview", "commit", "wipe"} : Press(b)

LabInput ==
  \/ \E x \in Subjects : Turn(x) \/ Preset(x)
  \/ AskNow

TryGoesOn == PressAnswered \/ (\E i \in Asks : LabAnswered(i)) \/ ServeTry

TryQuiet == pressed = "none" /\ AtRest

-----------------------------------------------------------------------------
TryTypeOK ==
  /\ {form, dials, shown, meant} \subseteq Subjects \union {"nothing"}
  /\ pressed \in {"none", "preview", "commit", "wipe"}
  /\ trace.of \in Subjects \union {"nothing"} /\ trace.from \in Sources
  /\ asks \in [Asks -> Subjects \union {"nothing"}]
  /\ {waits, crossed} \subseteq BOOLEAN

\* The strip names who decided: the model where it produced the label, and only
\* there, the table of layer 1 or the fallback where it did not.  Left out: a
\* committed trace of the fallback, which has no card for layer 2, so that the strip
\* says layer 1 resolved it.
HeadlineIsTrue ==
  /\ trace.of # "nothing" /\ ~(trace.committed /\ trace.from = "fallback") =>
       Headline(trace.stages) = Truth(trace.from)
  /\ shown # "nothing" =>
       \A source \in {"model", "fallback"} :
         Headline(ReplyStages(source)) = (IF source = "model" THEN "model" ELSE "keywords")

\* The answer on screen is about what the visitor last asked: a question overtaken
\* by another, or one that failed, is the only way it can be about something else.
AnswersTheQuestion == AtRest /\ ~crossed => shown = meant
=============================================================================
