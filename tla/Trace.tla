-------------------------------- MODULE Trace --------------------------------
(***************************************************************************)
(* The trace of a submission or a reply: its stages with who decided each, *)
(* as reclaim/sandbox.py lists them, and the sentence that the strip       *)
(* (ui/src/components/Trace.tsx) puts above them.                          *)
(*                                                                         *)
(* A source is what the diagnosis, or the reading of a reply, came from:   *)
(* the table of layer 1, the model, or the fallback when no model answered *)
(* or none was wanted.                                                     *)
(***************************************************************************)
EXTENDS Naturals, Sequences, FiniteSets

Sources == {"table", "model", "fallback"}

Stage(name, decider) == [stage |-> name, by |-> decider]

\* Mutation: whatever is not in the table of layer 1 is the model's.
BadgeByLayer(source) == IF source = "table" THEN "table" ELSE "model"

\* Only a label that the model produced carries the model's badge.
Badge(source) == IF source = "model" THEN "model" ELSE "table"

\* _evaluate: layer 2 has a card of its own, if layer 1 had no answer.
PreviewStages(source) ==
  <<Stage("DETECT", "detector"), Stage("DIAGNOSE L1", "table")>>
  \o (IF source = "table" THEN <<>> ELSE <<Stage("DIAGNOSE L2", Badge(source))>>)
  \o <<Stage("POLICY", "table"), Stage("GUARDRAILS", "gate")>>

\* _trace_from_audit: the rows of the audit log, one for the whole diagnosis.  What
\* the gate, the executor and the settlement log depends on the record.
CommittedStages(source) ==
  <<Stage("DETECT", "detector"), Stage("DIAGNOSE", Badge(source)),
    Stage("DECIDE", "table"), Stage("GUARDRAIL", "gate"), Stage("EXECUTE", "runner")>>

\* read_reply: there is no layer 1, keywords stand in for the model.
ReplyStages(source) ==
  <<Stage("REPLY", "detector"), Stage("READ", Badge(source)),
    Stage("CONFIDENCE", "gate"), Stage("EFFECT", "table")>>

-----------------------------------------------------------------------------
ModelCards(stages) == {i \in DOMAIN stages : stages[i].by = "model"}

\* "Who decided": what the strip says about the model, told from the stages alone.
Headline(stages) ==
  LET reply == stages[1].stage = "REPLY"
  IN  CASE ModelCards(stages) # {} -> "model"
        [] ModelCards(stages) = {} /\ reply -> "keywords"
        [] ModelCards(stages) = {} /\ ~reply
             /\ \E i \in DOMAIN stages : stages[i].stage = "DIAGNOSE L2" -> "fallback"
        [] OTHER -> "lookup"

Truth(source) ==
  CASE source = "model" -> "model" [] source = "table" -> "lookup"
    [] source = "fallback" -> "fallback"
=============================================================================
