------------------------------ MODULE Webhooks ------------------------------
(***************************************************************************)
(* attribution.handle(), one statement group at a time.  It runs on two    *)
(* threads of one process: the API's event loop, which serves one delivery *)
(* from Razorpay after another, and the batch thread, which puts the       *)
(* simulator's events through the same code.  Each thread has one "hand".  *)
(*                                                                         *)
(* Razorpay is external: it delivers an event it emitted any number of     *)
(* times, in any order, and stops only when it likes.  Signatures are      *)
(* taken as verified; a malformed or unhandled event changes no books.     *)
(***************************************************************************)
EXTENDS Attribution

CONSTANT RealEvents  \* events Razorpay may emit, a subset of Events

ASSUME EventsAssumption ==
  \A e \in RealEvents : e.rec \in Records /\ e.ok \in BOOLEAN

\* An event is about a payment on a link (or order) of ours, or on an order the
\* merchant had before us.  by = "ref" if it names our link's id, "note" if it
\* carries only the record id we stamped on it, "source" if neither.  Its id is a
\* pair: what raised it, and a number.
NoLink == <<>>

Event(r, link, by, ok, id) ==
  [rec |-> r, link |-> link, by |-> by, ok |-> ok, id |-> id]

LinkPaid(i, id) == Event(RecordOf(i), i, "ref", TRUE, id)
Captured(i, id) == Event(RecordOf(i), i, "note", TRUE, id)
Failed(i, by, id) == Event(RecordOf(i), i, by, FALSE, id)
PaidUnprompted(r, id) == Event(r, NoLink, "source", TRUE, id)

VARIABLES
  linked,   \* interventions whose link or order exists at Razorpay
  emitted,  \* events that happened
  inbox,    \* webhook_events: claimed event |-> outcome
  hand      \* hand[h]: where thread h is inside handle()

hooks == <<linked, emitted, inbox, hand>>

Hands == {"server", "batch"}
Outcomes == {"RECEIVED", "PROCESSED", "ORGANIC", "UNATTRIBUTED",
             "ALREADY_ATTRIBUTED"}
Idle == [at |-> "idle"]
Free(h) == hand[h] = Idle

HooksInit ==
  /\ linked = {}
  /\ emitted = {}
  /\ inbox = [e \in {} |-> "RECEIVED"]
  /\ hand = [h \in Hands |-> Idle]

HooksTypeOK ==
  /\ linked \subseteq Interventions
  /\ DOMAIN inbox \subseteq emitted
  /\ \A e \in DOMAIN inbox : inbox[e] \in Outcomes
  /\ DOMAIN hand = Hands
  /\ \A h \in Hands : Free(h) \/ hand[h].ev \in DOMAIN inbox

-----------------------------------------------------------------------------
\* Razorpay's side.  A payment raises every event that describes it at once; a
\* paid link or order accepts no further payment and can no longer fail.
PaidOn(i) == \E e \in emitted : e.ok /\ e.link = i

CustomerPays(i) ==
  /\ i \in linked /\ ~PaidOn(i)
  /\ emitted' = emitted \union {e \in RealEvents : e.ok /\ e.link = i}
  /\ UNCHANGED <<books, linked, inbox, hand>>

CustomerFails(e) ==
  /\ e \in RealEvents \ emitted
  /\ ~e.ok /\ e.link \in linked /\ ~PaidOn(e.link)
  /\ emitted' = emitted \union {e}
  /\ UNCHANGED <<books, linked, inbox, hand>>

CustomerPaysUnprompted(r) ==
  /\ emitted' = emitted \union {e \in RealEvents : e.by = "source" /\ e.rec = r}
  /\ UNCHANGED <<books, linked, inbox, hand>>

-----------------------------------------------------------------------------
\* _claim(): a delivery seen before is answered 200 and changes nothing.
Receive(h, e) ==
  /\ Free(h)
  /\ emitted' = emitted \union {e}
  /\ IF e \in DOMAIN inbox
       THEN UNCHANGED <<inbox, hand>>
       ELSE /\ inbox' = [x \in DOMAIN inbox \union {e} |->
                           IF x = e THEN "RECEIVED" ELSE inbox[x]]
            /\ hand' = [hand EXCEPT ![h] = [at |-> "claimed", ev |-> e]]
  /\ UNCHANGED <<books, linked>>

\* Mutation: a payment on the merchant's own order is matched by its record too.
FoundByRecord(e) ==
  IF e.by = "ref" /\ e.link \in SentTo(e.rec) THEN {e.link}
  ELSE IF rows[e.rec] # <<>> THEN {LastSent(e.rec)}
  ELSE {}

\* _find_intervention(): the link the event names, else the newest intervention
\* of the record in its note.  An event of ours carries the note either way.
Found(e) ==
  IF e.by = "ref" /\ e.link \in SentTo(e.rec) THEN {e.link}
  ELSE IF e.by # "source" /\ rows[e.rec] # <<>> THEN {LastSent(e.rec)}
  ELSE {}

\* The session's reads: the intervention and its record, or the record whose
\* source_ref an unprompted payment names.
Look(h) ==
  /\ hand[h].at = "claimed"
  /\ LET e == hand[h].ev
         found == Found(e)
     IN  \/ \E i \in found :
              hand' = [hand EXCEPT ![h] =
                [at |-> "looked", ev |-> e, iv |-> i, result |-> result[i],
                 state |-> state[RecordOf(i)], attempts |-> attempts[RecordOf(i)]]]
         \/ /\ found = {}
            /\ hand' = [hand EXCEPT ![h] =
                 IF e.by = "source" /\ state[e.rec] \notin Terminal
                   THEN [at |-> "unprompted", ev |-> e]
                   ELSE [at |-> "decided", ev |-> e, outcome |-> "UNATTRIBUTED"]]
  /\ UNCHANGED <<books, linked, emitted, inbox>>

Decided(h, outcome) ==
  hand' = [hand EXCEPT ![h] =
             [at |-> "decided", ev |-> hand[h].ev, outcome |-> outcome]]

\* Mutation: any result is final, FAILED_AGAIN and NO_RESPONSE included.
ApplyFirstOnly(h) ==
  /\ \/ /\ hand[h].at = "looked"
        /\ LET saw == hand[h]
           IN  \/ /\ saw.result # "none"
                  /\ Decided(h, "ALREADY_ATTRIBUTED")
                  /\ UNCHANGED books
               \/ /\ saw.result = "none"
                  /\ Decided(h, "PROCESSED")
                  /\ IF saw.ev.ok
                       THEN Credit(saw.iv, saw.state)
                       ELSE FailAgain(saw.iv, saw.result, saw.attempts)
     \/ /\ hand[h].at = "unprompted"
        /\ Decided(h, "ORGANIC")
        /\ Unprompted(hand[h].ev.rec)
  /\ UNCHANGED <<linked, emitted, inbox>>

\* Mutation: a failure may overwrite money already counted.
ApplyAlways(h) ==
  /\ \/ /\ hand[h].at = "looked"
        /\ Decided(h, "PROCESSED")
        /\ IF hand[h].ev.ok
             THEN Credit(hand[h].iv, hand[h].state)
             ELSE FailAgain(hand[h].iv, hand[h].result, hand[h].attempts)
     \/ /\ hand[h].at = "unprompted"
        /\ Decided(h, "ORGANIC")
        /\ Unprompted(hand[h].ev.rec)
  /\ UNCHANGED <<linked, emitted, inbox>>

\* The session's writes and its commit.  Only money already counted is final.
Apply(h) ==
  /\ \/ /\ hand[h].at = "looked"
        /\ LET saw == hand[h]
           IN  \/ /\ saw.result = "RECOVERED"
                  /\ Decided(h, "ALREADY_ATTRIBUTED")
                  /\ UNCHANGED books
               \/ /\ saw.result # "RECOVERED"
                  /\ Decided(h, "PROCESSED")
                  /\ IF saw.ev.ok
                       THEN Credit(saw.iv, saw.state)
                       ELSE FailAgain(saw.iv, saw.result, saw.attempts)
     \/ /\ hand[h].at = "unprompted"
        /\ Decided(h, "ORGANIC")
        /\ Unprompted(hand[h].ev.rec)
  /\ UNCHANGED <<linked, emitted, inbox>>

\* _settle_event_row(), and the answer to Razorpay.
SettleEventRow(h) ==
  /\ hand[h].at = "decided"
  /\ inbox' = [inbox EXCEPT ![hand[h].ev] = hand[h].outcome]
  /\ hand' = [hand EXCEPT ![h] = Idle]
  /\ UNCHANGED <<books, linked, emitted>>

HandleStep(h) == Look(h) \/ Apply(h) \/ SettleEventRow(h)
=============================================================================
