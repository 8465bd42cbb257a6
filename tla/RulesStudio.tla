----------------------------- MODULE RulesStudio -----------------------------
(***************************************************************************)
(* What the threads of the API do with the rules: reclaim/rules/admin.py   *)
(* (edit, reset), reclaim/measure/whatif.py (replay), and the batches that *)
(* read them (reclaim/api/app.py).                                         *)
(*                                                                         *)
(* Batches and replays take _seed_lock; edits and reads do not.  A replay  *)
(* points the whole process at a scratch database (db.use_database), once  *)
(* for each of its two sides: the rules as they are, and with an override. *)
(* Rebinding the modules one by one is taken as one step.                  *)
(***************************************************************************)
EXTENDS RulesCache

CONSTANTS
  MaxEdits,    \* bound on edits and resets
  MaxReplays,  \* bound on replays
  Wipes        \* whether a batch may start from an empty database

ASSUME StudioAssumption ==
  /\ MaxEdits \in Nat
  /\ MaxReplays \in Nat
  /\ Wipes \in BOOLEAN
  /\ "nobody" \notin Threads

VARIABLES
  at,      \* at[t]: the statement thread t is at
  about,   \* about[t]: the source its edit or override is about, and the number
           \* of its edit
  lock,    \* the holder of _seed_lock, or "nobody"
  side,    \* side[t]: 1, the rules as they are, or 2, with the override
  saved,   \* saved[t]: the handle use_database puts back, or the one the session
           \* of an edit that seeds was opened on
  edits,
  replays,
  wiped    \* history: the database was emptied since the last reload

studioVars == <<at, about, lock, side, saved, edits, replays, wiped>>
vars == <<rulesVars, studioVars>>

EditPlaces == {"seed", "counted", "seeded", "before", "commit", "committed", "cleared"}
ScratchPlaces == {"seeding", "planted", "arc"}
LockedPlaces == ScratchPlaces \union {"open", "closed"}
Places == {"out", "batch", "parsed"} \union EditPlaces \union LockedPlaces

Init ==
  /\ RulesInit
  /\ at = [t \in Threads |-> "out"]
  /\ about = [t \in Threads |-> [of |-> "policies", no |-> 0]]
  /\ lock = "nobody"
  /\ side = [t \in Threads |-> 1]
  /\ saved = [t \in Threads |-> "live"]
  /\ edits = 0
  /\ replays = 0
  /\ wiped = FALSE

Goes(t, p, q) == at[t] = p /\ Free(t) /\ at' = [at EXCEPT ![t] = q]

-----------------------------------------------------------------------------
\* GET /api/admin/rules, at any time and without the lock.
Peek(t, s) ==
  /\ t \in Editors
  /\ at[t] = "out"
  /\ Look(t, s)
  /\ UNCHANGED studioVars

\* set_policy or set_guardrail: an edit that passed the validation.
EditRule(t, s) ==
  /\ t \in Editors
  /\ edits < MaxEdits
  /\ Goes(t, "out", "seed")
  /\ about' = [about EXCEPT ![t] = [of |-> s, no |-> edits + 1]]
  /\ edits' = edits + 1
  /\ UNCHANGED <<rulesVars, lock, side, saved, replays, wiped>>

\* seed_from_yaml() counts the policies, and only them ...
Count(t) ==
  /\ \/ /\ stored[handle]["policies"] # NoRow
        /\ Goes(t, "seed", "before")
        /\ UNCHANGED saved
     \/ /\ stored[handle]["policies"] = NoRow
        /\ Goes(t, "seed", "counted")
        /\ saved' = [saved EXCEPT ![t] = handle]
  /\ UNCHANGED <<rulesVars, about, lock, side, edits, replays, wiped>>

\* ... and inserts the defaults in the same session; rows that are there by now, or
\* guardrails that have been there alone, break their keys: the edit is refused.
Seed(t) ==
  /\ \/ /\ stored[saved[t]] = Unseeded
        /\ Goes(t, "counted", "seeded")
        /\ Write(saved[t], Defaults)
     \/ /\ stored[saved[t]] # Unseeded
        /\ Goes(t, "counted", "out")
        /\ UNCHANGED stored
  /\ UNCHANGED <<handle, generation, cache, read, got, about, lock, side, saved,
                 edits, replays, wiped>>

\* The value before, for the change log, is read through the cache.
Before(t) ==
  /\ Goes(t, "before", "commit")
  /\ Look(t, about[t].of)
  /\ UNCHANGED <<about, lock, side, saved, edits, replays, wiped>>

Commit(t) ==
  /\ Goes(t, "commit", "committed")
  /\ Write(handle, [stored[handle] EXCEPT ![about[t].of] =
                      [edit |-> about[t].no, tried |-> FALSE]])
  /\ UNCHANGED <<handle, generation, cache, read, got, about, lock, side, saved,
                 edits, replays, wiped>>

\* reset(): the shipped defaults, a reload, the log row, a second reload.
Reset(t) ==
  /\ t \in Editors
  /\ edits < MaxEdits
  /\ Goes(t, "out", "cleared")
  /\ Write(handle, Defaults)
  /\ edits' = edits + 1
  /\ UNCHANGED <<handle, generation, cache, read, got, about, lock, side, saved,
                 replays, wiped>>

\* Mutation: an edit is not followed by a reload.
ReloadForgotten(t) ==
  /\ \/ Goes(t, "seeded", "before")
     \/ Goes(t, "committed", "out")
     \/ Goes(t, "cleared", "committed")
     \/ Goes(t, "planted", "arc")
  /\ UNCHANGED <<rulesVars, about, lock, side, saved, edits, replays, wiped>>

\* reload(), after each of the writes.
Reload(t) ==
  /\ \/ Goes(t, "seeded", "before")
     \/ Goes(t, "committed", "out")
     \/ Goes(t, "cleared", "committed")
     \/ Goes(t, "planted", "arc")
  /\ Bump
  /\ wiped' = FALSE
  /\ UNCHANGED <<handle, stored, cache, read, got, about, lock, side, saved,
                 edits, replays>>

-----------------------------------------------------------------------------
\* A batch, under the lock; /api/run-batch and /api/sandbox/reset drop the whole
\* database first, rules included, and do not reload.
BeginBatch(t) ==
  /\ t \in Runners
  /\ lock = "nobody"
  /\ Goes(t, "out", "batch")
  /\ lock' = t
  /\ \/ UNCHANGED <<stored, wiped>>
     \/ /\ Wipes
        /\ Write(handle, Unseeded)
        /\ wiped' = TRUE
  /\ UNCHANGED <<handle, generation, cache, read, got, about, side, saved, edits,
                 replays>>

\* decide() and the guardrails ask for a rule; so does the arc of a replay.
ReadRule(t, s) ==
  /\ at[t] \in {"batch", "arc"}
  /\ Look(t, s)
  /\ UNCHANGED studioVars

EndBatch(t) ==
  /\ Goes(t, "batch", "out")
  /\ lock' = "nobody"
  /\ UNCHANGED <<rulesVars, about, side, saved, edits, replays, wiped>>

-----------------------------------------------------------------------------
\* parse_overrides reads the rule it is going to override, before the lock.
Parse(t, s) ==
  /\ t \in Replayers
  /\ replays < MaxReplays
  /\ Goes(t, "out", "parsed")
  /\ Look(t, s)
  /\ about' = [about EXCEPT ![t] = [of |-> s, no |-> 0]]
  /\ replays' = replays + 1
  /\ UNCHANGED <<lock, side, saved, edits, wiped>>

\* Mutation: a replay does not take the lock.
BeginReplayAnyway(t) ==
  /\ Goes(t, "parsed", "open")
  /\ lock' = t
  /\ side' = [side EXCEPT ![t] = 1]
  /\ UNCHANGED <<rulesVars, about, saved, edits, replays, wiped>>

\* _begin(): the request is refused while something else is running; a batch that
\* left no diagnoses to replay refuses it too.
BeginReplay(t) ==
  /\ \/ /\ lock = "nobody"
        /\ Goes(t, "parsed", "open")
        /\ lock' = t
        /\ side' = [side EXCEPT ![t] = 1]
     \/ /\ Goes(t, "parsed", "out")
        /\ UNCHANGED <<lock, side>>
  /\ UNCHANGED <<rulesVars, about, saved, edits, replays, wiped>>

\* Mutation: use_database() leaves the process on its own database.
OpenUnbound(t) ==
  /\ Goes(t, "open", "seeding")
  /\ saved' = [saved EXCEPT ![t] = handle]
  /\ Write(t, Unseeded)
  /\ got' = [got EXCEPT ![t] = Unseeded]
  /\ UNCHANGED <<handle, generation, cache, read, about, lock, side, edits, replays,
                 wiped>>

\* use_database(): the process is pointed at a new, empty database.
Open(t) ==
  /\ Goes(t, "open", "seeding")
  /\ saved' = [saved EXCEPT ![t] = handle]
  /\ handle' = t
  /\ Write(t, Unseeded)
  /\ got' = [got EXCEPT ![t] = Unseeded]
  /\ UNCHANGED <<generation, cache, read, about, lock, side, edits, replays,
                 wiped>>

\* _seed_rules() reads the policies, then the guardrails ...
Copy(t) ==
  /\ at[t] = "seeding"
  /\ \E s \in Sources :
       /\ got[t][s] = NoRow
       /\ s = "guardrails" => got[t]["policies"] # NoRow
       /\ Look(t, s)
  /\ UNCHANGED studioVars

Planted(t) ==
  [s \in Sources |->
    [edit |-> got[t][s].edit,
     tried |-> got[t][s].tried \/ (side[t] = 2 /\ s = about[t].of)]]

\* ... and inserts them, with the override on the second side.
Plant(t) ==
  /\ \A s \in Sources : got[t][s] # NoRow
  /\ stored[handle] = Unseeded
  /\ Goes(t, "seeding", "planted")
  /\ Write(handle, Planted(t))
  /\ UNCHANGED <<handle, generation, cache, read, got, about, lock, side, saved,
                 edits, replays, wiped>>

\* The end of use_database(), after the arc, or because rows that an edit has put
\* there meanwhile break the insert: the process gets its own database back, and
\* what the block has read is gone.
Close(t) ==
  /\ \/ /\ Goes(t, "arc", "closed")
        /\ UNCHANGED side
     \/ /\ \A s \in Sources : got[t][s] # NoRow
        /\ stored[handle] # Unseeded
        /\ Goes(t, "seeding", "closed")
        /\ side' = [side EXCEPT ![t] = 2]
  /\ handle' = saved[t]
  /\ got' = [got EXCEPT ![t] = Unseeded]
  /\ UNCHANGED <<stored, generation, cache, read, about, lock, saved, edits,
                 replays, wiped>>

\* Mutation: the reload in the finally block is dropped.
FinishSideSilently(t) ==
  /\ IF side[t] = 1
       THEN /\ Goes(t, "closed", "open")
            /\ side' = [side EXCEPT ![t] = 2]
            /\ UNCHANGED lock
       ELSE /\ Goes(t, "closed", "out")
            /\ lock' = "nobody"
            /\ UNCHANGED side
  /\ UNCHANGED <<rulesVars, about, saved, edits, replays, wiped>>

\* The finally block: a reload; then the other side, or _end().
FinishSide(t) ==
  /\ IF side[t] = 1
       THEN /\ Goes(t, "closed", "open")
            /\ side' = [side EXCEPT ![t] = 2]
            /\ UNCHANGED lock
       ELSE /\ Goes(t, "closed", "out")
            /\ lock' = "nobody"
            /\ UNCHANGED side
  /\ Bump
  /\ wiped' = FALSE
  /\ UNCHANGED <<handle, stored, cache, read, got, about, saved, edits, replays>>

-----------------------------------------------------------------------------
Reading(t) ==
  /\ Build(t) \/ Fill(t)
  /\ UNCHANGED studioVars

Next ==
  \E t \in Threads :
    \/ \E s \in Sources : Peek(t, s) \/ EditRule(t, s) \/ ReadRule(t, s)
    \/ Count(t) \/ Seed(t) \/ Before(t) \/ Commit(t) \/ Reset(t) \/ Reload(t)
    \/ BeginBatch(t) \/ EndBatch(t)
    \/ \E s \in Sources : Parse(t, s)
    \/ BeginReplay(t) \/ Open(t) \/ Copy(t) \/ Plant(t) \/ Close(t)
    \/ FinishSide(t)
    \/ Reading(t)

Spec == Init /\ [][Next]_vars

-----------------------------------------------------------------------------
TypeOK ==
  /\ RulesTypeOK
  /\ at \in [Threads -> Places]
  /\ about \in [Threads -> [of : Sources, no : Nat]]
  /\ lock \in Threads \union {"nobody"}
  /\ side \in [Threads -> {1, 2}]
  /\ saved \in [Threads -> Databases]
  /\ edits \in Nat /\ replays \in Nat
  /\ wiped \in BOOLEAN

\* The process is on a scratch database only inside the replay that owns it, so
\* a batch never writes its rows to a file that is about to be deleted.
HandleIsLent ==
  /\ handle # "live" => lock = handle /\ at[handle] \in ScratchPlaces
  /\ \A t \in Threads : at[t] = "batch" => handle = "live"

\* No step of a replay changes a rule of the merchant's.
ReplayWritesNothing ==
  [][\A t \in Replayers :
       at[t] \in LockedPlaces /\ at'[t] # at[t] =>
         stored'["live"] = stored["live"]]_vars

\* Every write has been followed by its reload.
Announced ==
  /\ handle = "live"
  /\ \A t \in Threads : at[t] \notin {"seeded", "committed", "cleared", "closed"}

Settled == Announced /\ ~wiped

\* Once every write is announced, the cache serves the rules in force; the two
\* ways it can fail to are a build that straddled a reload, and a database that
\* was emptied under it.
OnlyStraddlersGoStale ==
  Settled =>
    \A s \in Sources :
      Hit(s) /\ cache[s].born = generation => cache[s].rule = InForce("live", s)

\* The strengthening of HandleIsLent and OnlyStraddlersGoStale, part by part.
LockedByOne ==  \* who is in a batch or a replay holds the lock
  \A t \in Threads :
    /\ at[t] \in LockedPlaces \union {"batch"} => lock = t
    /\ at[t] \in LockedPlaces \union {"parsed"} => t \in Replayers

HandleFollows ==  \* the handle is where the place of the replay says it is
  /\ handle # "live" => handle \in Replayers /\ at[handle] \in ScratchPlaces
  /\ \A t \in Threads : at[t] \in ScratchPlaces => handle = t
  /\ \A t \in Threads : at[t] \in ScratchPlaces => saved[t] = "live"

GenerationsPast ==  \* nothing was read or stored in a generation still to come
  /\ \A t \in Threads : read[t].missed <= generation
  /\ \A s \in Sources :
       cache[s] # NoEntry =>
         cache[s].born <= cache[s].gen /\ cache[s].gen <= generation

NoStaleBuild ==  \* what is built in this generation, and not stored yet, is right
  Settled =>
    \A t \in Threads :
      read[t].is = "built" /\ read[t].missed = generation =>
        read[t].rule = InForce("live", read[t].of)

IInv ==
  /\ TypeOK
  /\ LockedByOne
  /\ HandleFollows
  /\ GenerationsPast
  /\ NoStaleBuild
  /\ OnlyStraddlersGoStale

\* The side of a replay with the override is seeded from the merchant's current
\* rules, edits included: nothing but the override tells it from the other side.
VariantStartsFromLive ==
  [][\A t \in Replayers :
       side[t] = 2 /\ at[t] = "seeding" /\ at'[t] = "planted" =>
         \A s \in Sources : stored'[t][s].edit = InForce("live", s).edit]_vars
=============================================================================
