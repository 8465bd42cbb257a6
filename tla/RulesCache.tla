----------------------------- MODULE RulesCache -----------------------------
(***************************************************************************)
(* The rule loader of reclaim/rules/__init__.py, used by every thread of   *)
(* the process, over the database the process is pointed at.               *)
(*                                                                         *)
(* policies() and guardrail_config() go through _cached(): look under the  *)
(* lock, build from the database without it, store under it again.  An     *)
(* entry is good while the generation it was stored under lasts.           *)
(*                                                                         *)
(* A rule is named by the edit that made it; `tried` marks the override of *)
(* a what-if replay.  A table without rows yields the shipped defaults.    *)
(***************************************************************************)
EXTENDS Naturals

CONSTANTS
  Editors,    \* threads that read and edit rules through the admin API
  Replayers,  \* threads that run what-if replays, each with a scratch database
  Runners     \* threads that run batches

ASSUME ThreadsAssumption == "live" \notin Replayers

Threads == Editors \union Replayers \union Runners
Databases == {"live"} \union Replayers
Sources == {"policies", "guardrails"}

Rules == [edit : Nat, tried : BOOLEAN]
Shipped == [edit |-> 0, tried |-> FALSE]
NoRow == [none |-> TRUE]
NoEntry == [none |-> TRUE]

VARIABLES
  handle,      \* the database SessionLocal is bound to
  stored,      \* stored[d][s]: the rule in database d, or NoRow
  generation,
  cache,       \* cache[s]: [gen, born, rule], or NoEntry; born is a history field,
               \* the generation at which the build of the entry began
  read,        \* read[t]: the read t is inside: the source, the generation it
               \* missed under, and what it built
  got          \* got[t][s]: the rule a replay has read, or NoRow

rulesVars == <<handle, stored, generation, cache, read, got>>

NotReading == [is |-> "none", of |-> "policies", missed |-> 0, rule |-> Shipped]
Unseeded == [s \in Sources |-> NoRow]

RulesInit ==
  /\ handle = "live"
  /\ stored = [d \in Databases |-> Unseeded]
  /\ generation = 0
  /\ cache = [s \in Sources |-> NoEntry]
  /\ read = [t \in Threads |-> NotReading]
  /\ got = [t \in Threads |-> Unseeded]

\* _db_policies() or default_policies(), of database d.
InForce(d, s) == IF stored[d][s] = NoRow THEN Shipped ELSE stored[d][s]

Hit(s) == cache[s] # NoEntry /\ cache[s].gen = generation

Free(t) == read[t].is = "none"

Return(t, s, rule) ==
  got' = IF t \in Replayers THEN [got EXCEPT ![t][s] = rule] ELSE got

\* The first half of _cached(), under the lock: a hit returns at once.
Look(t, s) ==
  /\ Free(t)
  /\ \/ /\ Hit(s)
        /\ Return(t, s, cache[s].rule)
        /\ UNCHANGED read
     \/ /\ ~Hit(s)
        /\ read' = [read EXCEPT ![t] = [is |-> "missed", of |-> s,
                                      missed |-> generation, rule |-> Shipped]]
        /\ UNCHANGED got
  /\ UNCHANGED <<handle, stored, generation, cache>>

\* Mutation: an empty table is cached as it is.
BuildWithoutDefaults(t) ==
  /\ read[t].is = "missed"
  /\ read' = [read EXCEPT ![t].is = "built", ![t].rule = stored[handle][read[t].of]]
  /\ UNCHANGED <<handle, stored, generation, cache, got>>

\* build(), without the lock, from the database of the moment ...
Build(t) ==
  /\ read[t].is = "missed"
  /\ read' = [read EXCEPT ![t].is = "built",
                          ![t].rule = InForce(handle, read[t].of)]
  /\ UNCHANGED <<handle, stored, generation, cache, got>>

\* ... and the second half, under the generation of the moment.
Fill(t) ==
  /\ read[t].is = "built"
  /\ cache' = [cache EXCEPT ![read[t].of] =
                 [gen |-> generation, born |-> read[t].missed,
                  rule |-> read[t].rule]]
  /\ Return(t, read[t].of, read[t].rule)
  /\ read' = [read EXCEPT ![t] = NotReading]
  /\ UNCHANGED <<handle, stored, generation>>

\* reload().
Bump == generation' = generation + 1

\* What a transaction on database d writes.
Write(d, rules) == stored' = [stored EXCEPT ![d] = rules]

Defaults == [s \in Sources |-> Shipped]

Entries == [gen : Nat, born : Nat, rule : Rules]
Tables == [Sources -> Rules \union {NoRow}]

RulesTypeOK ==
  /\ handle \in Databases
  /\ stored \in [Databases -> Tables]
  /\ generation \in Nat
  /\ cache \in [Sources -> Entries \union {NoEntry}]
  /\ read \in [Threads -> [is : {"none", "missed", "built"}, of : Sources,
                           missed : Nat, rule : Rules]]
  /\ got \in [Threads -> Tables]
=============================================================================
