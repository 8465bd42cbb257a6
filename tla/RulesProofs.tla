----------------------------- MODULE RulesProofs -----------------------------
(***************************************************************************)
(* Proofs about RulesStudio, for any number of editors, replays, batches,  *)
(* edits and resets.                                                       *)
(***************************************************************************)
EXTENDS RulesStudio, TLAPS

\* A rule in force is a rule.
LEMMA InForceType ==
  ASSUME RulesTypeOK, NEW d \in Databases, NEW s \in Sources
  PROVE  InForce(d, s) \in Rules
<1>1. stored[d][s] \in Rules \union {NoRow}
  BY DEF RulesTypeOK, Tables
<1>2. Shipped \in Rules
  BY DEF Shipped, Rules
<1> QED
  BY <1>1, <1>2 DEF InForce

\* Returning a rule keeps the types; so do looking one up, building and storing it.
LEMMA ReturnType ==
  ASSUME RulesTypeOK, NEW t \in Threads, NEW s \in Sources, NEW rule \in Rules,
         Return(t, s, rule)
  PROVE  got' \in [Threads -> Tables]
BY DEF RulesTypeOK, Return, Tables

\* Looking in the cache keeps the types.
LEMMA LookType ==
  ASSUME RulesTypeOK, NEW t \in Threads, NEW s \in Sources, Look(t, s)
  PROVE  RulesTypeOK'
<1>1. CASE Hit(s) /\ Return(t, s, cache[s].rule) /\ UNCHANGED read
  <2>1. cache[s].rule \in Rules
    BY <1>1 DEF RulesTypeOK, Hit, Entries
  <2>2. got' \in [Threads -> Tables]
    BY <1>1, <2>1, ReturnType
  <2> QED
    BY <1>1, <2>2 DEF Look, RulesTypeOK
<1>2. CASE /\ read' = [read EXCEPT ![t] = [is |-> "missed", of |-> s,
                                          missed |-> generation,
                                          rule |-> Shipped]]
           /\ UNCHANGED got
  BY <1>2 DEF Look, RulesTypeOK, Rules, Shipped
<1> QED
  BY <1>1, <1>2 DEF Look

\* A build reads the rules of the database the process is on.
LEMMA BuildType ==
  ASSUME RulesTypeOK, NEW t \in Threads, Build(t)
  PROVE  RulesTypeOK'
<1>1. read[t].of \in Sources /\ handle \in Databases
  BY DEF RulesTypeOK
<1>2. InForce(handle, read[t].of) \in Rules
  BY <1>1, InForceType
<1> QED
  BY <1>2 DEF Build, RulesTypeOK

\* Storing what was built keeps the types.
LEMMA FillType ==
  ASSUME RulesTypeOK, NEW t \in Threads, Fill(t)
  PROVE  RulesTypeOK'
<1>1. read[t].of \in Sources /\ read[t].rule \in Rules /\ read[t].missed \in Nat
  BY DEF RulesTypeOK
<1>2. cache' \in [Sources -> Entries \union {NoEntry}]
  BY <1>1 DEF Fill, RulesTypeOK, Entries
<1>3. got' \in [Threads -> Tables]
  BY <1>1, ReturnType DEF Fill
<1>4. NotReading \in [is : {"none", "missed", "built"}, of : Sources,
                     missed : Nat, rule : Rules]
  BY DEF NotReading, Sources, Rules, Shipped
<1> QED
  BY <1>2, <1>3, <1>4 DEF Fill, RulesTypeOK

\* Defaults, an empty table, and what a replay plants are tables.
LEMMA WriteType ==
  ASSUME RulesTypeOK, NEW d \in Databases, NEW table \in Tables, Write(d, table)
  PROVE  stored' \in [Databases -> Tables]
BY DEF RulesTypeOK, Write

\* The two tables a database may start with.
LEMMA TableTypes == Defaults \in Tables /\ Unseeded \in Tables
BY DEF Defaults, Unseeded, Rules, Shipped, Tables

\* What a replay plants in its scratch database are rules, once it has read them all.
LEMMA PlantedType ==
  ASSUME TypeOK, NEW t \in Threads, \A s \in Sources : got[t][s] # NoRow
  PROVE  Planted(t) \in Tables
<1>1. \A s \in Sources : got[t][s] \in Rules
  BY DEF TypeOK, RulesTypeOK, Tables
<1> QED
  BY <1>1 DEF Planted, Rules, Tables

-----------------------------------------------------------------------------
\* A thread that goes somewhere does so alone.
LEMMA GoesThere ==
  ASSUME TypeOK, NEW t \in Threads, NEW p, NEW q \in Places, Goes(t, p, q)
  PROVE  /\ at' \in [Threads -> Places]
         /\ at[t] = p /\ at'[t] = q /\ read[t].is = "none"
         /\ \A u \in Threads \ {t} : at'[u] = at[u]
BY DEF Goes, Free, TypeOK

\* The places of the program text.
LEMMA PlacesAre ==
  Places = {"out", "batch", "parsed", "seed", "counted", "seeded", "before", "commit",
            "committed", "cleared", "seeding", "planted", "arc", "open", "closed"}
BY DEF Places, EditPlaces, LockedPlaces, ScratchPlaces

\* Every variable keeps its type.
LEMMA TypeStep == TypeOK /\ LockedByOne /\ [Next]_vars => TypeOK'
<1> USE StudioAssumption, ThreadsAssumption
<1> SUFFICES ASSUME TypeOK, LockedByOne, [Next]_vars PROVE TypeOK'
  OBVIOUS
<1>0. RulesTypeOK /\ handle \in Databases /\ Replayers \subseteq Threads
  BY DEF TypeOK, RulesTypeOK, Threads
<1>1. ASSUME NEW t \in Threads, NEW s \in Sources, Peek(t, s) \/ ReadRule(t, s)
      PROVE  TypeOK'
  BY <1>0, <1>1, LookType DEF Peek, ReadRule, TypeOK, studioVars
<1>2. ASSUME NEW t \in Threads, NEW s \in Sources, EditRule(t, s) PROVE TypeOK'
  BY <1>2 DEF EditRule, Goes, Places, EditPlaces, TypeOK, RulesTypeOK, rulesVars
<1>3. ASSUME NEW t \in Threads, Seed(t) PROVE TypeOK'
  <2>1. stored' \in [Databases -> Tables]
    BY <1>0, <1>3, WriteType, TableTypes DEF Seed, TypeOK, RulesTypeOK
  <2> QED
    BY <1>3, <2>1 DEF Seed, Goes, Places, EditPlaces, TypeOK, RulesTypeOK
<1>3a. ASSUME NEW t \in Threads, Count(t) PROVE TypeOK'
  BY <1>0, <1>3a DEF Count, Goes, Places, EditPlaces, TypeOK, RulesTypeOK, rulesVars
<1>4. ASSUME NEW t \in Threads, Before(t) PROVE TypeOK'
  <2>1. about[t].of \in Sources
    BY DEF TypeOK
  <2>2. RulesTypeOK'
    BY <1>0, <1>4, <2>1, LookType DEF Before
  <2> QED
    BY <1>4, <2>2 DEF Before, Goes, Places, EditPlaces, TypeOK
<1>5. ASSUME NEW t \in Threads, Commit(t) PROVE TypeOK'
  <2>1. [stored[handle] EXCEPT ![about[t].of] =
           [edit |-> about[t].no, tried |-> FALSE]] \in Tables
    BY <1>0 DEF TypeOK, RulesTypeOK, Rules, Tables
  <2>2. stored' \in [Databases -> Tables]
    BY <1>0, <1>5, <2>1, WriteType DEF Commit
  <2> QED
    BY <1>5, <2>2 DEF Commit, Goes, Places, EditPlaces, TypeOK, RulesTypeOK
<1>6. ASSUME NEW t \in Threads, Reset(t) PROVE TypeOK'
  <2>1. stored' \in [Databases -> Tables]
    BY <1>0, <1>6, WriteType, TableTypes DEF Reset
  <2> QED
    BY <1>6, <2>1 DEF Reset, Goes, Places, EditPlaces, TypeOK, RulesTypeOK
<1>7. ASSUME NEW t \in Threads, Reload(t) PROVE TypeOK'
  <2>1. at' \in [Threads -> Places]
    BY <1>7, GoesThere, PlacesAre DEF Reload
  <2>2. generation' \in Nat
    BY <1>7 DEF Reload, Bump, TypeOK, RulesTypeOK
  <2>3. wiped' \in BOOLEAN
    BY <1>7, Zenon DEF Reload
  <2> QED
    BY <1>7, <2>1, <2>2, <2>3 DEF Reload, TypeOK, RulesTypeOK
<1>8. ASSUME NEW t \in Threads, BeginBatch(t) PROVE TypeOK'
  <2>1. stored' \in [Databases -> Tables]
    BY <1>0, <1>8, WriteType, TableTypes DEF BeginBatch, RulesTypeOK
  <2> QED
    BY <1>8, <2>1 DEF BeginBatch, Goes, Places, TypeOK, RulesTypeOK
<1>9. ASSUME NEW t \in Threads, EndBatch(t) PROVE TypeOK'
  BY <1>9 DEF EndBatch, Goes, Places, TypeOK, RulesTypeOK, rulesVars
<1>10. ASSUME NEW t \in Threads, NEW s \in Sources, Parse(t, s) PROVE TypeOK'
  <2>1. RulesTypeOK'
    BY <1>0, <1>10, LookType DEF Parse
  <2> QED
    BY <1>10, <2>1 DEF Parse, Goes, Places, TypeOK
<1>11. ASSUME NEW t \in Threads, BeginReplay(t) PROVE TypeOK'
  BY <1>11 DEF BeginReplay, Goes, Places, LockedPlaces, TypeOK, RulesTypeOK,
               rulesVars
<1>12. ASSUME NEW t \in Threads, Open(t) PROVE TypeOK'
  <2>0. t \in Replayers
    BY <1>12 DEF LockedByOne, Open, Goes, LockedPlaces
  <2>1. t \in Databases
    BY <2>0 DEF Databases
  <2>2. stored' \in [Databases -> Tables]
    BY <1>0, <1>12, <2>1, WriteType, TableTypes DEF Open
  <2> QED
    BY <1>12, <2>1, <2>2, TableTypes DEF Open, Goes, Places, LockedPlaces,
                             ScratchPlaces, TypeOK, RulesTypeOK
<1>13. ASSUME NEW t \in Threads, Copy(t) PROVE TypeOK'
  BY <1>0, <1>13, LookType DEF Copy, TypeOK, studioVars, Sources
<1>14. ASSUME NEW t \in Threads, Plant(t) PROVE TypeOK'
  <2>1. stored' \in [Databases -> Tables]
    BY <1>0, <1>14, WriteType, PlantedType DEF Plant, RulesTypeOK
  <2> QED
    BY <1>14, <2>1 DEF Plant, Goes, Places, LockedPlaces, ScratchPlaces, TypeOK,
                       RulesTypeOK
<1>15. ASSUME NEW t \in Threads, Close(t) PROVE TypeOK'
  BY <1>15, TableTypes DEF Close, Goes, Places, LockedPlaces, ScratchPlaces, TypeOK,
                           RulesTypeOK
<1>16. ASSUME NEW t \in Threads, FinishSide(t) PROVE TypeOK'
  <2>1. at' \in [Threads -> Places]
    BY <1>16, GoesThere, PlacesAre DEF FinishSide
  <2>2. generation' \in Nat
    BY <1>16 DEF FinishSide, Bump, TypeOK, RulesTypeOK
  <2>3. lock' \in Threads \union {"nobody"} /\ side' \in [Threads -> {1, 2}]
    BY <1>16 DEF FinishSide, TypeOK
  <2>4. wiped' \in BOOLEAN
    BY <1>16, Zenon DEF FinishSide
  <2> QED
    BY <1>16, <2>1, <2>2, <2>3, <2>4 DEF FinishSide, TypeOK, RulesTypeOK
<1>17. ASSUME NEW t \in Threads, Reading(t) PROVE TypeOK'
  BY <1>0, <1>17, BuildType, FillType DEF Reading, TypeOK, studioVars
<1>18. CASE UNCHANGED vars
  BY <1>18 DEF vars, rulesVars, studioVars, TypeOK, RulesTypeOK
<1> QED
  BY <1>1, <1>2, <1>3, <1>3a, <1>4, <1>5, <1>6, <1>7, <1>8, <1>9, <1>10, <1>11, <1>12,
     <1>13, <1>14, <1>15, <1>16, <1>17, <1>18 DEF Next

-----------------------------------------------------------------------------
\* The lock and the handle follow the places of the threads.
Locks == LockedByOne /\ HandleFollows

\* Every step keeps the places of the threads and the lock in accord.
LEMMA LocksStep == TypeOK /\ Locks /\ [Next]_vars => Locks'
<1> USE StudioAssumption, ThreadsAssumption DEF Locks
<1> SUFFICES ASSUME TypeOK, Locks, [Next]_vars PROVE Locks'
  OBVIOUS
<1> USE DEF LockedByOne, HandleFollows, LockedPlaces, ScratchPlaces
<1>0. at \in [Threads -> Places] /\ Replayers \subseteq Threads
  BY DEF TypeOK, Threads
<1>1. CASE UNCHANGED <<at, lock, handle, saved>>
  BY <1>1
\* A move among the places that hold no lock and are not a replay's.
<1>2. ASSUME NEW t \in Threads,
             NEW p \in Places \ (LockedPlaces \union {"batch"}),
             NEW q \in Places \ (LockedPlaces \union {"batch"}),
             Goes(t, p, q), q = "parsed" => t \in Replayers,
             UNCHANGED <<lock, handle, saved>>
      PROVE  Locks'
  BY <1>0, <1>2, GoesThere
<1>3. ASSUME NEW t \in Threads, NEW s \in Sources,
             EditRule(t, s) \/ Parse(t, s) \/ Seed(t) \/ Before(t) \/ Commit(t)
               \/ Reset(t)
      PROVE  Locks'
  BY <1>2, <1>3, PlacesAre DEF EditRule, Parse, Seed, Before, Commit, Reset, Look,
                               rulesVars
<1>3a. ASSUME NEW t \in Threads, Count(t) PROVE Locks'
  <2>1. /\ at[t] = "seed" /\ at'[t] \in {"before", "counted"}
        /\ \A u \in Threads \ {t} : at'[u] = at[u] /\ saved'[u] = saved[u]
    BY <1>0, <1>3a, GoesThere, PlacesAre DEF Count, TypeOK
  <2>2. UNCHANGED <<lock, handle>>
    BY <1>3a DEF Count, rulesVars
  <2> QED
    BY <1>0, <2>1, <2>2
<1>4. ASSUME NEW t \in Threads, Reload(t) PROVE Locks'
  <2>1. CASE Goes(t, "planted", "arc")
    BY <1>0, <1>4, <2>1, GoesThere, PlacesAre DEF Reload
  <2> QED
    BY <1>2, <1>4, <2>1, PlacesAre DEF Reload
<1>5. ASSUME NEW t \in Threads, BeginBatch(t) \/ EndBatch(t) PROVE Locks'
  BY <1>0, <1>5, GoesThere, PlacesAre DEF BeginBatch, EndBatch, rulesVars
<1>6. ASSUME NEW t \in Threads, BeginReplay(t) PROVE Locks'
  BY <1>0, <1>6, GoesThere, PlacesAre DEF BeginReplay, rulesVars
<1>7. ASSUME NEW t \in Threads, Open(t) PROVE Locks'
  BY <1>0, <1>7, GoesThere, PlacesAre DEF Open, TypeOK
<1>8. ASSUME NEW t \in Threads, Plant(t) PROVE Locks'
  BY <1>0, <1>8, GoesThere, PlacesAre DEF Plant
<1>9. ASSUME NEW t \in Threads, Close(t) PROVE Locks'
  BY <1>0, <1>9, GoesThere, PlacesAre DEF Close
<1>10. ASSUME NEW t \in Threads, FinishSide(t) PROVE Locks'
  BY <1>0, <1>10, GoesThere, PlacesAre DEF FinishSide
<1>11. ASSUME NEW t \in Threads, NEW s \in Sources,
              Peek(t, s) \/ ReadRule(t, s) \/ Copy(t) \/ Reading(t)
       PROVE  Locks'
  BY <1>1, <1>11 DEF Peek, ReadRule, Copy, Reading, Look, Build, Fill, studioVars
<1> QED
  BY <1>1, <1>3, <1>3a, <1>4, <1>5, <1>6, <1>7, <1>8, <1>9, <1>10, <1>11
     DEF Next, vars, rulesVars, studioVars, Sources

-----------------------------------------------------------------------------
\* The generations stay past: a build or an entry is of this one or an older one.
LEMMA GenerationsStep == TypeOK /\ GenerationsPast /\ [Next]_vars => GenerationsPast'
<1> SUFFICES ASSUME TypeOK, GenerationsPast, [Next]_vars PROVE GenerationsPast'
  OBVIOUS
<1> USE DEF GenerationsPast
<1>0. /\ generation \in Nat
      /\ read \in [Threads -> [is : {"none", "missed", "built"}, of : Sources,
                              missed : Nat, rule : Rules]]
      /\ cache \in [Sources -> Entries \union {NoEntry}]
  BY DEF TypeOK, RulesTypeOK
<1>1. CASE UNCHANGED <<generation, cache, read>>
  BY <1>1
<1>2. CASE UNCHANGED <<cache, read>> /\ generation' = generation + 1
  BY <1>0, <1>2 DEF Entries
<1>3. ASSUME NEW t \in Threads, NEW s \in Sources, Look(t, s) PROVE GenerationsPast'
  BY <1>0, <1>3 DEF Look
<1>4. ASSUME NEW t \in Threads, Reading(t) PROVE GenerationsPast'
  <2>1. CASE Build(t)
    BY <1>0, <2>1 DEF Build
  <2>2. CASE Fill(t)
    <3>1. read[t].of \in Sources /\ read[t].missed \in Nat
      BY <1>0
    <3>2. \A s \in Sources :
            cache'[s] # NoEntry =>
              cache'[s].born <= cache'[s].gen /\ cache'[s].gen <= generation
      BY <1>0, <2>2, <3>1 DEF Fill
    <3>3. \A u \in Threads : read'[u].missed <= generation
      BY <1>0, <2>2 DEF Fill, NotReading
    <3> QED
      BY <2>2, <3>2, <3>3 DEF Fill
  <2> QED
    BY <1>4, <2>1, <2>2 DEF Reading
<1>5. ASSUME NEW t \in Threads, NEW s \in Sources,
             Peek(t, s) \/ ReadRule(t, s) \/ Before(t) \/ Parse(t, s) \/ Copy(t)
      PROVE  GenerationsPast'
  <2>1. about[t].of \in Sources
    BY DEF TypeOK
  <2> QED
    BY <1>3, <1>5, <2>1 DEF Peek, ReadRule, Before, Parse, Copy
<1>6. ASSUME NEW t \in Threads, Reload(t) \/ FinishSide(t) PROVE GenerationsPast'
  BY <1>2, <1>6 DEF Reload, FinishSide, Bump
<1>7. ASSUME NEW t \in Threads, NEW s \in Sources,
             EditRule(t, s) \/ Count(t) \/ Seed(t) \/ Commit(t) \/ Reset(t)
               \/ BeginBatch(t) \/ EndBatch(t)
      PROVE  GenerationsPast'
  BY <1>1, <1>7 DEF EditRule, Count, Seed, Commit, Reset, BeginBatch, EndBatch, rulesVars
<1>8. ASSUME NEW t \in Threads, BeginReplay(t) \/ Open(t) \/ Plant(t) \/ Close(t)
      PROVE  GenerationsPast'
  BY <1>1, <1>8 DEF BeginReplay, Open, Plant, Close, rulesVars
<1>9. CASE UNCHANGED vars
  BY <1>1, <1>9 DEF vars, rulesVars
<1> QED
  BY <1>4, <1>5, <1>6, <1>7, <1>8, <1>9 DEF Next, Sources

\* Who is at a write not announced yet, or in a replay, leaves nothing settled.
LEMMA WritesUnsettle ==
  ASSUME NEW t \in Threads,
         at'[t] \in {"seeded", "committed", "cleared", "closed"} \/ handle' # "live"
  PROVE  ~Settled'
BY DEF Settled, Announced

\* What was settled and fresh stays fresh when nothing it depends on changes.
Fresh == NoStaleBuild /\ OnlyStraddlersGoStale

\* A step that changes neither the rules nor a build leaves the cache as true as it was.
LEMMA FreshKept ==
  ASSUME Fresh, Settled' => Settled, UNCHANGED <<generation, cache>>,
         stored'["live"] = stored["live"],
         \A u \in Threads : read'[u].is = "built" => read'[u] = read[u]
  PROVE  Fresh'
BY DEF Fresh, NoStaleBuild, OnlyStraddlersGoStale, InForce, Hit

\* A new generation has no builds and no entries of its own.
LEMMA FreshAnew ==
  ASSUME TypeOK, GenerationsPast, generation' = generation + 1,
         UNCHANGED <<cache, read>>
  PROVE  Fresh'
<1>1. \A t \in Threads : read[t].missed \in Nat /\ read[t].missed # generation + 1
  BY DEF TypeOK, RulesTypeOK, GenerationsPast
<1>2. \A s \in Sources : cache[s] # NoEntry => cache[s].gen # generation + 1
  BY DEF TypeOK, RulesTypeOK, GenerationsPast, Entries
<1> QED
  BY <1>1, <1>2 DEF Fresh, NoStaleBuild, OnlyStraddlersGoStale, Hit

\* Every step keeps the cache true for the builds of its generation.
LEMMA FreshStep ==
  IInv /\ [Next]_vars => Fresh'
<1> USE StudioAssumption, ThreadsAssumption
<1> SUFFICES ASSUME IInv, [Next]_vars PROVE Fresh'
  OBVIOUS
<1>0. TypeOK /\ Locks /\ GenerationsPast /\ Fresh
  BY DEF IInv, Locks, Fresh
\* A step that writes and announces nothing, and at most begins a read.
<1>1. ASSUME UNCHANGED <<generation, cache, stored, handle>>,
             NEW t \in Threads, at[t] \in Places, at'[t] \in Places,
             at[t] \notin {"seeded", "committed", "cleared", "closed"},
             \A u \in Threads \ {t} : at'[u] = at[u],
             wiped' = wiped,
             \A u \in Threads : read'[u].is = "built" => read'[u] = read[u]
      PROVE  Fresh'
  <2>1. Settled' => Settled
    BY <1>1 DEF Settled, Announced
  <2> QED
    BY <1>0, <1>1, <2>1, FreshKept
<1>2. ASSUME NEW t \in Threads, NEW s \in Sources, Look(t, s)
      PROVE  \A u \in Threads : read'[u].is = "built" => read'[u] = read[u]
  BY <1>0, <1>2 DEF Look, TypeOK, RulesTypeOK
<1>3. ASSUME ~Settled' PROVE Fresh'
  BY <1>3 DEF Fresh, NoStaleBuild, OnlyStraddlersGoStale
<1>4. ASSUME NEW t \in Threads, NEW s \in Sources, Peek(t, s) \/ ReadRule(t, s) \/ Copy(t)
      PROVE  Fresh'
  <2>1. \A u \in Threads : read'[u].is = "built" => read'[u] = read[u]
    BY <1>2, <1>4 DEF Peek, ReadRule, Copy
  <2>2. UNCHANGED <<generation, cache, stored, handle, at, wiped>>
    BY <1>4 DEF Peek, ReadRule, Copy, Look, studioVars
  <2>3. Settled' => Settled
    BY <2>2 DEF Settled, Announced
  <2> QED
    BY <1>0, <2>1, <2>2, <2>3, FreshKept
<1>5. ASSUME NEW t \in Threads, NEW s \in Sources, EditRule(t, s) PROVE Fresh'
  BY <1>0, <1>1, <1>5, GoesThere, PlacesAre DEF EditRule, rulesVars
<1>6. ASSUME NEW t \in Threads, NEW s \in Sources, Before(t) \/ Parse(t, s)
      PROVE  Fresh'
  <2>1. \A u \in Threads : read'[u].is = "built" => read'[u] = read[u]
    BY <1>0, <1>2, <1>6 DEF Before, Parse, TypeOK
  <2>2. UNCHANGED <<generation, cache, stored, handle, wiped>>
    BY <1>6 DEF Before, Parse, Look
  <2>3. /\ at[t] \in Places /\ at'[t] \in Places
        /\ at[t] \notin {"seeded", "committed", "cleared", "closed"}
        /\ \A u \in Threads \ {t} : at'[u] = at[u]
    BY <1>0, <1>6, GoesThere, PlacesAre DEF Before, Parse
  <2> QED
    BY <1>1, <2>1, <2>2, <2>3
<1>7. ASSUME NEW t \in Threads, Seed(t) PROVE Fresh'
  <2>1. CASE Goes(t, "counted", "seeded")
    BY <1>0, <1>3, <2>1, GoesThere, PlacesAre, WritesUnsettle
  <2>2. CASE Goes(t, "counted", "out") /\ UNCHANGED stored
    BY <1>0, <1>1, <1>7, <2>2, GoesThere, PlacesAre DEF Seed
  <2> QED
    BY <1>7, <2>1, <2>2 DEF Seed
<1>7a. ASSUME NEW t \in Threads, Count(t) PROVE Fresh'
  BY <1>0, <1>1, <1>7a, GoesThere, PlacesAre DEF Count, rulesVars
<1>8. ASSUME NEW t \in Threads, Commit(t) \/ Reset(t) \/ Close(t) PROVE Fresh'
  BY <1>0, <1>3, <1>8, GoesThere, PlacesAre, WritesUnsettle DEF Commit, Reset, Close
<1>9. ASSUME NEW t \in Threads, Reload(t) \/ FinishSide(t) PROVE Fresh'
  BY <1>0, <1>9, FreshAnew DEF Reload, FinishSide, Bump
<1>10. ASSUME NEW t \in Threads, BeginBatch(t) PROVE Fresh'
  <2>1. CASE UNCHANGED <<stored, wiped>>
    BY <1>0, <1>1, <1>10, <2>1, GoesThere, PlacesAre DEF BeginBatch
  <2>2. CASE wiped' = TRUE
    BY <1>3, <2>2, Zenon DEF Settled
  <2> QED
    BY <1>10, <2>1, <2>2, Zenon DEF BeginBatch
<1>11. ASSUME NEW t \in Threads, EndBatch(t) \/ BeginReplay(t) PROVE Fresh'
  BY <1>0, <1>1, <1>11, GoesThere, PlacesAre DEF EndBatch, BeginReplay, rulesVars
<1>12. ASSUME NEW t \in Threads, Open(t) PROVE Fresh'
  <2>1. handle' # "live"
    BY <1>0, <1>12, GoesThere, PlacesAre DEF Open, Locks, LockedByOne, LockedPlaces
  <2> QED
    BY <1>0, <1>3, <2>1, WritesUnsettle
<1>13. ASSUME NEW t \in Threads, Plant(t) PROVE Fresh'
  <2>1. handle' = t /\ t \in Replayers
    BY <1>0, <1>13, GoesThere, PlacesAre
       DEF Plant, Locks, LockedByOne, HandleFollows, LockedPlaces, ScratchPlaces
  <2> QED
    BY <1>0, <1>3, <2>1, WritesUnsettle
<1>14. ASSUME NEW t \in Threads, Build(t), UNCHANGED studioVars PROVE Fresh'
  <2>1. Settled' = Settled /\ (Settled => handle = "live")
    BY <1>14 DEF Build, studioVars, Settled, Announced
  <2>2. read'[t].rule = InForce(handle, read[t].of) /\ read'[t].of = read[t].of
    BY <1>0, <1>14 DEF Build, TypeOK, RulesTypeOK
  <2>3. \A u \in Threads \ {t} : read'[u] = read[u]
    BY <1>0, <1>14 DEF Build, TypeOK, RulesTypeOK
  <2>4. NoStaleBuild'
    BY <1>0, <1>14, <2>1, <2>2, <2>3 DEF Build, Fresh, NoStaleBuild, InForce
  <2>5. OnlyStraddlersGoStale'
    BY <1>0, <1>14, <2>1 DEF Build, Fresh, OnlyStraddlersGoStale, InForce, Hit
  <2> QED
    BY <2>4, <2>5 DEF Fresh
<1>15. ASSUME NEW t \in Threads, Fill(t), UNCHANGED studioVars PROVE Fresh'
  <2>1. Settled' = Settled
    BY <1>15 DEF Fill, studioVars, Settled, Announced
  <2>2. \A u \in Threads : read'[u].is = "built" => read'[u] = read[u]
    BY <1>0, <1>15 DEF Fill, NotReading, TypeOK, RulesTypeOK
  <2>3. \A s \in Sources \ {read[t].of} : cache'[s] = cache[s]
    BY <1>0, <1>15 DEF Fill, TypeOK, RulesTypeOK
  <2>4. /\ read[t].of \in Sources
        /\ cache'[read[t].of].born = read[t].missed
        /\ cache'[read[t].of].rule = read[t].rule
    BY <1>0, <1>15 DEF Fill, TypeOK, RulesTypeOK
  <2>5. NoStaleBuild'
    BY <1>0, <1>15, <2>1, <2>2 DEF Fill, Fresh, NoStaleBuild, InForce
  <2>6. OnlyStraddlersGoStale'
    BY <1>0, <1>15, <2>1, <2>3, <2>4
       DEF Fill, Fresh, NoStaleBuild, OnlyStraddlersGoStale, InForce, Hit
  <2> QED
    BY <2>5, <2>6 DEF Fresh
<1>16. CASE UNCHANGED vars
  <2>1. Settled' => Settled
    BY <1>16 DEF vars, rulesVars, studioVars, Settled, Announced
  <2> QED
    BY <1>0, <1>16, <2>1, FreshKept DEF vars, rulesVars
<1> QED
  BY <1>4, <1>5, <1>6, <1>7, <1>7a, <1>8, <1>9, <1>10, <1>11, <1>12, <1>13, <1>14, <1>15,
     <1>16 DEF Next, Reading, Sources

-----------------------------------------------------------------------------
\* Initially nothing is locked, written, built or stored.
LEMMA IInvInit == Init => IInv
<1> USE ThreadsAssumption
<1> SUFFICES ASSUME Init PROVE IInv
  OBVIOUS
<1>1. RulesTypeOK
  <2>1. NotReading \in [is : {"none", "missed", "built"}, of : Sources,
                       missed : Nat, rule : Rules]
    BY DEF NotReading, Sources, Rules, Shipped
  <2> QED
    BY <2>1, TableTypes DEF Init, RulesInit, RulesTypeOK, Databases
<1>2. TypeOK
  BY <1>1 DEF Init, TypeOK, Places, Sources, Databases
<1>3. LockedByOne /\ HandleFollows
  BY DEF Init, RulesInit, LockedByOne, HandleFollows, LockedPlaces, ScratchPlaces
<1>4. GenerationsPast
  BY DEF Init, RulesInit, GenerationsPast, NotReading
<1>5. NoStaleBuild /\ OnlyStraddlersGoStale
  BY DEF Init, RulesInit, NoStaleBuild, OnlyStraddlersGoStale, NotReading, Hit
<1> QED
  BY <1>2, <1>3, <1>4, <1>5 DEF IInv

\* The strengthening is inductive: the lock and the handle follow the places of
\* the threads, and a write unsettles the rules until a new generation begins.
THEOREM Inductive == Spec => []IInv
<1>1. IInv /\ [Next]_vars => IInv'
  BY TypeStep, LocksStep, GenerationsStep, FreshStep DEF IInv, Locks, Fresh
<1> QED
  BY IInvInit, <1>1, PTL DEF Spec

\* Every variable has its type.
THEOREM TypeCorrect == Spec => []TypeOK
<1>1. IInv => TypeOK
  BY DEF IInv
<1> QED
  BY Inductive, <1>1, PTL

\* use_database() and _seed_lock: the process is on a scratch database only
\* inside the replay that owns it, and never during a batch.
THEOREM HandleIsOnlyLent == Spec => []HandleIsLent
<1>1. IInv => HandleIsLent
  <2> SUFFICES ASSUME IInv PROVE HandleIsLent
    OBVIOUS
  <2>1. handle # "live" => handle \in Threads
    BY DEF IInv, HandleFollows, Threads
  <2> QED
    BY <2>1 DEF IInv, HandleFollows, LockedByOne, HandleIsLent, LockedPlaces,
                ScratchPlaces
<1> QED
  BY Inductive, <1>1, PTL

\* _cached() and reload(): once every write is announced, a rule served from a
\* build of the current generation is the rule in force.
THEOREM OnlyStraddlers == Spec => []OnlyStraddlersGoStale
<1>1. IInv => OnlyStraddlersGoStale
  BY DEF IInv
<1> QED
  BY Inductive, <1>1, PTL

\* replay(): no step of a replay changes a rule of the merchant's.
THEOREM ReplaysWriteNothing == Spec => ReplayWritesNothing
<1> DEFINE Kept(t) ==
      at[t] \in LockedPlaces /\ at'[t] # at[t] => stored'["live"] = stored["live"]
<1>1. IInv /\ [Next]_vars => [\A t \in Replayers : Kept(t)]_vars
  <2> SUFFICES ASSUME IInv, Next, NEW u \in Replayers, at[u] \in LockedPlaces,
                      at'[u] # at[u]
               PROVE  stored'["live"] = stored["live"]
    OBVIOUS
  <2> USE ThreadsAssumption
  <2>0. TypeOK /\ LockedByOne /\ HandleFollows /\ u \in Threads
    BY DEF IInv, Threads
  <2>1. ASSUME NEW t \in Threads, NEW s \in Sources,
               EditRule(t, s) \/ Seed(t) \/ Commit(t) \/ Reset(t) \/ BeginBatch(t)
        PROVE  FALSE
    <3>1. at[t] \notin LockedPlaces /\ \A x \in Threads \ {t} : at'[x] = at[x]
      BY <2>0, <2>1, GoesThere, PlacesAre
         DEF EditRule, Seed, Commit, Reset, BeginBatch, LockedPlaces, ScratchPlaces
    <3> QED
      BY <2>0, <3>1
  <2>2. ASSUME NEW t \in Threads, Open(t) \/ Plant(t)
        PROVE  stored'["live"] = stored["live"]
    <3>1. t \in Replayers
      BY <2>0, <2>2, GoesThere, PlacesAre
         DEF Open, Plant, LockedByOne, LockedPlaces, ScratchPlaces
    <3>2. CASE Open(t)
      BY <2>0, <3>1, <3>2 DEF Open, Write, TypeOK, RulesTypeOK
    <3>3. CASE Plant(t)
      <4>1. handle = t
        BY <2>0, <3>3, GoesThere, PlacesAre DEF Plant, HandleFollows, ScratchPlaces
      <4> QED
        BY <2>0, <3>1, <3>3, <4>1 DEF Plant, Write, TypeOK, RulesTypeOK, Databases
    <3> QED
      BY <2>2, <3>2, <3>3
  <2>3. ASSUME NEW t \in Threads, NEW s \in Sources,
               Peek(t, s) \/ ReadRule(t, s) \/ Before(t) \/ Parse(t, s) \/ Copy(t)
                 \/ Reading(t)
        PROVE  UNCHANGED stored
    BY <2>3 DEF Peek, ReadRule, Before, Parse, Copy, Reading, Look, Build, Fill
  <2>4. ASSUME NEW t \in Threads,
               Count(t) \/ Reload(t) \/ EndBatch(t) \/ BeginReplay(t) \/ Close(t)
                 \/ FinishSide(t)
        PROVE  UNCHANGED stored
    BY <2>4 DEF Count, Reload, EndBatch, BeginReplay, Close, FinishSide, rulesVars
  <2> QED
    BY <2>1, <2>2, <2>3, <2>4 DEF Next, Sources
<1> QED
  BY Inductive, <1>1, PTL DEF Spec, ReplayWritesNothing
=============================================================================
