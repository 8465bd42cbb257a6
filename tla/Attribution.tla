---------------------------- MODULE Attribution ----------------------------
(***************************************************************************)
(* The books: what the database says of each record and of each action     *)
(* taken on it, and the changes that measure/webhooks/attribution.py makes *)
(* to them.  A session reads first and writes at its commit, so the        *)
(* operators take what was read ("saw") as parameters.                     *)
(*                                                                         *)
(* An intervention is named by the triple its idempotency key is made of:  *)
(* record, attempt number, action type.  IN_PROGRESS and UNRECOVERABLE are *)
(* states of the enumeration that no code assigns; they are left out.      *)
(***************************************************************************)
EXTENDS Integers, Sequences

CONSTANTS
  Records,  \* at-risk records
  HardCap,  \* max_attempts.global_hard_cap
  Actions   \* action types that are executed: SILENT_RETRY, SEND_LINK, NOTIFY

ASSUME BooksAssumption == HardCap \in Nat \ {0}

Interventions == Records \X (1..HardCap) \X Actions
RecordOf(i) == i[1]

Owned == {"AT_RISK", "PROMISED"}      \* the agent's to work
Terminal == {"RECOVERED", "CLOSED"}   \* nobody's to work
States == Owned \union Terminal \union {"ESCALATED"}
Results == {"none", "RECOVERED", "FAILED_AGAIN", "NO_RESPONSE"}

VARIABLES
  state,     \* at_risk_records.state
  attempts,  \* at_risk_records.attempts
  queued,    \* unresolved human_queue rows of a record
  rows,      \* rows[r]: r's EXECUTED intervention rows, oldest first
  result     \* interventions.result

books == <<state, attempts, queued, rows, result>>

BooksInit ==
  /\ state = [r \in Records |-> "AT_RISK"]
  /\ attempts = [r \in Records |-> 0]
  /\ queued = [r \in Records |-> 0]
  /\ rows = [r \in Records |-> <<>>]
  /\ result = [i \in Interventions |-> "none"]

BooksTypeOK ==
  /\ state \in [Records -> States]
  /\ attempts \in [Records -> Nat]
  /\ queued \in [Records -> Nat]
  /\ rows \in [Records -> Seq(Interventions)]
  /\ result \in [Interventions -> Results]

SentTo(r) == {rows[r][n] : n \in 1..Len(rows[r])}
LastSent(r) == rows[r][Len(rows[r])]

-----------------------------------------------------------------------------
\* A write of the value that was read is not sent to the database.
SetState(r, saw, new) ==
  state' = IF saw = new THEN state ELSE [state EXCEPT ![r] = new]

\* Mutation: resolving counts one row down instead of closing them all.
ResolveOne(r) == queued' = [queued EXCEPT ![r] = @ - 1]

Resolve(r) == queued' = [queued EXCEPT ![r] = 0]

\* Mutation: the record's human-queue row is left open.
CreditOnly(i, sawState) ==
  /\ result' = [result EXCEPT ![i] = "RECOVERED"]
  /\ SetState(RecordOf(i), sawState, "RECOVERED")
  /\ UNCHANGED <<attempts, queued, rows>>

\* A payment traced to an intervention: the record is recovered whatever state
\* it is in, and nobody is left waiting to chase it.
Credit(i, sawState) ==
  /\ result' = [result EXCEPT ![i] = "RECOVERED"]
  /\ SetState(RecordOf(i), sawState, "RECOVERED")
  /\ Resolve(RecordOf(i))
  /\ UNCHANGED <<attempts, rows>>

\* Mutation: every failed payment spends an attempt.
FailAgainEachTime(i, sawResult, sawAttempts) ==
  /\ result' = [result EXCEPT ![i] = "FAILED_AGAIN"]
  /\ attempts' = [attempts EXCEPT ![RecordOf(i)] = sawAttempts + 1]
  /\ UNCHANGED <<state, queued, rows>>

\* Mutation: a failed payment spends no attempt.
FailAgainUncounted(i, sawResult, sawAttempts) ==
  /\ result' = [result EXCEPT ![i] = "FAILED_AGAIN"]
  /\ UNCHANGED <<state, attempts, queued, rows>>

\* A failed payment spends the attempt the first time it resolves.
FailAgain(i, sawResult, sawAttempts) ==
  /\ result' = IF sawResult = "FAILED_AGAIN" THEN result
               ELSE [result EXCEPT ![i] = "FAILED_AGAIN"]
  /\ attempts' = IF sawResult = "none"
                 THEN [attempts EXCEPT ![RecordOf(i)] = sawAttempts + 1]
                 ELSE attempts
  /\ UNCHANGED <<state, queued, rows>>

\* A payment nobody prompted: the money arrived and the agent gets no credit.
Unprompted(r) ==
  /\ state' = [state EXCEPT ![r] = "RECOVERED"]
  /\ Resolve(r)
  /\ UNCHANGED <<attempts, rows, result>>

\* mark_no_response: silence spends the attempt too, once.  Only a stub is met with
\* silence, and no webhook answers a stub, so nothing comes between the read of the
\* row and its commit: they are one step.
MarkNoResponse(i) ==
  /\ IF result[i] = "none"
       THEN /\ result' = [result EXCEPT ![i] = "NO_RESPONSE"]
            /\ attempts' = [attempts EXCEPT ![RecordOf(i)] = @ + 1]
       ELSE UNCHANGED <<result, attempts>>
  /\ UNCHANGED <<state, queued, rows>>
=============================================================================
