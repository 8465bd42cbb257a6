------------------------------- MODULE ApiCall -------------------------------
(***************************************************************************)
(* The dashboard's way to the API (ui/src/lib/api.ts): a write goes out    *)
(* with the admin token of the tab, if there is one; a 401 asks the        *)
(* operator for the token, once, and sends the write again; an abort after *)
(* the time limit, or a broken connection, is an error to the caller,      *)
(* though the server may have done the write or may still do it.           *)
(*                                                                         *)
(* The modules that extend this one say what the server answers, and what  *)
(* a component does with the answer.                                       *)
(***************************************************************************)
EXTENDS Naturals, FiniteSets

CONSTANTS
  Callers,    \* the components that write
  MaxStrays   \* bound on the writes given up on that may still arrive

ASSUME CallAssumption == MaxStrays \in Nat

VARIABLES
  token,   \* sessionStorage: "good", or "bad", which stands for none as well
  call,    \* call[c]: the write c is waiting for
  stray,   \* writes the browser gave up on before the server had them
  took     \* history: how often the server did the last write of c

callVars == <<token, call, stray, took>>

\* The writes whose endpoints depend on require_admin.
Admin == {"kill", "set", "reset"}

NoCall == [at |-> "idle", what |-> [kind |-> "nothing"], with |-> "bad", reply |-> "none"]

CallInit ==
  /\ token = "bad"
  /\ call = [c \in Callers |-> NoCall]
  /\ stray = {}
  /\ took = [c \in Callers |-> 0]

InFlight(c) == call[c].at \in {"first", "again"}

\* What GiveUp may leave on its way.
Abandoned(c) ==
  IF call[c].reply = "none"
    THEN {[by |-> c, what |-> call[c].what, with |-> call[c].with, mine |-> TRUE]}
    ELSE {}

\* request(): the first attempt of the write w, a record with a kind, carries the
\* stored token.
Send(c, w) ==
  /\ call[c].at = "idle"
  /\ Cardinality(stray) < MaxStrays
  /\ call' = [call EXCEPT ![c] =
                [at |-> "first", what |-> w, with |-> token, reply |-> "none"]]
  /\ took' = [took EXCEPT ![c] = 0]
  /\ stray' = {[s EXCEPT !.mine = @ /\ s.by # c] : s \in stray}
  /\ UNCHANGED token

\* require_admin: an admin write needs the right token.
Answer(what, with, r) ==
  IF what.kind \in Admin /\ with # "good" THEN "denied" ELSE r

\* The server handles the attempt that is on its way; what it does to its own
\* state is said where this is used.
Serve(c, r) ==
  /\ InFlight(c)
  /\ call[c].reply = "none"
  /\ call' = [call EXCEPT ![c].reply = r]
  /\ took' = [took EXCEPT ![c] = @ + IF r = "done" THEN 1 ELSE 0]
  /\ UNCHANGED <<token, stray>>

\* The server handles a write nobody waits for any more ...
ServeStray(s, r) ==
  /\ s \in stray
  /\ stray' = stray \ {s}
  /\ took' = [took EXCEPT ![s.by] = @ + IF r = "done" /\ s.mine THEN 1 ELSE 0]
  /\ UNCHANGED <<token, call>>

\* ... or it never arrives.
LoseStray ==
  /\ \E s \in stray : stray' = stray \ {s}
  /\ UNCHANGED <<token, call, took>>

\* Mutation: a write that timed out is sent again as well.
AskOrResend(c) ==
  /\ call[c].at = "first"
  /\ call[c].reply # "none" => call[c].reply = "denied"
  /\ stray' = stray \union Abandoned(c)
  /\ \E t \in {"good", "bad"} :
       /\ call' = [call EXCEPT ![c] = [@ EXCEPT !.at = "again", !.with = t,
                                                !.reply = "none"]]
       /\ token' \in {t, token}
  /\ UNCHANGED took

\* A 401 on the first attempt: askForAdminToken(), and once more with what was
\* entered, which the tab remembers unless its storage is blocked.
AskForAdminToken(c) ==
  /\ call[c].at = "first"
  /\ call[c].reply = "denied"
  /\ \E t \in {"good", "bad"} :
       /\ call' = [call EXCEPT ![c] = [@ EXCEPT !.at = "again", !.with = t,
                                                !.reply = "none"]]
       /\ token' \in {t, token}
  /\ UNCHANGED <<stray, took>>

\* The answer reaches the caller: any answer, a first 401 when the prompt is
\* cancelled included.
Returns(c, r) ==
  /\ InFlight(c)
  /\ call[c].reply = r
  /\ r # "none"
  /\ call' = [call EXCEPT ![c] = NoCall]
  /\ UNCHANGED <<token, stray, took>>

\* The time limit passes or the connection breaks; a 401 that is being asked
\* about has been received.
GivesUp(c) ==
  /\ InFlight(c)
  /\ stray' = stray \union Abandoned(c)
  /\ call' = [call EXCEPT ![c] = NoCall]
  /\ UNCHANGED <<token, took>>

-----------------------------------------------------------------------------
Tokens == {"good", "bad"}

CallTypeOK ==
  /\ token \in Tokens
  /\ \A c \in Callers :
       /\ call[c].at \in {"idle", "first", "again"}
       /\ call[c].with \in Tokens
       /\ took[c] \in Nat
  /\ \A s \in stray : s.by \in Callers /\ s.with \in Tokens /\ s.mine \in BOOLEAN

\* Nothing a click starts is done twice by the server: not by the second attempt
\* after a 401, and not by a write that arrives after its caller gave up on it.
WriteAtMostOnce == \A c \in Callers : took[c] <= 1
=============================================================================
