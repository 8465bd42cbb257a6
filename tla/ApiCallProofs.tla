---------------------------- MODULE ApiCallProofs ----------------------------
(***************************************************************************)
(* Lemmas about ApiCall, for any callers and any set W of writes: each of  *)
(* its operators keeps the types of the writes under way, and the count of *)
(* what the server has done.                                               *)
(***************************************************************************)
EXTENDS ApiCall, TLAPS

Replies == {"none", "done", "busy", "denied", "refused"}

CallShape(W) ==
  /\ token \in Tokens
  /\ call \in [Callers -> [at : {"idle", "first", "again"}, what : W,
                           with : Tokens, reply : Replies]]
  /\ stray \in SUBSET [by : Callers, what : W, with : Tokens,
                       mine : BOOLEAN]
  /\ took \in [Callers -> Nat]

\* Where a write is decides how often the server has done it: as often as the answer
\* in hand says, or, once its caller has given up on it, not at all while it may
\* still arrive; and it may arrive once.
OnceEach ==
  \A c \in Callers :
    /\ InFlight(c) =>
         /\ \A s \in stray : s.by = c => ~s.mine
         /\ took[c] = IF call[c].reply = "done" THEN 1 ELSE 0
    /\ \A s \in stray : s.by = c /\ s.mine => took[c] = 0
    /\ \A s, t \in stray : s.by = c /\ t.by = c /\ s.mine /\ t.mine => s = t
    /\ took[c] <= 1

CallInv(W) == CallShape(W) /\ OnceEach

-----------------------------------------------------------------------------
\* A new write takes the place of the last one, whose leftovers are not its own.
LEMMA SendKeeps ==
  ASSUME NEW W, CallInv(W), NEW c \in Callers, NEW w \in W, Send(c, w)
  PROVE  CallInv(W)'
<1> USE DEF CallInv, CallShape, Tokens, Replies
<1>1. stray' \in SUBSET [by : Callers, what : W, with : Tokens,
                         mine : BOOLEAN]
  <2>1. ASSUME NEW s \in stray
        PROVE  [s EXCEPT !.mine = @ /\ s.by # c] \in
                 [by : Callers, what : W, with : Tokens, mine : BOOLEAN]
    <3>1. (s.mine /\ s.by # c) \in BOOLEAN
      OBVIOUS
    <3> QED
      BY <3>1
  <2>2. stray' = {[s EXCEPT !.mine = @ /\ s.by # c] : s \in stray}
    BY DEF Send
  <2> HIDE DEF CallInv, CallShape, Tokens
  <2> QED
    BY <2>1, <2>2
<1>2. \A s \in stray' : s.mine => s.by # c /\ s \in stray
  <2> SUFFICES ASSUME NEW s \in stray', s.mine PROVE s.by # c /\ s \in stray
    OBVIOUS
  <2>1. PICK u \in stray : s = [u EXCEPT !.mine = @ /\ u.by # c]
    BY DEF Send
  <2>2. u \in [by : Callers, what : W, with : Tokens, mine : BOOLEAN]
    OBVIOUS
  <2>3. s.by = u.by /\ s.mine = (u.mine /\ u.by # c)
    BY <2>1, <2>2
  <2>4. u.mine = TRUE /\ u.by # c
    BY <2>2, <2>3
  <2> HIDE DEF CallInv, CallShape, Tokens
  <2>5. [u EXCEPT !.mine = TRUE] = u
    BY <2>2, <2>4
  <2>6. s = [u EXCEPT !.mine = TRUE]
    BY <2>1, <2>4
  <2> QED
    BY <2>3, <2>4, <2>5, <2>6
<1>3. call' \in [Callers -> [at : {"idle", "first", "again"}, what : W,
                             with : Tokens, reply : Replies]]
  BY DEF Send
<1>4. took' = [took EXCEPT ![c] = 0] /\ call'[c].reply = "none"
  BY DEF Send
<1>5. \A d \in Callers \ {c} : call'[d] = call[d] /\ took'[d] = took[d]
  BY <1>4 DEF Send
<1>6. OnceEach'
  BY <1>2, <1>4, <1>5 DEF OnceEach, InFlight
<1> QED
  BY <1>1, <1>3, <1>4, <1>6 DEF Send

\* The server answers a write that is waited for.
LEMMA ServeKeeps ==
  ASSUME NEW W, CallInv(W), NEW c \in Callers, NEW r \in Replies \ {"none"}, Serve(c, r)
  PROVE  CallInv(W)'
<1> USE DEF CallInv, CallShape, Tokens, Replies
<1>1. took[c] = 0
  BY DEF Serve, OnceEach
<1>2. /\ call'[c] = [call[c] EXCEPT !.reply = r]
      /\ took'[c] = IF r = "done" THEN 1 ELSE 0
      /\ \A s \in stray : s.by = c => ~s.mine
  BY <1>1 DEF Serve, OnceEach
<1>3. \A d \in Callers \ {c} : call'[d] = call[d] /\ took'[d] = took[d]
  BY DEF Serve
<1>4. CallShape(W)'
  BY <1>2 DEF Serve
<1>5. OnceEach'
  BY <1>2, <1>3 DEF OnceEach, InFlight, Serve
<1> QED
  BY <1>4, <1>5

\* It does one that was given up on, for the only time.
LEMMA ServeStrayKeeps ==
  ASSUME NEW W, CallInv(W), NEW s \in stray, NEW r \in Replies \ {"none"}, ServeStray(s, r)
  PROVE  CallInv(W)'
<1> USE DEF CallInv, CallShape, Tokens, Replies
<1>1. /\ s.by \in Callers /\ s.mine \in BOOLEAN
      /\ stray' = stray \ {s} /\ call' = call /\ token' = token
  BY DEF ServeStray
<1>2. \A d \in Callers \ {s.by} : took'[d] = took[d]
  BY <1>1 DEF ServeStray
<1>3. took'[s.by] = took[s.by] + IF r = "done" /\ s.mine THEN 1 ELSE 0
  BY <1>1 DEF ServeStray
<1>4. CallShape(W)'
  BY <1>1 DEF ServeStray
<1>5. CASE s.mine
  <2>1. took[s.by] = 0 /\ ~InFlight(s.by) /\ took'[s.by] <= 1
    BY <1>1, <1>3, <1>5 DEF OnceEach
  <2>2. \A t \in stray' : t.by = s.by => ~t.mine
    BY <1>1, <1>5 DEF OnceEach
  <2>3. OnceEach'
    BY <1>1, <1>2, <2>1, <2>2 DEF OnceEach, InFlight
  <2> QED
    BY <1>4, <2>3
<1>6. CASE ~s.mine
  <2>1. took' = took
    BY <1>1, <1>2, <1>3, <1>6, <1>4
  <2>2. OnceEach'
    BY <1>1, <2>1 DEF OnceEach, InFlight
  <2> QED
    BY <1>4, <2>2
<1> QED
  BY <1>1, <1>5, <1>6

\* A first attempt that was denied has done nothing, so it can be sent again.
LEMMA AskKeeps ==
  ASSUME NEW W, CallInv(W), NEW c \in Callers, AskForAdminToken(c)
  PROVE  CallInv(W)'
<1> USE DEF CallInv, CallShape, Tokens, Replies
<1>1. PICK t \in {"good", "bad"} :
        call' = [call EXCEPT ![c] = [@ EXCEPT !.at = "again", !.with = t,
                                              !.reply = "none"]]
  BY DEF AskForAdminToken
<1>2. CallShape(W)'
  BY <1>1 DEF AskForAdminToken
<1>3. \A d \in Callers \ {c} : call'[d] = call[d]
  BY <1>1
<1>4. InFlight(c) /\ call[c].reply = "denied" /\ call'[c].reply = "none"
  BY <1>1 DEF AskForAdminToken, InFlight
<1>5. stray' = stray /\ took' = took
  BY DEF AskForAdminToken
<1>6. OnceEach'
  BY <1>3, <1>4, <1>5 DEF OnceEach, InFlight
<1> QED
  BY <1>2, <1>6

\* An answer that reached its caller leaves nothing on its way.
LEMMA ReturnsKeeps ==
  ASSUME NEW W, CallInv(W), NoCall.what \in W,
         NEW c \in Callers, NEW r \in Replies, Returns(c, r)
  PROVE  CallInv(W)'
<1> USE DEF CallInv, CallShape, Tokens, Replies
<1>1. CallShape(W)'
  BY DEF Returns, NoCall
<1>2. /\ \A d \in Callers \ {c} : call'[d] = call[d]
      /\ call'[c].at = "idle" /\ stray' = stray /\ took' = took
      /\ InFlight(c)
  BY DEF Returns, NoCall
<1>3. OnceEach'
  BY <1>2 DEF OnceEach, InFlight
<1> QED
  BY <1>1, <1>3

\* A write that is given up on leaves itself on its way, if the server has not had it.
LEMMA GivesUpKeeps ==
  ASSUME NEW W, CallInv(W), NoCall.what \in W, NEW c \in Callers, GivesUp(c)
  PROVE  CallInv(W)'
<1> USE DEF CallInv, CallShape, Tokens, Replies
<1> DEFINE left == [by |-> c, what |-> call[c].what, with |-> call[c].with,
                    mine |-> TRUE]
<1>0. left \in [by : Callers, what : W, with : Tokens, mine : BOOLEAN]
  OBVIOUS
<1>1. CallShape(W)'
  <2>1. call' \in [Callers -> [at : {"idle", "first", "again"},
                              what : W, with : Tokens,
                              reply : Replies]]
    BY DEF GivesUp, NoCall
  <2>2. stray' \subseteq stray \union {left}
    BY DEF GivesUp, Abandoned
  <2> QED
    BY <1>0, <2>1, <2>2 DEF GivesUp
<1>2. /\ \A d \in Callers \ {c} : call'[d] = call[d]
      /\ call'[c].at = "idle" /\ took' = took
  BY DEF GivesUp, NoCall
<1>3. InFlight(c) /\ \A s \in stray : s.by = c => ~s.mine
  BY DEF GivesUp, OnceEach
<1>4. \A s \in stray' : s \in stray \/ (s = left /\ call[c].reply = "none")
  BY DEF GivesUp, Abandoned
<1>5. left.by = c /\ (call[c].reply = "none" => took[c] = 0)
  BY <1>3 DEF OnceEach
<1> DEFINE Once(d) ==
      /\ InFlight(d) =>
           /\ \A s \in stray : s.by = d => ~s.mine
           /\ took[d] = IF call[d].reply = "done" THEN 1 ELSE 0
      /\ \A s \in stray : s.by = d /\ s.mine => took[d] = 0
      /\ \A s, t \in stray : s.by = d /\ t.by = d /\ s.mine /\ t.mine => s = t
      /\ took[d] <= 1
<1>6. Once(c)'
  <2>1. ~InFlight(c)' /\ took[c] <= 1 /\ took' = took
    BY <1>2 DEF InFlight, OnceEach
  <2>2. \A s \in stray' : s.by = c /\ s.mine => s = left /\ took[c] = 0
    BY <1>3, <1>4, <1>5
  <2> HIDE DEF left
  <2> QED
    BY <2>1, <2>2
<1>7. ASSUME NEW d \in Callers \ {c} PROVE Once(d)'
  <2>1. Once(d)
    BY DEF OnceEach
  <2>2. \A s \in stray' : s.by = d => s \in stray
    BY <1>4, <1>5
  <2> HIDE DEF left, CallInv, CallShape
  <2> QED
    BY <1>2, <2>1, <2>2 DEF InFlight
<1>8. OnceEach'
  BY <1>6, <1>7 DEF OnceEach
<1> QED
  BY <1>1, <1>8

\* A write that is lost is one less to arrive.
LEMMA LoseStrayKeeps ==
  ASSUME NEW W, CallInv(W), LoseStray
  PROVE  CallInv(W)'
  BY DEF CallInv, CallShape, OnceEach, InFlight, LoseStray

\* A step that touches no call keeps the books.
LEMMA UnchangedKeeps ==
  ASSUME NEW W, CallInv(W), UNCHANGED callVars
  PROVE  CallInv(W)'
  BY DEF CallInv, CallShape, OnceEach, InFlight, callVars
=============================================================================
