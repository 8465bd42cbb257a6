----------------------------- MODULE MCRecovery -----------------------------
(* Small instances of Recovery for TLC. *)
EXTENDS Recovery

CONSTANTS r1, r2

OneRecord == {r1}
TwoRecords == {r1, r2}
AllActions == {"SILENT_RETRY", "SEND_LINK"}
Links == {"SEND_LINK"}
NoRecords == {}
NoEvents == {}

SecondRecord == {r2}

TwoLinks == [r \in Records |-> <<"SEND_LINK", "SEND_LINK">>]
ThreeLinks == [r \in Records |-> <<"SEND_LINK", "SEND_LINK", "SEND_LINK">>]
LinksAndRetry ==
  [r \in Records |-> IF r = r1 THEN <<"SEND_LINK", "SEND_LINK">>
                     ELSE <<"SILENT_RETRY", "SEND_LINK">>]
Stalled == <<"SEND_LINK", "SEND_LINK", "ESCALATE">>
StalledRetry == <<"SILENT_RETRY", "SILENT_RETRY", "ESCALATE">>

Link(r, n) == <<r, n, "SEND_LINK">>

\* What Razorpay may say of r1: on its first link one payment fails and one
\* succeeds, which two events report; and the order the merchant had before us is
\* paid too.
Reported == {LinkPaid(Link(r1, 1), <<"live", 1>>),
             Captured(Link(r1, 1), <<"live", 2>>),
             Failed(Link(r1, 1), "note", <<"live", 4>>),
             PaidUnprompted(r1, <<"live", 5>>)}

OnePayment == {LinkPaid(Link(r1, 1), <<"live", 1>>),
               Captured(Link(r1, 1), <<"live", 2>>)}
PaymentAndFailure == OnePayment \union {Failed(Link(r1, 1), "ref", <<"live", 3>>)}

PassOnly == {"pass"}
PassOrHuman == {"pass", "human"}
AllVerdicts == {"pass", "defer", "human", "close"}
AllReplies == {"promise", "human", "stop"}
=============================================================================
