--------------------------- MODULE ApprovalPromise ---------------------------
(***************************************************************************)
(* What the Founder approval queue promises, without timers, history or    *)
(* receipts: a request is asked once, settled at most once, and its        *)
(* verdict is never revised (packages/core/src/approval-queue.ts:3-12).    *)
(***************************************************************************)
CONSTANT Requests

VARIABLE verdict

Settled == {"approved", "rejected", "expired", "cancelled"}
Verdicts == {"unasked", "pending"} \cup Settled

Init == verdict = [q \in Requests |-> "unasked"]

Ask(q) ==
    /\ verdict[q] = "unasked"
    /\ verdict' = [verdict EXCEPT ![q] = "pending"]

\* One call settles one request, or all the pending requests of a run.
Settle(S, v) ==
    /\ \A q \in S : verdict[q] = "pending"
    /\ verdict' = [q \in Requests |-> IF q \in S THEN v ELSE verdict[q]]

Next ==
    \/ \E q \in Requests : Ask(q)
    \/ \E S \in SUBSET Requests, v \in Settled : Settle(S, v)

Fairness == \A q \in Requests : WF_verdict(\E v \in Settled : Settle({q}, v))

Spec == Init /\ [][Next]_verdict
FairSpec == Spec /\ Fairness
=============================================================================
