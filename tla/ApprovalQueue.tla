---------------------------- MODULE ApprovalQueue ----------------------------
(***************************************************************************)
(* packages/core/src/approval-queue.ts: sensitive actions wait here for an *)
(* explicit human decision.  A call of the class is atomic: Node runs it   *)
(* to its end before the next timer or HTTP handler.                       *)
(***************************************************************************)
EXTENDS Naturals, Sequences

CONSTANTS
    Requests,      \* ids the queue may hand out
    Runs,          \* the runs that ask
    RunOf,         \* [Requests -> Runs]: the run a request belongs to
    HistoryLimit   \* options.historyLimit (200 in production)

ASSUME QueueAssumption ==
    /\ RunOf \in [Requests -> Runs]
    /\ HistoryLimit \in Nat \ {0}

VARIABLES
    arrivals,   \* insertion order of the waiters map
    waiters,    \* keys of the waiters map: requests with no decision yet
    timers,     \* armed setTimeout callbacks
    history,    \* finished records, newest last, bounded by HistoryLimit
    outcome,    \* what each request's promise resolved with
    receipts,   \* statuses reported to onTransition, per request
    reply       \* answer of the last decide() call

queueVars == <<arrivals, waiters, timers, history, outcome, receipts, reply>>

Final == {"approved", "rejected", "expired", "cancelled"}
Replies == {"none", "ok", "already_decided", "not_found"}

QueueInit ==
    /\ arrivals = <<>>
    /\ waiters = {}
    /\ timers = {}
    /\ history = <<>>
    /\ outcome = [q \in Requests |-> "none"]
    /\ receipts = [q \in Requests |-> <<>>]
    /\ reply = [request |-> "none", code |-> "none"]

\* randomUUID(): an id is handed out once.
Fresh(q) == receipts[q] = <<>>

\* Mutant: no timeout is armed.
RequestWithoutTimer(q) ==
    /\ Fresh(q)
    /\ arrivals' = Append(arrivals, q)
    /\ waiters' = waiters \cup {q}
    /\ receipts' = [receipts EXCEPT ![q] = Append(@, "pending")]
    /\ UNCHANGED <<timers, history, outcome, reply>>

Request(q) ==
    /\ Fresh(q)
    /\ arrivals' = Append(arrivals, q)
    /\ waiters' = waiters \cup {q}
    /\ timers' = timers \cup {q}
    /\ receipts' = [receipts EXCEPT ![q] = Append(@, "pending")]
    /\ UNCHANGED <<history, outcome, reply>>

\* history.splice(0, length - limit) after each push: the newest survive.
Keep(h) ==
    IF Len(h) > HistoryLimit THEN SubSeq(h, Len(h) - HistoryLimit + 1, Len(h)) ELSE h

\* Mutant: the record reaches the history with the status it was created with.
EntriesAsCreated(qs, status) == [i \in DOMAIN qs |-> [id |-> qs[i], status |-> "pending"]]

Entries(qs, status) == [i \in DOMAIN qs |-> [id |-> qs[i], status |-> status]]

\* Mutant: clearTimeout() is forgotten.
FinishAllTimerArmed(ids, order, status) ==
    /\ waiters' = waiters \ ids
    /\ history' = Keep(history \o Entries(order, status))
    /\ outcome' = [q \in Requests |-> IF q \in ids THEN status ELSE outcome[q]]
    /\ receipts' = [q \in Requests |->
                      IF q \in ids THEN Append(receipts[q], status) ELSE receipts[q]]
    /\ UNCHANGED <<arrivals, timers>>

\* finish() on each request of ids, in the given order: the timer is cleared,
\* the record moves to the history, one receipt is written and the promise
\* resolves.
FinishAll(ids, order, status) ==
    /\ waiters' = waiters \ ids
    /\ timers' = timers \ ids
    /\ history' = Keep(history \o Entries(order, status))
    /\ outcome' = [q \in Requests |-> IF q \in ids THEN status ELSE outcome[q]]
    /\ receipts' = [q \in Requests |->
                      IF q \in ids THEN Append(receipts[q], status) ELSE receipts[q]]
    /\ UNCHANGED arrivals

Decide(q, approved) ==
    /\ q \in waiters
    /\ FinishAll({q}, <<q>>, IF approved THEN "approved" ELSE "rejected")
    /\ reply' = [request |-> q, code |-> "ok"]

\* decide() on an id with no waiter throws: 409 if the history still has it,
\* 404 once it was evicted or never existed.
DecideRefused(q) ==
    /\ q \notin waiters
    /\ reply' = [request |-> q,
                 code |-> IF \E i \in DOMAIN history : history[i].id = q
                          THEN "already_decided" ELSE "not_found"]
    /\ UNCHANGED <<arrivals, waiters, timers, history, outcome, receipts>>

\* The timer callback calls finish() without looking at the waiter first.
Expire(q) ==
    /\ q \in timers
    /\ FinishAll({q}, <<q>>, "expired")
    /\ UNCHANGED reply

\* Mutant: the run's settled requests are cancelled again.
EveryOf(r) == {q \in Requests : RunOf[q] = r /\ ~Fresh(q)}

\* What of ids is in s, in the order of s.
InOrder(s, ids) ==
    LET kept[n \in 0..Len(s)] ==
          IF n = 0 THEN <<>>
          ELSE IF s[n] \in ids THEN Append(kept[n - 1], s[n]) ELSE kept[n - 1]
    IN  kept[Len(s)]

PendingOf(r) == {q \in waiters : RunOf[q] = r}

CancelRun(r) ==
    LET ids == PendingOf(r) IN
    /\ FinishAll(ids, InOrder(arrivals, ids), "cancelled")
    /\ UNCHANGED reply

QueueNext ==
    \/ \E q \in Requests : Request(q)
    \/ \E q \in Requests, approved \in BOOLEAN : Decide(q, approved)
    \/ \E q \in Requests : DecideRefused(q)
    \/ \E q \in Requests : Expire(q)
    \/ \E r \in Runs : CancelRun(r)

\* setTimeout fires: the only thing here that happens without a caller.
QueueFairness == \A q \in Requests : WF_queueVars(Expire(q))

QueueSpec == QueueInit /\ [][QueueNext]_queueVars
FairQueueSpec == QueueSpec /\ QueueFairness

-----------------------------------------------------------------------------
\* Values the variables range over; the history keeps its bound.
QueueTypeOK ==
    /\ arrivals \in Seq(Requests)
    /\ waiters \subseteq Requests
    /\ timers \subseteq Requests
    /\ history \in Seq([id : Requests, status : Final]) /\ Len(history) <= HistoryLimit
    /\ outcome \in [Requests -> Final \cup {"none"}]
    /\ receipts \in [Requests -> Seq(Final \cup {"pending"})]
    /\ reply \in [request : Requests \cup {"none"}, code : Replies]

\* finish() dereferences the waiter of an expired timer without a check: a
\* timer still armed after its request was decided would throw inside the
\* timer callback and take the process down.
TimerHasWaiter == timers = waiters

\* The trail of one request: what is audited is what the run was told, once.
Trail(q) ==
    IF outcome[q] # "none" THEN <<"pending", outcome[q]>>
    ELSE IF q \in waiters THEN <<"pending">> ELSE <<>>

\* "Every transition is reported" (approval-queue.ts:12): the receipts of a
\* request are exactly one pending and at most one final status, the one its
\* waiting run received, and a request with an outcome no longer waits.
AuditedOnce ==
    \A q \in Requests : receipts[q] = Trail(q) /\ (q \in waiters => outcome[q] = "none")

\* A decision that answered ok is the one the run was told, until the next
\* call of decide(): a timer or cancellation never overrides it.
ReplyTruthful ==
    \A q \in Requests :
      (reply.request = q /\ reply.code = "ok") => outcome[q] \in {"approved", "rejected"}

\* No expiry without a waiter, no transition without its one receipt, and no
\* decision accepted that something else overrules.
AnsweredOnce == TimerHasWaiter /\ AuditedOnce /\ ReplyTruthful

\* docs/founder-approvals.md:8 "una segunda -> 409": a decision refused for an
\* already settled request says so.  The history bound breaks it.
SecondDecisionConflicts ==
    [][\A q \in Requests :
         (reply' # reply /\ reply'.request = q /\ outcome[q] # "none")
            => reply'.code = "already_decided"]_queueVars

-----------------------------------------------------------------------------
\* Refinement: forget everything but whether and how a request settled.
Verdict == [q \in Requests |->
              IF q \in waiters THEN "pending"
              ELSE IF outcome[q] = "none" THEN "unasked" ELSE outcome[q]]

Promise == INSTANCE ApprovalPromise WITH verdict <- Verdict

\* The queue keeps the one-shot promise, including that every request is
\* settled in the end (the timer guarantees it when nobody decides).
KeepsPromise == Promise!FairSpec
=============================================================================
