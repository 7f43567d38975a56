--------------------------- MODULE RunControlProofs ---------------------------
(* The approval queue audits every transition once and implements the        *)
(* one-shot promise, for any requests, runs and history size; and the        *)
(* execution core around it keeps its safety properties for any number of    *)
(* runs and any plans; the traces of runs, and what is learnt from them,     *)
(* agree with how the runs went.                                             *)
EXTENDS RunControlProps, RunTrace, FiniteSetTheorems, NumberLemmas, SequenceTheorems,
        TLAPS

-----------------------------------------------------------------------------
(* The queue *)

\* The audit trail with the facts that make it inductive.
QueueInv ==
    /\ waiters \subseteq Requests
    /\ TimerHasWaiter
    /\ outcome \in [Requests -> Final \cup {"none"}]
    /\ receipts \in [Requests -> Seq(Final \cup {"pending"})]
    /\ AuditedOnce

LEMMA InitQueueInv == QueueInit => QueueInv
BY DEF QueueInit, QueueInv, TimerHasWaiter, AuditedOnce, Trail

\* The trail of a request that settles.
LEMMA AppendTwo ==
    ASSUME NEW T, NEW a \in T, NEW b \in T
    PROVE  Append(<<a>>, b) = <<a, b>>
<1>1. <<a>> \in Seq(T) /\ Append(<<a>>, b) \in Seq(T) /\ <<a, b>> \in Seq(T)
  OBVIOUS
<1>2. Len(Append(<<a>>, b)) = 2 /\ Len(<<a, b>>) = 2
  OBVIOUS
<1>3. \A i \in 1..2 : Append(<<a>>, b)[i] = <<a, b>>[i]
  OBVIOUS
<1> QED BY <1>1, <1>2, <1>3, SeqEqual

\* Settling requests that all wait keeps the trail and maps to one abstract
\* step.
LEMMA FinishAllSettles ==
    ASSUME QueueInv, NEW ids, ids \subseteq waiters, NEW order, NEW v \in Final,
           FinishAll(ids, order, v)
    PROVE  QueueInv' /\ Promise!Settle(ids, v)
<1>1. /\ waiters' = waiters \ ids /\ timers' = timers \ ids
      /\ outcome' = [q \in Requests |-> IF q \in ids THEN v ELSE outcome[q]]
      /\ receipts' = [q \in Requests |-> IF q \in ids THEN Append(receipts[q], v) ELSE receipts[q]]
  BY DEF FinishAll
<1>2. v # "none" /\ v # "pending"
  BY DEF Final
<1>3. /\ waiters' \subseteq Requests /\ TimerHasWaiter'
      /\ outcome' \in [Requests -> Final \cup {"none"}]
  BY <1>1 DEF QueueInv, TimerHasWaiter
<1>4. ASSUME NEW q \in Requests
      PROVE  /\ receipts'[q] \in Seq(Final \cup {"pending"})
             /\ receipts'[q] = Trail(q)' /\ (q \in waiters' => outcome'[q] = "none")
  <2>1. CASE q \in ids
    <3>1. receipts[q] = <<"pending">> /\ outcome'[q] = v /\ receipts'[q] = Append(receipts[q], v)
      BY <1>1, <2>1 DEF QueueInv, AuditedOnce, Trail
    <3>2. "pending" \in Final \cup {"pending"} /\ v \in Final \cup {"pending"}
      OBVIOUS
    <3>3. receipts'[q] = <<"pending", v>>
      BY <3>1, <3>2, AppendTwo
    <3>4. Trail(q)' = <<"pending", v>> /\ q \notin waiters'
      BY <1>1, <1>2, <2>1, <3>1 DEF Trail
    <3>5. <<"pending", v>> \in Seq(Final \cup {"pending"})
      BY <3>2
    <3> QED BY <3>3, <3>4, <3>5
  <2>2. CASE q \notin ids
    BY <1>1, <2>2 DEF QueueInv, AuditedOnce, Trail
  <2> QED BY <2>1, <2>2
<1>5. receipts' \in [Requests -> Seq(Final \cup {"pending"})] /\ AuditedOnce'
  BY <1>1, <1>4 DEF AuditedOnce
<1>6. Promise!Settle(ids, v)
  <2>1. \A q \in ids : Verdict[q] = "pending"
    BY DEF QueueInv, Verdict
  <2>2. Verdict' = [q \in Requests |-> IF q \in ids THEN v ELSE Verdict[q]]
    BY <1>1, <1>2 DEF Verdict, QueueInv
  <2> QED BY <2>1, <2>2 DEF Promise!Settle
<1> QED BY <1>3, <1>5, <1>6 DEF QueueInv

LEMMA RequestAsks ==
    ASSUME QueueInv, NEW q \in Requests, Request(q)
    PROVE  QueueInv' /\ Promise!Ask(q)
<1>1. /\ receipts[q] = <<>> /\ waiters' = waiters \cup {q} /\ timers' = timers \cup {q}
      /\ receipts' = [receipts EXCEPT ![q] = Append(@, "pending")] /\ UNCHANGED outcome
  BY DEF Request, Fresh
<1>2. q \notin waiters /\ outcome[q] = "none"
  <2>1. Trail(q) = <<>>
    BY <1>1 DEF QueueInv, AuditedOnce
  <2>2. CASE outcome[q] # "none"
    <3>1. Len(Trail(q)) = 2
      BY <2>2 DEF Trail
    <3> QED BY <2>1, <3>1
  <2>3. CASE outcome[q] = "none" /\ q \in waiters
    <3>1. Len(Trail(q)) = 1
      BY <2>3 DEF Trail
    <3> QED BY <2>1, <3>1
  <2> QED BY <2>2, <2>3
<1>3. Append(receipts[q], "pending") = <<"pending">>
  BY <1>1
<1>4. QueueInv'
  <2>1. /\ waiters' \subseteq Requests /\ TimerHasWaiter'
        /\ outcome' \in [Requests -> Final \cup {"none"}]
    BY <1>1 DEF QueueInv, TimerHasWaiter
  <2>2. \A x \in Requests : receipts'[x] = IF x = q THEN <<"pending">> ELSE receipts[x]
    BY <1>1, <1>3 DEF QueueInv
  <2>3. AuditedOnce'
    BY <1>1, <1>2, <2>2 DEF QueueInv, AuditedOnce, Trail
  <2>4. receipts' \in [Requests -> Seq(Final \cup {"pending"})]
    BY <1>1, <1>3 DEF QueueInv
  <2> QED BY <2>1, <2>3, <2>4 DEF QueueInv
<1>5. Promise!Ask(q)
  <2>1. Verdict[q] = "unasked" /\ Verdict' = [Verdict EXCEPT ![q] = "pending"]
    BY <1>1, <1>2 DEF Verdict, QueueInv
  <2> QED BY <2>1 DEF Promise!Ask
<1> QED BY <1>4, <1>5

\* Every step keeps the invariant and is an abstract step or a stutter.
LEMMA QueueStep ==
    ASSUME QueueInv, [QueueNext]_queueVars
    PROVE  QueueInv' /\ [Promise!Next]_Verdict
<1>1. ASSUME NEW q \in Requests, Request(q) PROVE QueueInv' /\ Promise!Next
  BY <1>1, RequestAsks DEF Promise!Next
<1>2. ASSUME NEW ids, ids \subseteq waiters, NEW order, NEW v \in Final, FinishAll(ids, order, v)
      PROVE  QueueInv' /\ Promise!Next
  <2>1. ids \in SUBSET Requests /\ v \in Promise!Settled
    BY <1>2 DEF QueueInv, Final, Promise!Settled
  <2> QED BY <1>2, <2>1, FinishAllSettles DEF Promise!Next
<1>3. ASSUME NEW q \in Requests, NEW approved \in BOOLEAN, Decide(q, approved)
      PROVE  QueueInv' /\ Promise!Next
  BY <1>2, <1>3 DEF Decide, Final
<1>4. ASSUME NEW q \in Requests, Expire(q) PROVE QueueInv' /\ Promise!Next
  BY <1>2, <1>4 DEF Expire, Final, QueueInv, TimerHasWaiter
<1>5. ASSUME NEW r \in Runs, CancelRun(r) PROVE QueueInv' /\ Promise!Next
  <2>1. PendingOf(r) \subseteq waiters /\ "cancelled" \in Final
    BY DEF PendingOf, Final
  <2>2. \E order : FinishAll(PendingOf(r), order, "cancelled")
    BY <1>5 DEF CancelRun
  <2> QED BY <1>2, <2>1, <2>2
<1>6. ASSUME UNCHANGED <<waiters, timers, outcome, receipts>>
      PROVE  QueueInv' /\ UNCHANGED Verdict
  BY <1>6 DEF QueueInv, TimerHasWaiter, AuditedOnce, Trail, Verdict
<1>7. ASSUME NEW q \in Requests, DecideRefused(q) PROVE QueueInv' /\ UNCHANGED Verdict
  BY <1>6, <1>7 DEF DecideRefused
<1>8. CASE UNCHANGED queueVars
  BY <1>6, <1>8 DEF queueVars
<1> QED BY <1>1, <1>3, <1>4, <1>5, <1>7, <1>8 DEF QueueNext

LEMMA QueueInvariant == QueueSpec => []QueueInv
<1>1. QueueInv /\ [QueueNext]_queueVars => QueueInv'
  BY QueueStep
<1> QED BY InitQueueInv, <1>1, PTL DEF QueueSpec

\* What settled before keeps its outcome: a request that settled waits no more.
LEMMA SettledStays ==
    ASSUME QueueInv, [QueueNext]_queueVars, NEW q \in Requests, outcome[q] # "none"
    PROVE  outcome'[q] = outcome[q]
<1>1. q \notin waiters /\ q \notin timers
  BY DEF QueueInv, AuditedOnce, TimerHasWaiter
<1>2. ASSUME NEW ids, q \notin ids, NEW order, NEW v, FinishAll(ids, order, v)
      PROVE  outcome'[q] = outcome[q]
  BY <1>2 DEF FinishAll
<1>3. ASSUME NEW x \in Requests, NEW approved \in BOOLEAN, Decide(x, approved) PROVE outcome'[q] = outcome[q]
  BY <1>1, <1>2, <1>3 DEF Decide
<1>4. ASSUME NEW x \in Requests, Expire(x) PROVE outcome'[q] = outcome[q]
  BY <1>1, <1>2, <1>4 DEF Expire
<1>5. ASSUME NEW r \in Runs, CancelRun(r) PROVE outcome'[q] = outcome[q]
  BY <1>1, <1>2, <1>5 DEF CancelRun, PendingOf
<1> QED BY <1>3, <1>4, <1>5 DEF QueueNext, Request, DecideRefused, queueVars

\* Only decide() answers, and it answers ok to what it settles itself.
LEMMA ReplyStep ==
    ASSUME QueueInv, ReplyTruthful, [QueueNext]_queueVars
    PROVE  ReplyTruthful'
<1>1. ASSUME NEW q \in Requests, NEW approved \in BOOLEAN, Decide(q, approved) PROVE ReplyTruthful'
  <2>1. outcome'[q] \in {"approved", "rejected"} /\ reply' = [request |-> q, code |-> "ok"]
    BY <1>1 DEF Decide, FinishAll
  <2> QED BY <2>1 DEF ReplyTruthful
<1>2. ASSUME NEW q \in Requests, DecideRefused(q) PROVE ReplyTruthful'
  <2>1. reply'.code # "ok"
    BY <1>2 DEF DecideRefused
  <2> QED BY <2>1 DEF ReplyTruthful
<1>3. ASSUME UNCHANGED reply PROVE ReplyTruthful'
  BY <1>3, SettledStays DEF ReplyTruthful
<1> QED BY <1>1, <1>2, <1>3 DEF QueueNext, Request, Expire, CancelRun, queueVars

\* A timer is armed exactly for the requests that wait, so finish() always
\* finds its waiter; one pending receipt and at most one final one, the one the
\* run received; and a decision that was accepted is never overruled.
THEOREM AuditTrail == QueueSpec => []AnsweredOnce
<1>1. QueueInit => ReplyTruthful
  BY DEF QueueInit, ReplyTruthful
<1>2. QueueInv /\ ReplyTruthful /\ [QueueNext]_queueVars => ReplyTruthful'
  BY ReplyStep
<1>3. QueueInv /\ ReplyTruthful => AnsweredOnce
  BY DEF QueueInv, AnsweredOnce
<1> QED BY <1>1, <1>2, <1>3, QueueInvariant, PTL DEF QueueSpec


\* The filter is a function along the positions: it exists for every length ...
Filters(f, s, ids, n) ==
    f = [k \in 0..n |-> IF k = 0 THEN <<>>
                        ELSE IF s[k] \in ids THEN Append(f[k - 1], s[k]) ELSE f[k - 1]]

LEMMA FilterExists == ASSUME NEW s, NEW ids, NEW n \in Nat PROVE \E f : Filters(f, s, ids, n)
<1> DEFINE Next1(f, k) == IF s[k] \in ids THEN Append(f[k - 1], s[k]) ELSE f[k - 1]
           T == {m \in Nat : \E f : f = [k \in 0..m |-> IF k = 0 THEN <<>> ELSE Next1(f, k)]}
<1>1. 0 \in T
  <2> DEFINE f == [k \in 0..0 |-> <<>>]
  <2>1. f = [k \in 0..0 |-> IF k = 0 THEN <<>> ELSE Next1(f, k)]
    OBVIOUS
  <2> HIDE DEF f
  <2> QED BY <2>1
<1>2. ASSUME NEW m \in 1..n, m - 1 \in T PROVE m \in T
  <2>1. PICK f : f = [k \in 0..(m - 1) |-> IF k = 0 THEN <<>> ELSE Next1(f, k)]
    BY <1>2
  <2> DEFINE g == [k \in 0..m |-> IF k = m THEN Next1(f, m) ELSE f[k]]
  <2>2. ASSUME NEW k \in 0..m PROVE g[k] = IF k = 0 THEN <<>> ELSE Next1(g, k)
    <3>1. CASE k = m
      <4>1. k - 1 \in 0..m /\ k - 1 # m /\ k # 0
        BY <3>1
      <4>2. g[k - 1] = f[k - 1] /\ g[k] = Next1(f, k)
        BY <3>1, <4>1
      <4> QED BY <4>1, <4>2
    <3>2. CASE k # m
      <4>1. k \in 0..(m - 1) /\ g[k] = f[k]
        BY <3>2
      <4>2. f[k] = IF k = 0 THEN <<>> ELSE Next1(f, k)
        BY <2>1, <4>1
      <4>3. CASE k = 0
        BY <4>1, <4>2, <4>3
      <4>4. CASE k # 0
        <5>1. k - 1 \in 0..m /\ k - 1 # m
          BY <4>4, <4>1
        <5>2. g[k - 1] = f[k - 1]
          BY <5>1
        <5> QED BY <4>1, <4>2, <4>4, <5>2
      <4> QED BY <4>3, <4>4
    <3> QED BY <3>1, <3>2
  <2>3. g = [k \in 0..m |-> g[k]]
    OBVIOUS
  <2> HIDE DEF g
  <2>4. g = [k \in 0..m |-> IF k = 0 THEN <<>> ELSE Next1(g, k)]
    BY <2>2, <2>3
  <2> QED BY <2>4
<1>3. 0..n \subseteq T
  <2> HIDE DEF T
  <2> QED BY <1>1, <1>2, UpTo
<1>4. n \in T
  <2> HIDE DEF T
  <2> QED BY <1>3
<1>5. \E f : f = [k \in 0..n |-> IF k = 0 THEN <<>> ELSE Next1(f, k)]
  BY <1>4
<1> QED BY <1>5 DEF Filters

\* ... and keeps to what it is given.
LEMMA InOrderIsOf ==
    ASSUME NEW R, NEW s \in Seq(R), NEW ids
    PROVE  InOrder(s, ids) \in Seq(R)
<1>1. PICK n \in Nat : n = Len(s) /\ \A k \in 1..n : s[k] \in R
  OBVIOUS
<1> DEFINE kept == CHOOSE f : Filters(f, s, ids, n)
<1>2. Filters(kept, s, ids, n)
  BY FilterExists
<1>3. InOrder(s, ids) = kept[n]
  BY <1>1 DEF InOrder, Filters
<1> HIDE DEF kept
<1> DEFINE T == {k \in 0..n : kept[k] \in Seq(R)}
<1>4. 0 \in T
  BY <1>1, <1>2 DEF Filters
<1>5. ASSUME NEW k \in 1..n, k - 1 \in T PROVE k \in T
  <2>1. k \in 0..n /\ k # 0 /\ s[k] \in R /\ kept[k - 1] \in Seq(R)
    BY <1>1, <1>5
  <2>2. kept[k] = Append(kept[k - 1], s[k]) \/ kept[k] = kept[k - 1]
    BY <1>1, <1>2, <2>1 DEF Filters
  <2>3. Append(kept[k - 1], s[k]) \in Seq(R)
    BY <2>1, AppendProperties
  <2> QED BY <2>1, <2>2, <2>3
<1>6. 0..n \subseteq T
  <2> HIDE DEF T
  <2> QED BY <1>4, <1>5, UpTo
<1> QED BY <1>3, <1>6

\* The history keeps its bound, with the newest in it.
LEMMA KeepIsBounded ==
    ASSUME NEW R, NEW h \in Seq(R)
    PROVE  Keep(h) \in Seq(R) /\ Len(Keep(h)) <= HistoryLimit
<1>1. HistoryLimit \in Nat \ {0} /\ Len(h) \in Nat
  BY QueueAssumption
<1>2. CASE Len(h) <= HistoryLimit
  BY <1>1, <1>2 DEF Keep
<1>3. CASE Len(h) > HistoryLimit
  <2>1. Keep(h) = SubSeq(h, Len(h) - HistoryLimit + 1, Len(h))
    BY <1>3 DEF Keep
  <2>2. Len(h) - HistoryLimit + 1 \in 1..(Len(h) + 1) /\ Len(h) \in 0..Len(h)
    BY <1>1, <1>3
  <2>3. SubSeq(h, Len(h) - HistoryLimit + 1, Len(h)) \in Seq(R)
        /\ Len(SubSeq(h, Len(h) - HistoryLimit + 1, Len(h))) = Len(h) - (Len(h) - HistoryLimit + 1) + 1
    BY <1>1, <1>3, <2>2, SubSeqProperties
  <2> QED BY <1>1, <2>1, <2>3
<1> QED BY <1>1, <1>2, <1>3

\* What QueueInv leaves open of the types.
QueueRest ==
    /\ arrivals \in Seq(Requests)
    /\ history \in Seq([id : Requests, status : Final]) /\ Len(history) <= HistoryLimit
    /\ reply \in [request : Requests \cup {"none"}, code : Replies]

LEMMA HistoryKeeps ==
    ASSUME QueueRest, NEW ids, NEW order \in Seq(Requests), NEW v \in Final, FinishAll(ids, order, v)
    PROVE  UNCHANGED arrivals /\ (history \in Seq([id : Requests, status : Final]) /\ Len(history) <= HistoryLimit)'
<1>1. PICK R : R = [id : Requests, status : Final]
  OBVIOUS
<1>2. Entries(order, v) \in Seq(R)
  <2>1. PICK n \in Nat : DOMAIN order = 1..n /\ \A i \in 1..n : order[i] \in Requests
    OBVIOUS
  <2>2. Entries(order, v) \in [1..n -> R]
    BY <1>1, <2>1 DEF Entries
  <2> QED BY <2>2, SeqDef
<1>3. history \o Entries(order, v) \in Seq(R)
  BY <1>1, <1>2, ConcatProperties DEF QueueRest
<1> QED BY <1>1, <1>3, KeepIsBounded DEF FinishAll

LEMMA QueueRestStep ==
    ASSUME QueueRest, waiters \subseteq Requests, timers \subseteq Requests, [QueueNext]_queueVars
    PROVE  QueueRest'
<1>1. ASSUME NEW q \in Requests, Request(q) PROVE QueueRest'
  <2>1. arrivals' = Append(arrivals, q) /\ UNCHANGED <<history, reply>>
    BY <1>1 DEF Request
  <2> QED BY <2>1, AppendProperties DEF QueueRest
<1>2. ASSUME NEW q \in Requests, <<q>> \in Seq(Requests)
      PROVE  (Expire(q) => QueueRest') /\ \A approved \in BOOLEAN : Decide(q, approved) => QueueRest'
  <2>1. Expire(q) => FinishAll({q}, <<q>>, "expired") /\ "expired" \in Final /\ UNCHANGED reply
    BY DEF Expire, Final
  <2>2. Expire(q) => QueueRest'
    BY <1>2, <2>1, HistoryKeeps DEF QueueRest
  <2>3. ASSUME NEW approved \in BOOLEAN, Decide(q, approved) PROVE QueueRest'
    <3>1. PICK v \in Final : FinishAll({q}, <<q>>, v)
      BY <2>3 DEF Decide, Final
    <3>2. reply' \in [request : Requests \cup {"none"}, code : Replies]
      BY <2>3 DEF Decide, Replies
    <3> QED BY <1>2, <3>1, <3>2, HistoryKeeps DEF QueueRest
  <2> QED BY <2>2, <2>3
<1>3. ASSUME NEW q \in Requests, DecideRefused(q) PROVE QueueRest'
  <2>1. reply' \in [request : Requests \cup {"none"}, code : Replies] /\ UNCHANGED <<arrivals, history>>
    BY <1>3 DEF DecideRefused, Replies
  <2> QED BY <2>1 DEF QueueRest
<1>4. ASSUME NEW r \in Runs, CancelRun(r) PROVE QueueRest'
  <2>1. PICK order : FinishAll(PendingOf(r), order, "cancelled") /\ order = InOrder(arrivals, PendingOf(r))
    BY <1>4 DEF CancelRun
  <2>2. order \in Seq(Requests) /\ "cancelled" \in Final /\ UNCHANGED reply
    BY <1>4, <2>1, InOrderIsOf DEF QueueRest, Final, CancelRun
  <2> QED BY <2>1, <2>2, HistoryKeeps DEF QueueRest
<1>5. CASE UNCHANGED queueVars
  BY <1>5 DEF queueVars, QueueRest
<1>6. \A q \in Requests : <<q>> \in Seq(Requests)
  OBVIOUS
<1> QED BY <1>1, <1>2, <1>3, <1>4, <1>5, <1>6 DEF QueueNext

\* The variables of the queue keep their types and the history its bound, for
\* any requests, runs and limit (approval-queue.ts: finish, cancelRun).
THEOREM QueueTypes == QueueSpec => []QueueTypeOK
<1>1. QueueInit => QueueRest
  <2> SUFFICES ASSUME QueueInit PROVE QueueRest
    OBVIOUS
  <2>1. arrivals = <<>> /\ history = <<>> /\ reply = [request |-> "none", code |-> "none"]
    BY DEF QueueInit
  <2>2. Len(history) = 0 /\ HistoryLimit \in Nat
    BY <2>1, QueueAssumption
  <2> QED BY <2>1, <2>2 DEF QueueRest, Replies
<1>2. QueueInv /\ QueueRest /\ [QueueNext]_queueVars => QueueRest'
  BY QueueRestStep DEF QueueInv, TimerHasWaiter
<1>3. QueueInv /\ QueueRest => QueueTypeOK
  BY DEF QueueInv, QueueRest, QueueTypeOK, TimerHasWaiter
<1> QED BY <1>1, <1>2, <1>3, QueueInvariant, PTL DEF QueueSpec

\* The queue implements the safety part of the one-shot promise.
THEOREM QueueRefinesPromise == QueueSpec => Promise!Spec
<1>1. QueueInit => Promise!Init
  BY DEF QueueInit, Promise!Init, Verdict
<1>2. QueueInv /\ [QueueNext]_queueVars => [Promise!Next]_Verdict
  BY QueueStep
<1> QED BY <1>1, <1>2, QueueInvariant, PTL DEF QueueSpec, Promise!Spec

-----------------------------------------------------------------------------
(* The execution core *)

\* There is a longest plan.
LEMMA MaxStepsNat == MaxSteps \in Nat \ {0}
BY RunAssumption

\* A request names its run and its step, and nothing else.
LEMMA AskTyped ==
    ASSUME NEW r \in Runs, NEW k \in 1..MaxSteps
    PROVE  Ask(r, k) \in Requests /\ RunOf[Ask(r, k)] = r
BY RunAssumption DEF Ask

LEMMA AskUnique ==
    ASSUME NEW r \in Runs, NEW s \in Runs, NEW j \in 1..MaxSteps, NEW k \in 1..MaxSteps,
           Ask(r, j) = Ask(s, k)
    PROVE  r = s /\ j = k
BY DEF Ask

LEMMA AskOnto ==
    ASSUME NEW q \in Requests
    PROVE  \E r \in Runs, k \in 1..MaxSteps : q = Ask(r, k)
BY RunAssumption DEF Ask

\* Plans are short enough for every step to have a request.
LEMMA PlanSteps ==
    ASSUME NEW p \in Plans
    PROVE  /\ Len(p) \in Nat
           /\ 1..Len(p) \subseteq 1..MaxSteps
           /\ \A k \in 1..Len(p) : p[k] \in Kinds
           /\ 1 \in 1..Len(p)
BY RunAssumption


\* A turn that enters step k of plan p, untouched so far.
LEMMA BeginStepKeeps ==
    ASSUME Inductive,
           NEW r \in Runs, NEW p \in Plans, NEW k \in 1..Len(p),
           pc[r] \in {"planning", "held", "tool"}, ~aborted[r],
           step[r] <= k, calls[Ask(r, k)] = 0,
           \A j \in 1..MaxSteps : calls[Ask(r, j)] > 0 => p = plan[r],
           plan' = [plan EXCEPT ![r] = p],
           UNCHANGED <<paused, aborted, resumeAt>>,
           BeginStep(r, k, p)
    PROVE  Inductive'
<1> DEFINE q == Ask(r, k)
           Elsewhere(s, j) == s # r \/ j # k
<1>1. k \in 1..MaxSteps /\ p[k] \in Kinds /\ q \in Requests /\ 1..Len(p) \subseteq 1..MaxSteps
  BY AskTyped, PlanSteps
<1>2. \A s \in Runs, j \in 1..MaxSteps :
        Ask(s, j) \in Requests /\ (Elsewhere(s, j) => Ask(s, j) # q)
  BY <1>1, AskTyped, AskUnique
<1>3. step' = [step EXCEPT ![r] = k]
  BY DEF BeginStep
<1>4. ASSUME NEW v \in Verdicts,
             \/ verdict' = [verdict EXCEPT ![q] = v]
             \/ v = verdict[q] /\ UNCHANGED verdict
      PROVE  /\ verdict' \in [Requests -> Verdicts] /\ verdict'[q] = v
             /\ \A s \in Runs, j \in 1..MaxSteps :
                  Elsewhere(s, j) => verdict'[Ask(s, j)] = verdict[Ask(s, j)]
  BY <1>1, <1>2, <1>4 DEF Inductive, TypeOK
<1>5. ASSUME calls' = [calls EXCEPT ![q] = @ + 1]
      PROVE  /\ calls' \in [Requests -> Nat] /\ calls'[q] = 1
             /\ \A s \in Runs, j \in 1..MaxSteps :
                  Elsewhere(s, j) => calls'[Ask(s, j)] = calls[Ask(s, j)]
  BY <1>1, <1>2, <1>5 DEF Inductive, TypeOK
<1>6. CASE Calls(r, k) /\ UNCHANGED queueVars /\ p[k] # "approval"
           /\ \/ p[k] = "read" /\ UNCHANGED verdict
              \/ verdict' = [verdict EXCEPT ![q] = "allowed"]
  <2>1. PICK v \in Verdicts :
           /\ \/ verdict' = [verdict EXCEPT ![q] = v]
              \/ v = verdict[q] /\ UNCHANGED verdict
           /\ p[k] # "read" => v = "allowed"
    BY <1>1, <1>6 DEF Inductive, TypeOK, Verdicts
  <2>2. CASE /\ pc' = [pc EXCEPT ![r] = "tool"] /\ calls' = [calls EXCEPT ![q] = @ + 1]
             /\ Shows(r, "running") /\ UNCHANGED runners
    <3>1. TypeOK'
      BY <1>1, <1>3, <1>4, <1>5, <1>6, <2>1, <2>2
         DEF Inductive, TypeOK, Shows, queueVars, PCs, Waits, Statuses
    <3>2. timers' = waiters' /\ ApprovalHasRun' /\ Controllable' /\ StepInPlan'
      BY <1>1, <1>3, <1>6, <2>2 DEF Inductive, TypeOK, queueVars, ApprovalHasRun, Controllable,
         StepInPlan, PCs, Waits
    <3>3. CallsInOrder'
      BY <1>1, <1>2, <1>3, <1>4, <1>5, <1>6, <2>1, <2>2
         DEF Inductive, TypeOK, queueVars, CallsInOrder, RunInOrder, NotYetCalled, StepInPlan
    <3>4. Authorized'
      BY <1>1, <1>2, <1>3, <1>4, <1>5, <1>6, <2>1, <2>2 DEF Inductive, TypeOK, queueVars, Authorized
    <3>5. CalledOnce'
      BY <1>1, <1>2, <1>5, <2>2 DEF Inductive, CalledOnce
    <3> QED BY <3>1, <3>2, <3>3, <3>4, <3>5 DEF Inductive
  <2>3. CASE Throws(r, "running") /\ UNCHANGED calls
    <3>1. TypeOK'
      BY <1>1, <1>3, <1>4, <1>6, <2>1, <2>3
         DEF Inductive, TypeOK, Throws, Finish, Shows, queueVars, PCs, Statuses
    <3>2. timers' = waiters' /\ ApprovalHasRun' /\ Controllable' /\ StepInPlan'
      BY <1>1, <1>3, <1>6, <2>3 DEF Inductive, TypeOK, queueVars, ApprovalHasRun, Controllable,
         StepInPlan, Throws, Finish, PCs, Waits
    <3>3. CallsInOrder'
      BY <1>1, <1>2, <1>3, <1>4, <1>6, <2>1, <2>3
         DEF Inductive, TypeOK, queueVars, CallsInOrder, RunInOrder, NotYetCalled, StepInPlan, Throws, Finish
    <3>4. Authorized'
      BY <1>1, <1>2, <1>3, <1>4, <1>6, <2>1, <2>3 DEF Inductive, TypeOK, queueVars, Authorized
    <3>5. CalledOnce'
      BY <2>3 DEF Inductive, CalledOnce
    <3> QED BY <3>1, <3>2, <3>3, <3>4, <3>5 DEF Inductive
  <2> QED BY <1>6, <2>2, <2>3 DEF Calls
<1>7. CASE p[k] = "approval" /\ AsksFounder(r, k) /\ verdict' = [verdict EXCEPT ![q] = "allowed"]
  <2>1. /\ waiters' = waiters \cup {q} /\ timers' = timers \cup {q} /\ UNCHANGED outcome
        /\ pc' = [pc EXCEPT ![r] = "approval"] /\ UNCHANGED <<calls, runners>>
        /\ Shows(r, "waiting_approval")
        /\ verdict' = [verdict EXCEPT ![q] = "allowed"] /\ "allowed" \in Verdicts
    BY <1>7 DEF AsksFounder, Request, Verdicts
  <2>2. TypeOK'
    BY <1>1, <1>3, <1>4, <2>1 DEF Inductive, TypeOK, Shows, PCs, Waits, Statuses
  <2>3. timers' = waiters'
    BY <2>1 DEF Inductive
  <2>4. ApprovalHasRun'
    BY <1>1, <1>2, <1>3, <2>1 DEF Inductive, TypeOK, ApprovalHasRun
  <2>5. Controllable' /\ StepInPlan'
    BY <1>1, <1>3, <2>1 DEF Inductive, TypeOK, Controllable, StepInPlan, PCs, Waits
  <2>6. CallsInOrder'
    BY <1>1, <1>2, <1>3, <1>4, <2>1
       DEF Inductive, TypeOK, CallsInOrder, RunInOrder, NotYetCalled, StepInPlan
  <2>7. Authorized' /\ CalledOnce'
    BY <1>1, <1>2, <1>3, <1>4, <2>1 DEF Inductive, TypeOK, Authorized, CalledOnce
  <2> QED BY <2>2, <2>3, <2>4, <2>5, <2>6, <2>7 DEF Inductive
<1>8. ASSUME Blocks(r), UNCHANGED <<calls, queueVars>>,
             NEW v \in {"denied", "unconfirmed"},
             verdict' = [verdict EXCEPT ![q] = v]
      PROVE  Inductive'
  <2>1. v \in Verdicts
    BY DEF Verdicts
  <2>2. TypeOK'
    BY <1>1, <1>3, <1>4, <1>8, <2>1
       DEF Inductive, TypeOK, Blocks, Finish, Shows, queueVars, PCs, Statuses
  <2>3. timers' = waiters' /\ ApprovalHasRun' /\ Controllable' /\ StepInPlan'
    BY <1>1, <1>3, <1>8 DEF Inductive, TypeOK, queueVars, ApprovalHasRun, Controllable,
       StepInPlan, Blocks, Finish, PCs, Waits
  <2>4. CallsInOrder'
    BY <1>1, <1>2, <1>3, <1>4, <1>8, <2>1
       DEF Inductive, TypeOK, queueVars, CallsInOrder, RunInOrder, NotYetCalled, StepInPlan, Blocks, Finish
  <2>5. Authorized' /\ CalledOnce'
    BY <1>1, <1>2, <1>3, <1>4, <1>8, <2>1 DEF Inductive, TypeOK, queueVars, Authorized, CalledOnce
  <2> QED BY <2>2, <2>3, <2>4, <2>5 DEF Inductive
<1> QED BY <1>1, <1>6, <1>7, <1>8 DEF BeginStep

\* A turn that ends the executor outside an approval: settled requests, calls
\* and verdicts stay what they were.
LEMMA FinishKeeps ==
    ASSUME Inductive,
           NEW r \in Runs, NEW st \in Statuses,
           pc[r] \in {"planning", "held", "tool"},
           Finish(r, st),
           \/ UNCHANGED plan
           \/ pc[r] = "planning" /\ \E p \in Plans : plan' = [plan EXCEPT ![r] = p],
           UNCHANGED <<paused, aborted, resumeAt, step, verdict, calls, queueVars>>
    PROVE  Inductive'
<1>1. TypeOK'
  BY DEF Inductive, TypeOK, Finish, Shows, queueVars, PCs
<1>2. timers' = waiters' /\ ApprovalHasRun' /\ Controllable' /\ StepInPlan'
  BY DEF Inductive, TypeOK, queueVars, ApprovalHasRun, Controllable, StepInPlan, Finish, PCs, Waits
<1>3. CallsInOrder' /\ CalledOnce'
  BY DEF Inductive, TypeOK, queueVars, CallsInOrder, RunInOrder, CalledOnce, NotYetCalled, Finish
<1>4. Authorized'
  <2>1. CASE UNCHANGED plan
    BY <2>1 DEF Inductive, queueVars, Authorized
  <2>2. CASE pc[r] = "planning" /\ \E p \in Plans : plan' = [plan EXCEPT ![r] = p]
    <3>1. \A k \in 1..MaxSteps : calls[Ask(r, k)] = 0
      <4>1. step[r] = 0
        BY <2>2 DEF Inductive, StepInPlan
      <4>2. \A k \in 1..MaxSteps : k > 0
        BY MaxStepsNat
      <4> QED BY <4>1, <4>2 DEF Inductive, CallsInOrder, RunInOrder
    <3> QED BY <2>2, <3>1 DEF Inductive, TypeOK, queueVars, Authorized
  <2> QED BY <2>1, <2>2
<1> QED BY <1>1, <1>2, <1>3, <1>4 DEF Inductive

\* The catch block, whatever the status was.
LEMMA ThrowsKeeps ==
    ASSUME Inductive,
           NEW r \in Runs, NEW st \in Statuses,
           pc[r] \in {"planning", "held", "tool"},
           Throws(r, st),
           UNCHANGED <<plan, paused, aborted, resumeAt, step, verdict, calls, queueVars>>
    PROVE  Inductive'
BY FinishKeeps DEF Throws, Statuses

LEMMA EndStepKeeps ==
    ASSUME Inductive,
           NEW r \in Runs, pc[r] \in {"held", "tool"}, ~aborted[r],
           EndStep(r),
           UNCHANGED <<plan, paused, aborted, resumeAt>>
    PROVE  Inductive'
<1>1. status[r] \in Statuses /\ plan[r] \in Plans /\ step[r] \in 1..Len(plan[r])
  BY DEF Inductive, TypeOK, StepInPlan
<1>2. CASE Throws(r, status[r]) /\ UNCHANGED <<step, verdict, calls, queueVars>>
  BY <1>1, <1>2, ThrowsKeeps
<1>3. CASE step[r] < Len(plan[r]) /\ BeginStep(r, step[r] + 1, plan[r])
  <2>1. step[r] + 1 \in 1..Len(plan[r]) /\ step[r] <= step[r] + 1 /\ step[r] + 1 \in 1..MaxSteps
    BY <1>1, <1>3, PlanSteps
  <2>2. calls[Ask(r, step[r] + 1)] = 0 /\ plan' = [plan EXCEPT ![r] = plan[r]]
    BY <1>1, <2>1 DEF Inductive, CallsInOrder, RunInOrder, TypeOK
  <2> QED BY <1>1, <1>3, <2>1, <2>2, BeginStepKeeps
<1>4. CASE Finish(r, "completed") /\ UNCHANGED <<step, verdict, calls, queueVars>>
  BY <1>4, FinishKeeps DEF Statuses
<1> QED BY <1>2, <1>3, <1>4 DEF EndStep

\* The held run goes on from the checkpoint that held it.
LEMMA PollKeeps ==
    ASSUME Inductive, NEW r \in Runs, Poll(r)
    PROVE  Inductive'
<1>1. /\ status[r] \in Statuses /\ plan[r] \in Plans
      /\ step[r] \in 1..Len(plan[r]) /\ step[r] \in 1..MaxSteps /\ pc[r] = "held"
      /\ UNCHANGED <<paused, aborted, resumeAt, plan>>
  BY PlanSteps DEF Poll, Inductive, TypeOK, StepInPlan
<1>2. CASE Throws(r, status[r]) /\ UNCHANGED <<step, verdict, calls, queueVars>>
  BY <1>1, <1>2, ThrowsKeeps
<1>3. CASE ~aborted[r] /\ resumeAt[r] = "begin" /\ BeginStep(r, step[r], plan[r])
  <2>1. calls[Ask(r, step[r])] = 0 /\ plan' = [plan EXCEPT ![r] = plan[r]] /\ step[r] <= step[r]
    BY <1>1, <1>3 DEF Inductive, CallsInOrder, RunInOrder, NotYetCalled, TypeOK
  <2> QED BY <1>1, <1>3, <2>1, BeginStepKeeps
<1>4. CASE resumeAt[r] = "call" /\ Calls(r, step[r]) /\ UNCHANGED <<step, verdict, queueVars>>
  <2> DEFINE q == Ask(r, step[r])
  <2>1. q \in Requests /\ calls[q] = 0 /\ verdict[q] = "allowed" /\ outcome[q] = "approved"
    BY <1>1, <1>4, AskTyped DEF Inductive, CallsInOrder, RunInOrder, NotYetCalled
  <2>2. CASE Throws(r, "running") /\ UNCHANGED calls
    BY <1>1, <1>4, <2>2, ThrowsKeeps DEF Statuses
  <2>3. CASE /\ pc' = [pc EXCEPT ![r] = "tool"] /\ calls' = [calls EXCEPT ![q] = @ + 1]
             /\ Shows(r, "running") /\ UNCHANGED runners
    <3>1. \A s \in Runs, j \in 1..MaxSteps :
            Ask(s, j) \in Requests /\ (s # r \/ j # step[r] => calls'[Ask(s, j)] = calls[Ask(s, j)])
      BY <1>1, <2>3, AskTyped, AskUnique DEF Inductive, TypeOK
    <3>2. calls'[q] = 1
      BY <2>1, <2>3 DEF Inductive, TypeOK
    <3>3. TypeOK'
      BY <1>1, <1>4, <2>1, <2>3 DEF Inductive, TypeOK, Shows, queueVars, PCs, Waits, Statuses
    <3>4. timers' = waiters' /\ ApprovalHasRun' /\ Controllable' /\ StepInPlan'
      BY <1>1, <1>4, <2>3 DEF Inductive, TypeOK, queueVars, ApprovalHasRun, Controllable,
         StepInPlan, PCs, Waits
    <3>5. CallsInOrder' /\ CalledOnce'
      BY <1>1, <1>4, <2>3, <3>1, <3>2
         DEF Inductive, TypeOK, queueVars, CallsInOrder, RunInOrder, NotYetCalled, StepInPlan, CalledOnce
    <3>6. Authorized'
      BY <1>1, <1>4, <2>1, <3>1 DEF Inductive, queueVars, Authorized
    <3> QED BY <3>3, <3>4, <3>5, <3>6 DEF Inductive
  <2> QED BY <1>4, <2>2, <2>3 DEF Calls
<1>5. CASE /\ resumeAt[r] = "progress" /\ pc' = [pc EXCEPT ![r] = "tool"]
           /\ UNCHANGED <<status, step, verdict, calls, runners, row, queueVars>>
  <2>1. TypeOK' /\ timers' = waiters' /\ ApprovalHasRun' /\ Controllable' /\ StepInPlan'
    BY <1>1, <1>5 DEF Inductive, TypeOK, queueVars, ApprovalHasRun, Controllable,
       StepInPlan, PCs, Waits
  <2>2. CallsInOrder' /\ CalledOnce' /\ Authorized'
    BY <1>1, <1>5 DEF Inductive, TypeOK, queueVars, CallsInOrder, RunInOrder, NotYetCalled, CalledOnce, Authorized
  <2> QED BY <2>1, <2>2 DEF Inductive
<1>6. CASE ~aborted[r] /\ EndStep(r)
  BY <1>1, <1>6, EndStepKeeps
<1> QED BY <1>1, <1>2, <1>3, <1>4, <1>5, <1>6 DEF Poll, Proceeds

\* A report of the tool passes a checkpoint: it ends, holds or continues.
LEMMA ToolReportsKeeps ==
    ASSUME Inductive, NEW r \in Runs,
           NEW at \in {"progress", "finishedOk", "finishedBad"}, ToolReports(r, at)
    PROVE  Inductive'
<1>1. /\ status[r] \in Statuses /\ plan[r] \in Plans
      /\ step[r] \in 1..Len(plan[r]) /\ step[r] \in 1..MaxSteps /\ pc[r] = "tool"
      /\ UNCHANGED <<paused, aborted, plan>>
  BY PlanSteps DEF ToolReports, Inductive, TypeOK, StepInPlan
<1>2. CASE Throws(r, status[r]) /\ UNCHANGED <<resumeAt, step, verdict, calls, queueVars>>
  BY <1>1, <1>2, ThrowsKeeps
<1>3. CASE Holds(r, at, status[r]) /\ UNCHANGED <<step, queueVars>>
  <2>1. TypeOK' /\ timers' = waiters' /\ ApprovalHasRun' /\ Controllable' /\ StepInPlan'
    BY <1>1, <1>3 DEF Holds, Inductive, TypeOK, queueVars, ApprovalHasRun, Controllable,
       StepInPlan, PCs, Waits, Checkpoints
  <2>2. CallsInOrder' /\ CalledOnce' /\ Authorized'
    BY <1>1, <1>3 DEF Holds, Inductive, TypeOK, queueVars, CallsInOrder, RunInOrder, NotYetCalled,
       CalledOnce, Authorized
  <2> QED BY <2>1, <2>2 DEF Inductive
<1>4. CASE ~aborted[r] /\ Proceeds(r, at) /\ UNCHANGED resumeAt
  <2>1. CASE EndStep(r)
    BY <1>1, <1>4, <2>1, EndStepKeeps
  <2>2. CASE Throws(r, status[r]) /\ UNCHANGED <<step, verdict, calls, queueVars>>
    BY <1>1, <1>4, <2>2, ThrowsKeeps
  <2>3. CASE /\ pc' = [pc EXCEPT ![r] = "tool"]
             /\ UNCHANGED <<status, step, verdict, calls, runners, row, queueVars>>
    <3>1. TypeOK' /\ timers' = waiters' /\ ApprovalHasRun' /\ Controllable' /\ StepInPlan'
      BY <1>1, <1>4, <2>3 DEF Inductive, TypeOK, queueVars, ApprovalHasRun, Controllable,
         StepInPlan, PCs, Waits
    <3>2. CallsInOrder' /\ CalledOnce' /\ Authorized'
      BY <1>1, <1>4, <2>3 DEF Inductive, TypeOK, queueVars, CallsInOrder, RunInOrder, NotYetCalled,
         CalledOnce, Authorized
    <3> QED BY <3>1, <3>2 DEF Inductive
  <2> QED BY <1>4, <2>1, <2>2, <2>3 DEF Proceeds
<1> QED BY <1>2, <1>3, <1>4 DEF ToolReports

\* The plan arrives: the run begins, is held before its first step, or was
\* cancelled while it planned.
LEMMA PlanReadyKeeps ==
    ASSUME Inductive, NEW r \in Runs, PlanReady(r)
    PROVE  Inductive'
<1>1. PICK p \in Plans :
        /\ plan' = [plan EXCEPT ![r] = p]
        /\ \/ aborted[r] /\ Finish(r, "running")
              /\ UNCHANGED <<resumeAt, step, verdict, calls, queueVars>>
           \/ /\ ~aborted[r] /\ paused[r] /\ Shows(r, "running")
              /\ pc' = [pc EXCEPT ![r] = "held"]
              /\ resumeAt' = [resumeAt EXCEPT ![r] = "begin"]
              /\ step' = [step EXCEPT ![r] = 1]
              /\ UNCHANGED <<verdict, calls, runners, queueVars>>
           \/ ~aborted[r] /\ BeginStep(r, 1, p) /\ UNCHANGED resumeAt
  BY DEF PlanReady
<1>2. pc[r] = "planning" /\ step[r] = 0 /\ UNCHANGED <<paused, aborted>>
  BY DEF PlanReady, Inductive, StepInPlan
<1>3. 1 \in 1..Len(p) /\ 1 \in 1..MaxSteps /\ Len(p) \in Nat
  BY PlanSteps
<1>4. \A j \in 1..MaxSteps : calls[Ask(r, j)] = 0
  <2>1. \A j \in 1..MaxSteps : j > step[r]
    BY <1>2, MaxStepsNat
  <2> QED BY <2>1 DEF Inductive, CallsInOrder, RunInOrder
<1>5. CASE Finish(r, "running") /\ UNCHANGED <<resumeAt, step, verdict, calls, queueVars>>
  BY <1>1, <1>2, <1>5, FinishKeeps DEF Statuses
<1>6. CASE /\ Shows(r, "running")
           /\ pc' = [pc EXCEPT ![r] = "held"]
           /\ resumeAt' = [resumeAt EXCEPT ![r] = "begin"]
           /\ step' = [step EXCEPT ![r] = 1]
           /\ UNCHANGED <<verdict, calls, runners, queueVars>>
  <2>1. TypeOK'
    BY <1>1, <1>2, <1>3, <1>6 DEF Inductive, TypeOK, Shows, queueVars, PCs, Waits, Statuses, Checkpoints
  <2>2. timers' = waiters' /\ ApprovalHasRun' /\ Controllable' /\ StepInPlan'
    BY <1>1, <1>2, <1>3, <1>6 DEF Inductive, TypeOK, queueVars, ApprovalHasRun, Controllable,
       StepInPlan, PCs, Waits
  <2>3. CallsInOrder' /\ CalledOnce'
    BY <1>2, <1>3, <1>4, <1>6 DEF Inductive, TypeOK, queueVars, CallsInOrder, RunInOrder, NotYetCalled, CalledOnce
  <2>4. Authorized'
    BY <1>1, <1>4, <1>6 DEF Inductive, TypeOK, queueVars, Authorized
  <2> QED BY <2>1, <2>2, <2>3, <2>4 DEF Inductive
<1>7. CASE ~aborted[r] /\ BeginStep(r, 1, p) /\ UNCHANGED resumeAt
  <2>1. /\ pc[r] \in {"planning", "held", "tool"} /\ step[r] <= 1 /\ calls[Ask(r, 1)] = 0
        /\ \A j \in 1..MaxSteps : calls[Ask(r, j)] > 0 => p = plan[r]
    BY <1>2, <1>3, <1>4
  <2> QED BY <1>1, <1>2, <1>3, <1>7, <2>1, BeginStepKeeps
<1> QED BY <1>1, <1>5, <1>6, <1>7

\* A request that is rejected or expires, or all of a run that is cancelled:
\* the run blocks.
LEMMA SettleBlocks ==
    ASSUME Inductive, NEW r \in Runs, pc[r] = "approval", Blocks(r),
           NEW v \in Final,
           waiters' = waiters \ {Ask(r, step[r])}, timers' = timers \ {Ask(r, step[r])},
           outcome' = [q \in Requests |-> IF q \in {Ask(r, step[r])} THEN v ELSE outcome[q]],
           paused' \in [Runs -> BOOLEAN], aborted' \in [Runs -> BOOLEAN],
           \A s \in Runs : s # r => aborted'[s] = aborted[s],
           UNCHANGED <<resumeAt, step, plan, verdict, calls>>
    PROVE  Inductive'
<1> DEFINE q == Ask(r, step[r])
<1>1. step[r] \in 1..MaxSteps /\ q \in Requests /\ q \in waiters /\ calls[q] = 0
  <2>1. step[r] \in 1..MaxSteps
    BY PlanSteps DEF Inductive, StepInPlan
  <2> QED BY <2>1, AskTyped DEF Inductive, ApprovalHasRun, CallsInOrder, RunInOrder, NotYetCalled
<1>2. \A s \in Runs, j \in 1..MaxSteps :
        Ask(s, j) \in Requests /\ (s # r \/ j # step[r] => Ask(s, j) # q)
  BY <1>1, AskTyped, AskUnique
<1>3. TypeOK'
  BY <1>1 DEF Inductive, TypeOK, Blocks, Finish, Shows, PCs, Statuses
<1>4. timers' = waiters' /\ Controllable' /\ StepInPlan'
  BY DEF Inductive, TypeOK, Controllable, StepInPlan, Blocks, Finish, Waits, PCs
<1>5. ApprovalHasRun'
  BY <1>1, <1>2 DEF Inductive, TypeOK, ApprovalHasRun, Blocks, Finish
<1>6. \A s \in Runs, j \in 1..MaxSteps :
        s # r \/ j # step[r] => outcome'[Ask(s, j)] = outcome[Ask(s, j)]
  BY <1>2
<1>7. CallsInOrder' /\ CalledOnce'
  <2>1. \A s \in Runs : pc[s] = "held" => step[s] \in 1..MaxSteps
    BY PlanSteps DEF Inductive, StepInPlan
  <2>2. \A s \in Runs : pc'[s] = IF s = r THEN "ended" ELSE pc[s]
    BY DEF Inductive, TypeOK, Blocks, Finish
  <2>3. ASSUME NEW s \in Runs, s # r PROVE RunInOrder(s)'
    BY <1>6, <2>1, <2>2, <2>3 DEF Inductive, CallsInOrder, RunInOrder, NotYetCalled
  <2>4. RunInOrder(r)'
    BY <2>2 DEF Inductive, CallsInOrder, RunInOrder
  <2> QED BY <2>3, <2>4 DEF Inductive, CallsInOrder, CalledOnce
<1>8. Authorized'
  BY <1>1, <1>6 DEF Inductive, Authorized
<1> QED BY <1>3, <1>4, <1>5, <1>7, <1>8 DEF Inductive

\* The Founder's yes: the tool is called, refused, or held by a pause.
LEMMA ApproveKeeps ==
    ASSUME Inductive, NEW r \in Runs, Approve(r)
    PROVE  Inductive'
<1> DEFINE q == Ask(r, step[r])
<1>1. /\ step[r] \in 1..MaxSteps /\ step[r] \in 1..Len(plan[r]) /\ plan[r] \in Plans
      /\ q \in Requests /\ q \in waiters /\ pc[r] = "approval" /\ ~aborted[r]
      /\ calls[q] = 0 /\ verdict[q] = "allowed"
  <2>1. /\ step[r] \in 1..MaxSteps /\ step[r] \in 1..Len(plan[r]) /\ plan[r] \in Plans
        /\ pc[r] = "approval"
    BY PlanSteps DEF Approve, Inductive, StepInPlan
  <2> QED BY <2>1, AskTyped DEF Inductive, ApprovalHasRun, CallsInOrder, RunInOrder, NotYetCalled
<1>2. \A s \in Runs, j \in 1..MaxSteps :
        Ask(s, j) \in Requests /\ (s # r \/ j # step[r] => Ask(s, j) # q)
  BY <1>1, AskTyped, AskUnique
<1>3. /\ waiters' = waiters \ {q} /\ timers' = timers \ {q}
      /\ outcome' = [x \in Requests |-> IF x \in {q} THEN "approved" ELSE outcome[x]]
      /\ UNCHANGED <<paused, aborted, step, plan>>
  BY DEF Approve, Decide, FinishAll
<1>4. /\ outcome'[q] = "approved" /\ outcome' \in [Requests -> Final \cup {"none"}]
      /\ \A s \in Runs, j \in 1..MaxSteps :
           s # r \/ j # step[r] => outcome'[Ask(s, j)] = outcome[Ask(s, j)]
  BY <1>1, <1>2, <1>3 DEF Inductive, TypeOK, Final
<1>5. \A s \in Runs : pc[s] \in {"held", "approval"} => step[s] \in 1..MaxSteps
  BY PlanSteps DEF Inductive, StepInPlan
<1>6. CASE Holds(r, "call", "running")
  <2>1. TypeOK'
    BY <1>1, <1>3, <1>4, <1>6
       DEF Holds, Inductive, TypeOK, Statuses, PCs, Waits, Checkpoints
  <2>2. timers' = waiters' /\ Controllable' /\ StepInPlan'
    BY <1>1, <1>3, <1>6 DEF Holds, Inductive, TypeOK, Controllable, StepInPlan, PCs, Waits
  <2>3. ApprovalHasRun'
    BY <1>1, <1>2, <1>3, <1>6 DEF Holds, Inductive, TypeOK, ApprovalHasRun
  <2>4. CallsInOrder' /\ CalledOnce'
    BY <1>1, <1>3, <1>4, <1>5, <1>6
       DEF Holds, Inductive, TypeOK, CallsInOrder, RunInOrder, NotYetCalled, CalledOnce
  <2>5. Authorized'
    BY <1>1, <1>3, <1>4, <1>6 DEF Holds, Inductive, Authorized
  <2> QED BY <2>1, <2>2, <2>3, <2>4, <2>5 DEF Inductive
<1>7. CASE /\ pc' = [pc EXCEPT ![r] = "tool"] /\ calls' = [calls EXCEPT ![q] = @ + 1]
           /\ Shows(r, "running") /\ UNCHANGED <<runners, resumeAt, verdict>>
  <2>1. /\ calls' \in [Requests -> Nat] /\ calls'[q] = 1
        /\ \A s \in Runs, j \in 1..MaxSteps :
             s # r \/ j # step[r] => calls'[Ask(s, j)] = calls[Ask(s, j)]
    BY <1>1, <1>2, <1>7 DEF Inductive, TypeOK
  <2>2. TypeOK'
    BY <1>1, <1>3, <1>4, <1>7, <2>1 DEF Inductive, TypeOK, Shows, Statuses, PCs, Waits
  <2>3. timers' = waiters' /\ Controllable' /\ StepInPlan'
    BY <1>1, <1>3, <1>7 DEF Inductive, TypeOK, Controllable, StepInPlan, PCs, Waits
  <2>4. ApprovalHasRun'
    BY <1>1, <1>2, <1>3, <1>7 DEF Inductive, TypeOK, ApprovalHasRun
  <2>5. CallsInOrder' /\ CalledOnce'
    <3>0. \A s \in Runs : pc'[s] = IF s = r THEN "tool" ELSE pc[s]
      BY <1>7 DEF Inductive, TypeOK
    <3>1. ASSUME NEW s \in Runs, s # r PROVE RunInOrder(s)'
      <4>1. RunInOrder(s)
        BY DEF Inductive, CallsInOrder
      <4> QED BY <1>3, <1>4, <1>5, <1>7, <2>1, <3>0, <3>1, <4>1 DEF RunInOrder, NotYetCalled
    <3>2. RunInOrder(r)'
      <4>1. \A k \in 1..MaxSteps : k > step[r] => calls'[Ask(r, k)] = 0
        BY <1>1, <2>1 DEF Inductive, CallsInOrder, RunInOrder
      <4> QED BY <1>3, <3>0, <4>1 DEF RunInOrder
    <3>3. CalledOnce'
      BY <2>1 DEF Inductive, CalledOnce
    <3> QED BY <3>1, <3>2, <3>3 DEF CallsInOrder
  <2>6. Authorized'
    BY <1>1, <1>3, <1>4, <1>7, <2>1 DEF Inductive, Authorized
  <2> QED BY <2>2, <2>3, <2>4, <2>5, <2>6 DEF Inductive
<1>8. CASE Throws(r, "running") /\ UNCHANGED <<calls, resumeAt, verdict>>
  <2>1. TypeOK'
    BY <1>1, <1>3, <1>4, <1>8 DEF Inductive, TypeOK, Throws, Finish, Shows, Statuses, PCs
  <2>2. timers' = waiters' /\ Controllable' /\ StepInPlan'
    BY <1>1, <1>3, <1>8 DEF Inductive, TypeOK, Controllable, StepInPlan, Throws, Finish, PCs, Waits
  <2>3. ApprovalHasRun'
    BY <1>1, <1>2, <1>3, <1>8 DEF Inductive, TypeOK, ApprovalHasRun, Throws, Finish
  <2>4. CallsInOrder' /\ CalledOnce'
    BY <1>1, <1>3, <1>4, <1>5, <1>8
       DEF Inductive, TypeOK, CallsInOrder, RunInOrder, NotYetCalled, CalledOnce, Throws, Finish
  <2>5. Authorized'
    BY <1>1, <1>3, <1>4, <1>8 DEF Inductive, Authorized
  <2> QED BY <2>1, <2>2, <2>3, <2>4, <2>5 DEF Inductive
<1> QED BY <1>6, <1>7, <1>8 DEF Approve, Calls

\* Pausing, resuming, starting and hearing move no request and no call.
LEMMA ControlKeeps ==
    ASSUME Inductive, NEW r \in Runs,
           Pause(r) \/ Resume(r) \/ StartRun(r) \/ Hear(r)
    PROVE  Inductive'
<1> USE DEF Inductive, TypeOK, ApprovalHasRun, Controllable, StepInPlan, CallsInOrder, RunInOrder,
            Authorized, CalledOnce, NotYetCalled, Shows, queueVars, Waits, PCs, Statuses
<1>1. CASE Pause(r)
  BY <1>1 DEF Pause
<1>2. CASE Resume(r)
  BY <1>2 DEF Resume
<1>3. CASE StartRun(r)
  BY <1>3 DEF StartRun
<1>4. CASE Hear(r)
  BY <1>4 DEF Hear
<1> QED BY <1>1, <1>2, <1>3, <1>4

\* Cancelling settles the request of a waiting run, and only marks another.
LEMMA CancelKeeps ==
    ASSUME Inductive, NEW r \in Runs, Cancel(r)
    PROVE  Inductive'
<1> DEFINE q == Ask(r, step[r])
<1>1. /\ paused' = [paused EXCEPT ![r] = FALSE] /\ aborted' = [aborted EXCEPT ![r] = TRUE]
      /\ UNCHANGED <<resumeAt, step, plan, verdict, calls>>
      /\ waiters' = waiters \ PendingOf(r) /\ timers' = timers \ PendingOf(r)
      /\ outcome' = [x \in Requests |-> IF x \in PendingOf(r) THEN "cancelled" ELSE outcome[x]]
  BY DEF Cancel, CancelRun, FinishAll
<1>2. CASE pc[r] = "approval" /\ Blocks(r)
  <2>1. PendingOf(r) = {q}
    <3>1. step[r] \in 1..MaxSteps
      BY <1>2, PlanSteps DEF Inductive, StepInPlan
    <3>2. q \in PendingOf(r)
      BY <1>2, <3>1, AskTyped DEF Inductive, ApprovalHasRun, PendingOf
    <3>3. ASSUME NEW x \in PendingOf(r) PROVE x = q
      <4>1. PICK s \in Runs, k \in 1..MaxSteps : x = Ask(s, k)
        BY AskOnto DEF PendingOf, Inductive, TypeOK
      <4>2. s = r
        BY <4>1, AskTyped DEF PendingOf
      <4> QED BY <4>1, <4>2 DEF PendingOf, Inductive, ApprovalHasRun
    <3> QED BY <3>2, <3>3
  <2>2. paused' \in [Runs -> BOOLEAN] /\ aborted' \in [Runs -> BOOLEAN]
        /\ \A s \in Runs : s # r => aborted'[s] = aborted[s]
    BY <1>1 DEF Inductive, TypeOK
  <2>3. "cancelled" \in Final
    BY DEF Final
  <2>4. /\ waiters' = waiters \ {q} /\ timers' = timers \ {q}
        /\ outcome' = [x \in Requests |-> IF x \in {q} THEN "cancelled" ELSE outcome[x]]
    BY <1>1, <2>1
  <2> QED BY <1>1, <1>2, <2>2, <2>3, <2>4, SettleBlocks, ZenonT(60)
<1>3. CASE pc[r] # "approval" /\ Shows(r, "cancelled") /\ UNCHANGED <<pc, runners>>
  <2>1. PendingOf(r) = {}
    <3> SUFFICES ASSUME NEW x \in PendingOf(r) PROVE FALSE
      OBVIOUS
    <3>1. PICK s \in Runs, k \in 1..MaxSteps : x = Ask(s, k)
      BY AskOnto DEF PendingOf, Inductive, TypeOK
    <3>2. s = r
      BY <3>1, AskTyped DEF PendingOf
    <3> QED BY <1>3, <3>1, <3>2 DEF PendingOf, Inductive, ApprovalHasRun
  <2>2. UNCHANGED <<waiters, timers, outcome>>
    BY <1>1, <2>1 DEF Inductive, TypeOK
  <2>3. TypeOK' /\ timers' = waiters' /\ ApprovalHasRun' /\ Controllable' /\ StepInPlan'
    BY <1>1, <1>3, <2>2 DEF Inductive, TypeOK, ApprovalHasRun, Controllable, StepInPlan,
       Shows, Statuses
  <2>4. CallsInOrder' /\ CalledOnce' /\ Authorized'
    <3>1. ASSUME NEW s \in Runs PROVE RunInOrder(s)'
      BY <1>1, <1>3, <2>2 DEF Inductive, TypeOK, CallsInOrder, RunInOrder, NotYetCalled
    <3>2. CalledOnce' /\ Authorized'
      BY <1>1, <2>2 DEF Inductive, CalledOnce, Authorized
    <3> QED BY <3>1, <3>2 DEF CallsInOrder
  <2> QED BY <2>3, <2>4 DEF Inductive
<1> QED BY <1>2, <1>3 DEF Cancel

\* A restart drops every waiter and every executor, and no call is forgotten.
LEMMA RestartKeeps ==
    ASSUME Inductive, Restart
    PROVE  Inductive'
<1>1. row' \in [Runs -> Statuses \cup {"absent"}] /\ status' \in [Runs -> Statuses]
  BY DEF Restart, Recovered, Inductive, TypeOK, Statuses
<1>2. TypeOK'
  BY <1>1 DEF Restart, Inductive, TypeOK, PCs, Waits
<1>3. timers' = waiters' /\ ApprovalHasRun' /\ Controllable' /\ StepInPlan'
  BY DEF Restart, Inductive, TypeOK, ApprovalHasRun, Controllable, StepInPlan, Waits, PCs
<1>4. CallsInOrder' /\ CalledOnce' /\ Authorized'
  BY DEF Restart, Inductive, TypeOK, CallsInOrder, RunInOrder, CalledOnce, Authorized, NotYetCalled, Waits
<1> QED BY <1>2, <1>3, <1>4 DEF Inductive

-----------------------------------------------------------------------------
LEMMA InitInductive == Init => Inductive
BY AskTyped, MaxStepsNat
   DEF Init, QueueInit, Inductive, TypeOK, ApprovalHasRun, Controllable, StepInPlan,
       CallsInOrder, RunInOrder, Authorized, CalledOnce, NotYetCalled, Waits, PCs, Statuses,
       Checkpoints, Verdicts, Final

LEMMA NextInductive ==
    ASSUME Inductive, [Next]_vars
    PROVE  Inductive'
<1>1. ASSUME NEW r \in Runs, PlanFails(r) PROVE Inductive'
  BY <1>1, FinishKeeps DEF PlanFails, Blocks, Statuses
<1>2. ASSUME NEW r \in Runs, ToolThrows(r) PROVE Inductive'
  <2>1. status[r] \in Statuses
    BY DEF Inductive, TypeOK
  <2> QED BY <1>2, <2>1, ThrowsKeeps DEF ToolThrows
<1>3. ASSUME NEW r \in Runs, Reject(r) \/ TimeOut(r) PROVE Inductive'
  <2> DEFINE q == Ask(r, step[r])
  <2>1. PICK v \in Final :
          /\ waiters' = waiters \ {q} /\ timers' = timers \ {q}
          /\ outcome' = [x \in Requests |-> IF x \in {q} THEN v ELSE outcome[x]]
    BY <1>3 DEF Reject, TimeOut, Decide, Expire, FinishAll, Final
  <2>2. /\ pc[r] = "approval" /\ Blocks(r)
        /\ UNCHANGED <<paused, aborted, resumeAt, step, plan, verdict, calls>>
    BY <1>3 DEF Reject, TimeOut
  <2>3. paused' \in [Runs -> BOOLEAN] /\ aborted' \in [Runs -> BOOLEAN]
    BY <2>2 DEF Inductive, TypeOK
  <2> QED BY <2>1, <2>2, <2>3, SettleBlocks
<1>4. CASE UNCHANGED vars
  BY <1>4 DEF vars, runVars, queueVars, Inductive, TypeOK, ApprovalHasRun, Controllable,
     StepInPlan, CallsInOrder, RunInOrder, Authorized, CalledOnce, NotYetCalled
<1> QED BY <1>1, <1>2, <1>3, <1>4, PlanReadyKeeps, ToolReportsKeeps, PollKeeps, ApproveKeeps,
        ControlKeeps, CancelKeeps, RestartKeeps DEF Next

\* Every reachable state satisfies the inductive invariant.
THEOREM Invariance == Spec => []Inductive
BY InitInductive, NextInductive, PTL DEF Spec

\* The variables keep their types.
THEOREM TypeCorrect == Spec => []TypeOK
<1>1. Inductive => TypeOK
  BY DEF Inductive
<1> QED BY <1>1, Invariance, PTL

\* No privileged call without its verdict, no sensitive one without the
\* Founder's yes, and none twice.
THEOREM AuthorityFirst == Spec => []CallsPermitted
<1>1. Inductive => CallsPermitted
  BY DEF Inductive, CallsPermitted
<1> QED BY <1>1, Invariance, PTL

\* A run waits for the Founder exactly while its request is in the queue, and
\* a live executor can always be reached through the table of runners.
THEOREM QueueAndRunsAgree == Spec => []TablesAgree
<1>1. Inductive => TablesAgree
  BY DEF Inductive, TablesAgree
<1> QED BY <1>1, Invariance, PTL

\* Who calls a tool: a turn that found its run neither cancelled nor paused.
LEMMA CallStep ==
    ASSUME Inductive, [Next]_vars,
           NEW s \in Runs, NEW j \in 1..MaxSteps, calls'[Ask(s, j)] > calls[Ask(s, j)]
    PROVE  ~aborted[s] /\ ~paused[s]
<1>1. calls[Ask(s, j)] \in Nat /\ calls' # calls
  BY AskTyped DEF Inductive, TypeOK
<1>2. ASSUME NEW r \in Runs, NEW k \in 1..MaxSteps,
             calls' = [calls EXCEPT ![Ask(r, k)] = @ + 1]
      PROVE  r = s
  BY <1>1, <1>2, AskTyped, AskUnique DEF Inductive, TypeOK
<1>3. ASSUME NEW r \in Runs, NEW k \in 1..MaxSteps, Calls(r, k)
      PROVE  r = s
  BY <1>1, <1>2, <1>3 DEF Calls
<1>4. ASSUME NEW r \in Runs, NEW p \in Plans, NEW k \in 1..Len(p), BeginStep(r, k, p)
      PROVE  r = s
  <2>1. k \in 1..MaxSteps
    BY PlanSteps
  <2> QED BY <1>1, <1>3, <1>4, <2>1 DEF BeginStep, AsksFounder
<1>5. \A r \in Runs : pc[r] \in {"held", "approval", "tool"} =>
        /\ plan[r] \in Plans /\ step[r] \in 1..Len(plan[r]) /\ step[r] \in 1..MaxSteps
        /\ step[r] < Len(plan[r]) => step[r] + 1 \in 1..Len(plan[r])
  BY PlanSteps DEF Inductive, StepInPlan
<1>6. ASSUME NEW r \in Runs, NEW at \in Checkpoints, Proceeds(r, at),
             pc[r] \in {"held", "approval", "tool"}
      PROVE  r = s
  BY <1>1, <1>3, <1>4, <1>5, <1>6 DEF Proceeds, EndStep
<1>7. ASSUME NEW r \in Runs, PlanReady(r) PROVE ~aborted[s] /\ ~paused[s]
  <2>1. ~aborted[r] /\ ~paused[r] /\ \E p \in Plans : BeginStep(r, 1, p)
    BY <1>1, <1>7 DEF PlanReady
  <2> QED BY <1>4, <2>1, PlanSteps
<1>8. ASSUME NEW r \in Runs, NEW at \in {"progress", "finishedOk", "finishedBad"}, ToolReports(r, at)
      PROVE  ~aborted[s] /\ ~paused[s]
  BY <1>1, <1>6, <1>8 DEF ToolReports, Holds, Checkpoints
<1>9. ASSUME NEW r \in Runs, Poll(r) PROVE ~aborted[s] /\ ~paused[s]
  BY <1>1, <1>6, <1>9 DEF Poll, Inductive, TypeOK
<1>10. ASSUME NEW r \in Runs, Approve(r) PROVE ~aborted[s] /\ ~paused[s]
  BY <1>1, <1>3, <1>5, <1>10 DEF Approve, Holds, Inductive, CallsInOrder, RunInOrder
<1> QED BY <1>1, <1>7, <1>8, <1>9, <1>10
     DEF Next, vars, runVars, StartRun, Hear, PlanFails, ToolThrows, Reject, TimeOut, Pause,
         Resume, Cancel, Restart

\* Cancelling and pausing stop further calls at once.
THEOREM NoCallWithoutGo == Spec => CallsNeedGo
<1>1. Inductive /\ [Next]_vars =>
        [\A r \in Runs, k \in 1..MaxSteps :
           calls'[Ask(r, k)] > calls[Ask(r, k)] => ~aborted[r] /\ ~paused[r]]_vars
  BY CallStep
<1> QED BY <1>1, Invariance, PTL DEF Spec, CallsNeedGo

-----------------------------------------------------------------------------
(* The runs table.                                                          *)

\* A run that was started has a row, the row of a finished one is its last
\* word, and nothing controls a run whose process died.
RowInv ==
    /\ RowsTellRuns
    /\ \A r \in Runs : pc[r] = "none" <=> row[r] = "absent"
    /\ \A r \in runners : pc[r] \notin {"none", "lost"}

\* What a turn of run r does to the table: it shows a status, or it goes from
\* one wait to another without a word.
RowTurn(r) ==
    \E st \in Statuses, p \in Waits \cup {"ended"} :
      /\ pc' = [pc EXCEPT ![r] = p]
      /\ pc[r] \in Waits \/ r \in runners \/ (pc[r] = "none" /\ p = "scheduled")
      /\ \/ Shows(r, st)
         \/ pc[r] \in Waits /\ p \in Waits /\ status' = [status EXCEPT ![r] = st] /\ UNCHANGED row
      /\ runners' \subseteq runners \cup {r}

LEMMA FinishTurn ==
    ASSUME NEW r, pc[r] \in Waits, NEW st \in Statuses, Throws(r, st) \/ Finish(r, st) \/ Blocks(r)
    PROVE  RowTurn(r)
<1>1. PICK x \in Statuses : Finish(r, x)
  BY DEF Throws, Blocks, Statuses
<1> QED BY <1>1 DEF Finish, RowTurn

LEMMA CallsTurn ==
    ASSUME NEW r, pc[r] \in Waits, NEW k, Calls(r, k)
    PROVE  RowTurn(r)
<1>1. "running" \in Statuses /\ "tool" \in Waits
  BY DEF Statuses, Waits
<1> QED BY <1>1, FinishTurn DEF Calls, RowTurn

LEMMA BeginTurn ==
    ASSUME NEW r, pc[r] \in Waits, NEW k, NEW p, BeginStep(r, k, p)
    PROVE  RowTurn(r)
<1>1. "waiting_approval" \in Statuses /\ "approval" \in Waits /\ "blocked" \in Statuses
  BY DEF Statuses, Waits
<1>2. ASSUME AsksFounder(r, k) PROVE RowTurn(r)
  BY <1>1, <1>2 DEF AsksFounder, RowTurn
<1> QED BY <1>1, <1>2, CallsTurn, FinishTurn DEF BeginStep

LEMMA ProceedsTurn ==
    ASSUME Inductive, NEW r \in Runs, pc[r] \in Waits, NEW at, Proceeds(r, at)
    PROVE  RowTurn(r)
<1>1. /\ status[r] \in Statuses /\ "completed" \in Statuses /\ "tool" \in Waits
      /\ status \in [Runs -> Statuses]
  BY DEF Inductive, TypeOK, Statuses, Waits
<1>2. CASE /\ pc' = [pc EXCEPT ![r] = "tool"]
           /\ UNCHANGED <<status, row, runners>>
  BY <1>1, <1>2 DEF RowTurn
<1> QED BY <1>1, <1>2, BeginTurn, CallsTurn, FinishTurn DEF Proceeds, EndStep

LEMMA HoldsTurn ==
    ASSUME NEW r, pc[r] \in Waits, NEW at, NEW st \in Statuses, Holds(r, at, st)
    PROVE  RowTurn(r)
BY DEF Holds, RowTurn, Waits

LEMMA EveryTurn ==
    ASSUME Inductive, RowInv, NEW r \in Runs,
           \/ StartRun(r) \/ Hear(r) \/ PlanFails(r) \/ PlanReady(r) \/ ToolThrows(r)
           \/ (\E at \in {"progress", "finishedOk", "finishedBad"} : ToolReports(r, at))
           \/ Poll(r) \/ Approve(r) \/ Reject(r) \/ TimeOut(r) \/ Pause(r) \/ Resume(r) \/ Cancel(r)
    PROVE  RowTurn(r)
<1>1. /\ {"heard", "running", "paused", "cancelled", "blocked"} \subseteq Statuses
      /\ {"scheduled", "planning", "held", "approval", "tool"} \subseteq Waits
      /\ status[r] \in Statuses /\ pc \in [Runs -> PCs]
  BY DEF Statuses, Waits, Inductive, TypeOK
<1>2. CASE StartRun(r)
  BY <1>1, <1>2 DEF StartRun, RowTurn
<1>3. CASE Hear(r)
  BY <1>1, <1>3 DEF Hear, RowTurn
<1>4. CASE PlanFails(r) \/ ToolThrows(r) \/ Reject(r) \/ TimeOut(r)
  BY <1>1, <1>4, FinishTurn DEF PlanFails, ToolThrows, Reject, TimeOut
<1>5. CASE PlanReady(r)
  <2>1. CASE \E p \in Plans : BeginStep(r, 1, p)
    BY <1>1, <1>5, <2>1, BeginTurn DEF PlanReady
  <2>2. CASE Finish(r, "running")
    BY <1>1, <1>5, <2>2, FinishTurn DEF PlanReady
  <2>3. CASE Shows(r, "running") /\ pc' = [pc EXCEPT ![r] = "held"] /\ UNCHANGED runners
    BY <1>1, <1>5, <2>3 DEF PlanReady, RowTurn
  <2> QED BY <1>5, <2>1, <2>2, <2>3 DEF PlanReady
<1>6. CASE \E at \in {"progress", "finishedOk", "finishedBad"} : ToolReports(r, at)
  BY <1>1, <1>6, FinishTurn, HoldsTurn, ProceedsTurn DEF ToolReports
<1>7. CASE Poll(r)
  BY <1>1, <1>7, FinishTurn, ProceedsTurn DEF Poll
<1>8. CASE Approve(r)
  BY <1>1, <1>8, HoldsTurn, CallsTurn DEF Approve
<1>9. ASSUME NEW st \in Statuses, r \in runners, Shows(r, st), UNCHANGED <<pc, runners>>
      PROVE  RowTurn(r)
  <2>1. pc[r] \in Waits \cup {"ended"} /\ pc' = [pc EXCEPT ![r] = pc[r]]
    BY <1>1, <1>9 DEF RowInv, PCs
  <2> QED BY <1>9, <2>1 DEF RowTurn
<1>10. CASE Pause(r) \/ Resume(r)
  BY <1>1, <1>9, <1>10 DEF Pause, Resume
<1>11. CASE Cancel(r)
  BY <1>1, <1>9, <1>11, FinishTurn DEF Cancel
<1> QED BY <1>2, <1>3, <1>4, <1>5, <1>6, <1>7, <1>8, <1>10, <1>11

LEMMA TurnKeepsRows ==
    ASSUME Inductive, RowInv, NEW r \in Runs, RowTurn(r)
    PROVE  RowInv'
<1>1. PICK st \in Statuses, p \in Waits \cup {"ended"} :
        /\ pc' = [pc EXCEPT ![r] = p]
        /\ pc[r] \in Waits \/ r \in runners \/ (pc[r] = "none" /\ p = "scheduled")
        /\ \/ Shows(r, st)
           \/ pc[r] \in Waits /\ p \in Waits /\ status' = [status EXCEPT ![r] = st] /\ UNCHANGED row
        /\ runners' \subseteq runners \cup {r}
  BY DEF RowTurn
<1>2. p # "none" /\ p # "lost" /\ st # "absent"
  BY DEF Waits, Statuses
<1>3. \A s \in Runs : /\ pc'[s] = IF s = r THEN p ELSE pc[s]
                      /\ s # r => status'[s] = status[s] /\ row'[s] = row[s]
  BY <1>1 DEF Inductive, TypeOK, Shows
<1>4. RowsTellRuns'
  BY <1>1, <1>2, <1>3 DEF RowInv, RowsTellRuns, Inductive, TypeOK, Shows, Waits
<1>5. \A s \in Runs : pc'[s] = "none" <=> row'[s] = "absent"
  BY <1>1, <1>2, <1>3 DEF RowInv, Inductive, TypeOK, Shows, Waits
<1>6. \A s \in runners' : pc'[s] \notin {"none", "lost"}
  BY <1>1, <1>2, <1>3 DEF RowInv, Inductive, TypeOK
<1> QED BY <1>4, <1>5, <1>6 DEF RowInv

LEMMA RestartKeepsRows ==
    ASSUME Inductive, RowInv, Restart
    PROVE  RowInv'
<1>1. \A r \in Runs : /\ row'[r] = Recovered(row[r])
                      /\ pc'[r] = IF pc[r] \in Waits THEN "lost" ELSE pc[r]
                      /\ row[r] # "absent" => status'[r] = row'[r]
  BY DEF Restart
<1>2. \A r \in Runs : pc[r] # "none" => row[r] # "absent"
  BY DEF RowInv
<1>3. RowsTellRuns'
  BY <1>1, <1>2 DEF RowInv, RowsTellRuns, Recovered, Waits
<1>4. \A r \in Runs : pc'[r] = "none" <=> row'[r] = "absent"
  BY <1>1, <1>2 DEF RowInv, Recovered, Waits
<1> QED BY <1>3, <1>4 DEF RowInv, Restart

LEMMA NextKeepsRows ==
    ASSUME Inductive, RowInv, [Next]_vars
    PROVE  RowInv'
<1>1. CASE UNCHANGED vars
  BY <1>1 DEF vars, runVars, RowInv, RowsTellRuns
<1>2. CASE Restart
  BY <1>2, RestartKeepsRows
<1>3. ASSUME NEW r \in Runs, RowTurn(r) PROVE RowInv'
  BY <1>3, TurnKeepsRows
<1> QED BY <1>1, <1>2, <1>3, EveryTurn DEF Next

\* The row of a finished run is the last word of its runner, and the row of a
\* run whose process died never claims that it still works (sqlite-store.ts:
\* markInterruptedRuns), wherever the process dies.
THEOREM RowsAreTrue == Spec => []RowsTellRuns
<1>1. Init => RowInv
  BY DEF Init, RowInv, RowsTellRuns
<1>2. RowInv => RowsTellRuns
  BY DEF RowInv
<1> QED BY <1>1, <1>2, NextKeepsRows, Invariance, PTL DEF Spec

-----------------------------------------------------------------------------
(* The trace of a run and what is learnt from it: receipts                   *)

ReceiptKinds ==
    {"hint", "selected", "effort", "fallback", "resolution", "worker", "verification", "capability", "tool", "prediction",
     "policy", "authority", "approval", "passed", "gateFailed", "outcome", "improvement"}
Receipts == [kind : ReceiptKinds, revision : 1..MaxActive, at : 1..MaxHour, previous : Nat]

\* In the order of writing, as receipts are while nobody sets the clock back
Straight(chain) ==
    \A i \in DOMAIN chain :
      chain[i].previous = i - 1 /\ \A j \in DOMAIN chain : j < i => chain[j].at <= chain[i].at

\* Some numbered things that have a time: one of them is the last.
LEMMA LatestExists ==
    ASSUME NEW S, S \subseteq Nat, S # {}, NEW n \in Nat, \A i \in S : i <= n,
           NEW m \in Nat, NEW at, \A i \in S : at[i] \in 0..m
    PROVE  \E i \in S : \A j \in S : j = i \/ at[j] < at[i] \/ (at[j] = at[i] /\ j < i)
<1> DEFINE T == {at[i] : i \in S}
<1>6. \A i \in S : at[i] \in Nat /\ at[i] <= m
  OBVIOUS
<1>1. T \subseteq Nat /\ T # {} /\ \A t \in T : t <= m
  BY <1>6
<1>2. PICK last \in T : \A t \in T : t <= last
  <2> HIDE DEF T
  <2> QED BY <1>1, LastExists
<1> DEFINE U == {i \in S : at[i] = last}
<1>3. U \subseteq Nat /\ U # {} /\ \A i \in U : i <= n
  BY <1>2
<1>4. PICK i \in U : \A j \in U : j <= i
  <2> HIDE DEF U
  <2> QED BY <1>3, LastExists
<1>5. ASSUME NEW j \in S, j # i PROVE at[j] < at[i] \/ (at[j] = at[i] /\ j < i)
  <2>1. at[j] <= at[i] /\ at[j] \in Nat /\ at[i] \in Nat
    <3>1. at[j] \in T /\ i \in S /\ at[i] = last
      BY <1>4
    <3> QED BY <1>2, <1>6, <3>1
  <2>2. at[j] = at[i] => j < i
    BY <1>4, <1>5
  <2> QED BY <2>1, <2>2
<1> QED BY <1>4, <1>5

Dated(chain) == DOMAIN chain = 1..Len(chain) /\ Len(chain) \in Nat /\ \A i \in DOMAIN chain : chain[i].at \in 1..MaxHour

LEMMA LastOfIs ==
    ASSUME NEW chain, Dated(chain), NEW some, some \subseteq DOMAIN chain, some # {}
    PROVE  /\ LastOf(chain, some) \in some
           /\ \A j \in some : j = LastOf(chain, some) \/ Precedes(chain, j, LastOf(chain, some))
<1> DEFINE at == [i \in some |-> chain[i].at]
<1>1. MaxHour \in Nat /\ Len(chain) \in Nat /\ some \subseteq Nat /\ \A i \in some : i <= Len(chain)
  BY TraceAssumption DEF Dated
<1>2. \A i \in some : at[i] \in 0..MaxHour
  BY TraceAssumption DEF Dated
<1>3. \E i \in some : \A j \in some : j = i \/ at[j] < at[i] \/ (at[j] = at[i] /\ j < i)
  <2> HIDE DEF at
  <2> QED BY <1>1, <1>2, LatestExists
<1>4. \E i \in some : \A j \in some : j = i \/ Precedes(chain, j, i)
  BY <1>3 DEF Precedes
<1> QED BY <1>4 DEF LastOf

\* It is the one written last where the times do not fall.
LEMMA LastIsLast ==
    ASSUME NEW chain, Dated(chain), NEW n \in DOMAIN chain,
           \A j \in 1..n : chain[j].at <= chain[n].at
    PROVE  LastOf(chain, 1..n) = n
<1>1. n \in 1..n /\ 1..n \subseteq DOMAIN chain
  BY DEF Dated
<1>2. PICK i : i = LastOf(chain, 1..n)
  OBVIOUS
<1>3. i \in 1..n /\ (n = i \/ Precedes(chain, n, i))
  BY <1>1, <1>2, LastOfIs
<1>4. chain[i].at <= chain[n].at /\ chain[i].at \in Nat /\ chain[n].at \in Nat /\ n \in Nat /\ i \in Nat
  BY <1>1, <1>3 DEF Dated
<1> QED BY <1>2, <1>3, <1>4 DEF Precedes

LEMMA StraightVerifies ==
    ASSUME NEW chain \in Seq(Receipts), Straight(chain)
    PROVE  Verifies(chain)
<1> SUFFICES ASSUME NEW i \in DOMAIN chain, NEW earlier, earlier = {j \in DOMAIN chain : Precedes(chain, j, i)},
                    earlier # {}
             PROVE  chain[i].previous = LastOf(chain, earlier)
  BY DEF Verifies
<1>1. DOMAIN chain = 1..Len(chain) /\ Len(chain) \in Nat /\ \A j \in DOMAIN chain : chain[j] \in Receipts
  OBVIOUS
<1>2. Dated(chain)
  BY <1>1 DEF Dated, Receipts
<1>3. \A j \in DOMAIN chain : chain[j].at \in Nat
  BY <1>1 DEF Receipts
<1>4. \A j \in DOMAIN chain : Precedes(chain, j, i) <=> j < i
  <2> SUFFICES ASSUME NEW j \in DOMAIN chain PROVE Precedes(chain, j, i) <=> j < i
    OBVIOUS
  <2>1. j \in Nat /\ i \in Nat /\ chain[j].at \in Nat /\ chain[i].at \in Nat
    BY <1>1, <1>3
  <2>2. j < i => chain[j].at <= chain[i].at
    BY DEF Straight
  <2>3. i < j => chain[i].at <= chain[j].at
    BY DEF Straight
  <2> QED BY <2>1, <2>2, <2>3 DEF Precedes
<1>5. i \in Nat /\ earlier = 1..(i - 1)
  BY <1>1, <1>4
<1>6. i - 1 \in DOMAIN chain
  BY <1>1, <1>5
<1>7. \A j \in 1..(i - 1) : chain[j].at <= chain[i - 1].at
  BY <1>1, <1>3, <1>5, <1>6 DEF Straight
<1>8. LastOf(chain, 1..(i - 1)) = i - 1
  BY <1>2, <1>6, <1>7, LastIsLast
<1> QED BY <1>5, <1>8 DEF Straight

\* What is appended
LEMMA AppendedIs ==
    ASSUME NEW chain \in Seq(Receipts), NEW kinds \in Seq(ReceiptKinds), NEW revision \in 1..MaxActive, hour \in 1..MaxHour,
           NEW new, new = Appended(chain, kinds, revision)
    PROVE  /\ new \in Seq(Receipts) /\ Len(new) = Len(chain) + Len(kinds)
           /\ \A i \in 1..Len(chain) : new[i] = chain[i]
           /\ \A k \in 1..Len(kinds) : LET n == Len(chain) + k IN
                new[n].kind = kinds[k] /\ new[n].revision = revision /\ new[n].at = hour
           /\ Straight(chain) /\ (\A i \in DOMAIN chain : chain[i].at <= hour) =>
                Straight(new) /\ \A i \in DOMAIN new : new[i].at <= hour
<1> DEFINE more == [k \in DOMAIN kinds |-> [at |-> hour]]
           dated == chain \o more
           last(k) == LastListed(SubSeq(dated, 1, Len(chain) + k - 1))
           tail == [k \in DOMAIN kinds |-> [kind |-> kinds[k], revision |-> revision, at |-> hour, previous |-> last(k)]]
<1>1. new = chain \o tail
  BY DEF Appended
<1>2. DOMAIN kinds = 1..Len(kinds) /\ Len(kinds) \in Nat /\ DOMAIN chain = 1..Len(chain) /\ Len(chain) \in Nat
  OBVIOUS
<1>3. \A i \in DOMAIN chain : chain[i] \in Receipts /\ chain[i].at \in 1..MaxHour
  <2>1. \A i \in DOMAIN chain : chain[i] \in Receipts
    BY <1>2
  <2> QED BY <2>1 DEF Receipts
<1>4. /\ DOMAIN dated = 1..(Len(chain) + Len(kinds)) /\ Len(dated) = Len(chain) + Len(kinds)
      /\ \A i \in 1..Len(chain) : dated[i] = chain[i]
      /\ \A k \in 1..Len(kinds) : dated[Len(chain) + k] = [at |-> hour]
  <2>1. PICK S : S = Receipts \cup {[at |-> hour]}
    OBVIOUS
  <2>2. chain \in Seq(S) /\ more \in Seq(S)
    BY <1>2, <1>3, <2>1
  <2>3. Len(more) = Len(kinds) /\ \A k \in 1..Len(kinds) : more[k] = [at |-> hour]
    BY <1>2, <2>2
  <2> HIDE DEF more
  <2>4. /\ dated \in Seq(S) /\ Len(dated) = Len(chain) + Len(kinds)
        /\ \A i \in 1..(Len(chain) + Len(kinds)) : dated[i] = IF i <= Len(chain) THEN chain[i] ELSE more[i - Len(chain)]
    <3>1. /\ chain \o more \in Seq(S) /\ Len(chain \o more) = Len(chain) + Len(more)
          /\ \A i \in 1..Len(chain) + Len(more) : (chain \o more)[i] = IF i <= Len(chain) THEN chain[i] ELSE more[i - Len(chain)]
      BY <2>2, ConcatProperties, Zenon
    <3> QED BY <2>3, <3>1
  <2> HIDE DEF dated
  <2>5. DOMAIN dated = 1..(Len(chain) + Len(kinds))
    BY <1>2, <2>4
  <2>6. \A i \in 1..Len(chain) : dated[i] = chain[i]
    BY <1>2, <2>4
  <2>7. \A k \in 1..Len(kinds) : Len(chain) + k \in 1..(Len(chain) + Len(kinds)) /\ ~(Len(chain) + k <= Len(chain))
                                 /\ (Len(chain) + k) - Len(chain) = k
    BY <1>2
  <2>8. \A k \in 1..Len(kinds) : dated[Len(chain) + k] = [at |-> hour]
    BY <2>3, <2>4, <2>7
  <2> QED BY <2>4, <2>5, <2>6, <2>8
<1>5. \A i \in DOMAIN dated : dated[i].at \in 1..MaxHour
  <2> SUFFICES ASSUME NEW i \in DOMAIN dated PROVE dated[i].at \in 1..MaxHour
    OBVIOUS
  <2> HIDE DEF dated
  <2>1. CASE i <= Len(chain)
    BY <1>2, <1>3, <1>4, <2>1
  <2>2. CASE i > Len(chain)
    <3>1. PICK k \in 1..Len(kinds) : i = Len(chain) + k
      <4>1. i - Len(chain) \in 1..Len(kinds)
        BY <1>2, <1>4, <2>2
      <4> QED BY <1>2, <1>4, <4>1
    <3> QED BY <1>4, <3>1
  <2>3. i \in Nat /\ Len(chain) \in Nat
    BY <1>2, <1>4
  <2> QED BY <2>1, <2>2, <2>3
<1>6. dated \in Seq(Receipts \cup {[at |-> hour]}) /\ Dated(dated)
  <2>1. \A i \in DOMAIN dated : dated[i] \in Receipts \cup {[at |-> hour]}
    <3> SUFFICES ASSUME NEW i \in DOMAIN dated PROVE dated[i] \in Receipts \cup {[at |-> hour]}
      OBVIOUS
    <3> HIDE DEF dated
    <3>1. CASE i <= Len(chain)
      BY <1>2, <1>3, <1>4, <3>1
    <3>2. CASE i > Len(chain)
      <4>1. i - Len(chain) \in 1..Len(kinds) /\ i = Len(chain) + (i - Len(chain))
        BY <1>2, <1>4, <3>2
      <4> QED BY <1>4, <4>1
    <3>3. i \in Nat /\ Len(chain) \in Nat
      BY <1>2, <1>4
    <3> QED BY <3>1, <3>2, <3>3
  <2> HIDE DEF dated
  <2>2. DOMAIN dated = 1..Len(dated) /\ Len(dated) \in Nat
    BY <1>2, <1>4
  <2>3. dated \in Seq(Receipts \cup {[at |-> hour]})
    <3>1. dated = [i \in 1..Len(dated) |-> dated[i]]
      <4>1. dated = [i \in DOMAIN dated |-> dated[i]]
        BY <1>1 DEF dated
      <4> QED BY <2>2, <4>1
    <3> QED BY <2>1, <2>2, <3>1
  <2> QED BY <1>5, <2>2, <2>3 DEF Dated
<1> HIDE DEF dated
<1>7. ASSUME NEW k \in 1..Len(kinds)
      PROVE  /\ last(k) \in Nat
             /\ (\A j \in 1..(Len(chain) + k - 1) : dated[j].at <= dated[Len(chain) + k - 1].at) => last(k) = Len(chain) + k - 1
  <2> DEFINE n == Len(chain) + k - 1
             prefix == SubSeq(dated, 1, n)
  <2>1. n \in 0..Len(dated)
    BY <1>2, <1>4
  <2>2. Len(prefix) = n /\ \A j \in 1..n : prefix[j] = dated[j]
    BY <1>2, <1>4, <1>6, <2>1
  <2>3. DOMAIN prefix = 1..n /\ n \in Nat /\ 1..n \subseteq DOMAIN dated
    BY <1>2, <1>4, <1>6, <2>1, <2>2
  <2> HIDE DEF prefix
  <2>4. Dated(prefix)
    BY <1>5, <2>2, <2>3 DEF Dated
  <2>5. last(k) = LastOf(prefix, 1..n)
    BY <2>3 DEF prefix, LastListed
  <2> HIDE DEF n, last
  <2>6. CASE n = 0
    <3>1. 1..n = {}
      BY <2>6
    <3> QED BY <2>5, <2>6, <3>1 DEF LastOf, n
  <2>7. CASE n # 0
    <3>4. n \in Nat /\ n >= 1
      BY <2>3, <2>7
    <3>5. n \in 1..n
      BY <3>4
    <3>1. 1..n # {} /\ n \in DOMAIN prefix /\ n \in 1..n
      BY <2>3, <3>5
    <3>2. last(k) \in 1..n
      BY <2>3, <2>4, <2>5, <3>1, LastOfIs
    <3>3. (\A j \in 1..n : dated[j].at <= dated[n].at) => last(k) = n
      BY <2>2, <2>4, <2>5, <3>1, LastIsLast
    <3> QED BY <2>3, <3>2, <3>3 DEF n
  <2> QED BY <2>6, <2>7
<1> HIDE DEF last
<1>8. tail \in Seq(Receipts) /\ Len(tail) = Len(kinds)
  <2>1. \A k \in 1..Len(kinds) : tail[k] \in Receipts
    BY <1>2, <1>7, TraceAssumption DEF Receipts
  <2> QED BY <1>2, <2>1
<1>9. /\ new \in Seq(Receipts) /\ Len(new) = Len(chain) + Len(kinds) /\ DOMAIN new = 1..(Len(chain) + Len(kinds))
      /\ \A i \in 1..Len(chain) : new[i] = chain[i]
      /\ \A k \in 1..Len(kinds) : new[Len(chain) + k] = tail[k]
  <2> HIDE DEF tail
  <2>1. /\ new \in Seq(Receipts) /\ Len(new) = Len(chain) + Len(kinds)
        /\ \A i \in 1..(Len(chain) + Len(kinds)) : new[i] = IF i <= Len(chain) THEN chain[i] ELSE tail[i - Len(chain)]
    <3>1. /\ chain \o tail \in Seq(Receipts) /\ Len(chain \o tail) = Len(chain) + Len(tail)
          /\ \A i \in 1..Len(chain) + Len(tail) : (chain \o tail)[i] = IF i <= Len(chain) THEN chain[i] ELSE tail[i - Len(chain)]
      BY <1>8, ConcatProperties, Zenon
    <3> QED BY <1>1, <1>8, <3>1
  <2>2. DOMAIN new = 1..(Len(chain) + Len(kinds))
    BY <1>2, <2>1
  <2>3. \A i \in 1..Len(chain) : new[i] = chain[i]
    BY <1>2, <2>1
  <2>4. \A k \in 1..Len(kinds) : Len(chain) + k \in 1..(Len(chain) + Len(kinds)) /\ ~(Len(chain) + k <= Len(chain))
                                 /\ (Len(chain) + k) - Len(chain) = k
    BY <1>2
  <2>5. \A k \in 1..Len(kinds) : new[Len(chain) + k] = tail[k]
    BY <2>1, <2>4
  <2> QED BY <2>1, <2>2, <2>3, <2>5
<1>10. \A k \in 1..Len(kinds) : tail[k].kind = kinds[k] /\ tail[k].revision = revision /\ tail[k].at = hour
                                /\ tail[k].previous = last(k)
  BY <1>2
<1> HIDE DEF tail
<1>11. ASSUME Straight(chain), \A i \in DOMAIN chain : chain[i].at <= hour
       PROVE  Straight(new) /\ \A i \in DOMAIN new : new[i].at <= hour
  <2>1. \A i \in DOMAIN new : i <= Len(chain) \/ \E k \in 1..Len(kinds) : i = Len(chain) + k
    <3> SUFFICES ASSUME NEW i \in DOMAIN new, ~(i <= Len(chain)) PROVE \E k \in 1..Len(kinds) : i = Len(chain) + k
      OBVIOUS
    <3>1. i - Len(chain) \in 1..Len(kinds) /\ i = Len(chain) + (i - Len(chain))
      BY <1>2, <1>9
    <3> QED BY <3>1
  <2>2. \A i \in DOMAIN new : new[i].at <= hour /\ new[i].at \in Nat
    <3> SUFFICES ASSUME NEW i \in DOMAIN new PROVE new[i].at <= hour /\ new[i].at \in Nat
      OBVIOUS
    <3>1. CASE i <= Len(chain)
      BY <1>2, <1>3, <1>9, <1>11, <3>1
    <3>2. CASE \E k \in 1..Len(kinds) : i = Len(chain) + k
      <4>1. new[i].at = hour
        BY <1>9, <1>10, <3>2
      <4>2. hour \in Nat
        BY TraceAssumption
      <4> QED BY <4>1, <4>2
    <3> QED BY <2>1, <3>1, <3>2
  <2>3. ASSUME NEW i \in DOMAIN new, NEW j \in DOMAIN new, j < i PROVE new[j].at <= new[i].at
    <3>1. CASE i <= Len(chain)
      <4>1. i \in DOMAIN chain /\ j \in DOMAIN chain /\ new[i] = chain[i] /\ new[j] = chain[j]
        BY <1>2, <1>9, <2>3, <3>1
      <4> QED BY <1>11, <2>3, <4>1 DEF Straight
    <3>2. CASE \E k \in 1..Len(kinds) : i = Len(chain) + k
      BY <1>9, <1>10, <2>2, <3>2
    <3> QED BY <2>1, <3>1, <3>2
  <2>4. \A j \in DOMAIN dated : dated[j].at = new[j].at
    <3> SUFFICES ASSUME NEW j \in DOMAIN dated PROVE dated[j].at = new[j].at
      OBVIOUS
    <3>1. j \in DOMAIN new
      BY <1>4, <1>9
    <3>2. CASE j <= Len(chain)
      BY <1>2, <1>4, <1>9, <3>1, <3>2
    <3>3. CASE \E k \in 1..Len(kinds) : j = Len(chain) + k
      BY <1>4, <1>9, <1>10, <3>3
    <3> QED BY <2>1, <3>1, <3>2, <3>3
  <2>5. ASSUME NEW i \in DOMAIN new PROVE new[i].previous = i - 1
    <3>1. CASE i <= Len(chain)
      <4>1. i \in DOMAIN chain /\ new[i] = chain[i]
        BY <1>2, <1>9, <3>1
      <4> QED BY <1>11, <4>1 DEF Straight
    <3>2. CASE \E k \in 1..Len(kinds) : i = Len(chain) + k
      <4>1. PICK k \in 1..Len(kinds) : i = Len(chain) + k
        BY <3>2
      <4>2. ASSUME NEW j \in 1..(i - 1) PROVE dated[j].at <= dated[i - 1].at
        <5>1. j \in DOMAIN new /\ i - 1 \in DOMAIN new /\ j \in DOMAIN dated /\ i - 1 \in DOMAIN dated /\ j <= i - 1
          <6>1. i \in Nat /\ j \in Nat /\ 1 <= j /\ j <= i - 1 /\ i <= Len(chain) + Len(kinds) /\ Len(chain) + Len(kinds) \in Nat
            BY <1>2, <1>9
          <6>2. j \in 1..(Len(chain) + Len(kinds)) /\ i - 1 \in 1..(Len(chain) + Len(kinds))
            BY <6>1
          <6> QED BY <1>4, <1>9, <6>1, <6>2
        <5>2. new[j].at <= new[i - 1].at
          <6>1. new[j].at \in Nat /\ j \in Nat /\ i \in Nat
            BY <1>2, <1>9, <2>2, <5>1
          <6>2. j < i - 1 => new[j].at <= new[i - 1].at
            BY <2>3, <5>1
          <6> QED BY <5>1, <6>1, <6>2
        <5> QED BY <2>4, <5>1, <5>2
      <4>3. i - 1 = Len(chain) + k - 1
        BY <1>2, <4>1
      <4>4. last(k) = i - 1
        BY <1>7, <4>2, <4>3
      <4> QED BY <1>9, <1>10, <4>1, <4>4
    <3> QED BY <2>1, <3>1, <3>2
  <2> QED BY <2>2, <2>3, <2>5 DEF Straight
<1> QED BY <1>9, <1>10, <1>11

Says(kinds, kind) == \E k \in DOMAIN kinds : kinds[k] = kind
Once(chain, kind) == \A i, j \in DOMAIN chain : chain[i].kind = kind /\ chain[j].kind = kind => i = j
SaysOnce(kinds, kind) == \A k, n \in DOMAIN kinds : kinds[k] = kind /\ kinds[n] = kind => k = n

\* What an appended trace tells
Grown(chain, kinds, revision, new) ==
    /\ new \in Seq(Receipts)
    /\ \A kind : Tells(new, kind) <=> Tells(chain, kind) \/ Says(kinds, kind)
    /\ \A kind : Once(chain, kind) /\ SaysOnce(kinds, kind) /\ ~(Tells(chain, kind) /\ Says(kinds, kind)) => Once(new, kind)
    /\ (\A i \in DOMAIN chain : chain[i].revision = revision) => \A i \in DOMAIN new : new[i].revision = revision
    /\ Straight(chain) /\ (\A i \in DOMAIN chain : chain[i].at <= hour) =>
         Straight(new) /\ \A i \in DOMAIN new : new[i].at <= hour

LEMMA AppendedGrows ==
    ASSUME NEW chain \in Seq(Receipts), NEW kinds \in Seq(ReceiptKinds), NEW revision \in 1..MaxActive, hour \in 1..MaxHour
    PROVE  Grown(chain, kinds, revision, Appended(chain, kinds, revision))
<1> DEFINE new == Appended(chain, kinds, revision)
<1>2. /\ new \in Seq(Receipts) /\ Len(new) = Len(chain) + Len(kinds)
      /\ \A i \in 1..Len(chain) : new[i] = chain[i]
      /\ \A k \in 1..Len(kinds) : LET n == Len(chain) + k IN
           new[n].kind = kinds[k] /\ new[n].revision = revision /\ new[n].at = hour
      /\ Straight(chain) /\ (\A i \in DOMAIN chain : chain[i].at <= hour) =>
           Straight(new) /\ \A i \in DOMAIN new : new[i].at <= hour
  BY AppendedIs
<1> HIDE DEF new
<1>3. /\ DOMAIN new = 1..(Len(chain) + Len(kinds)) /\ DOMAIN chain = 1..Len(chain) /\ DOMAIN kinds = 1..Len(kinds)
      /\ Len(chain) \in Nat /\ Len(kinds) \in Nat
  BY <1>2
<1>4. ASSUME NEW i \in DOMAIN new
      PROVE  \/ i \in DOMAIN chain /\ new[i] = chain[i]
             \/ i - Len(chain) \in DOMAIN kinds /\ new[i].kind = kinds[i - Len(chain)] /\ new[i].revision = revision
  <2>1. CASE i <= Len(chain)
    BY <1>2, <1>3, <2>1
  <2>2. CASE ~(i <= Len(chain))
    <3>1. i - Len(chain) \in 1..Len(kinds) /\ Len(chain) + (i - Len(chain)) = i
      BY <1>3, <2>2
    <3> QED BY <1>2, <1>3, <3>1
  <2> QED BY <2>1, <2>2
<1>5. /\ \A i \in DOMAIN chain : i \in DOMAIN new /\ new[i] = chain[i]
      /\ \A k \in DOMAIN kinds : Len(chain) + k \in DOMAIN new /\ new[Len(chain) + k].kind = kinds[k]
  BY <1>2, <1>3
<1>6. \A kind : Tells(new, kind) <=> Tells(chain, kind) \/ Says(kinds, kind)
  BY <1>4, <1>5 DEF Tells, Says
<1>7. ASSUME NEW kind, Once(chain, kind), SaysOnce(kinds, kind), ~(Tells(chain, kind) /\ Says(kinds, kind))
      PROVE  Once(new, kind)
  <2> SUFFICES ASSUME NEW i \in DOMAIN new, NEW j \in DOMAIN new, new[i].kind = kind, new[j].kind = kind PROVE i = j
    BY DEF Once
  <2>1. CASE Tells(chain, kind)
    <3>1. i \in DOMAIN chain /\ j \in DOMAIN chain /\ chain[i].kind = kind /\ chain[j].kind = kind
      BY <1>4, <1>7, <2>1 DEF Says
    <3> QED BY <1>7, <3>1 DEF Once
  <2>2. CASE ~Tells(chain, kind)
    <3>1. i - Len(chain) \in DOMAIN kinds /\ kinds[i - Len(chain)] = kind /\ j - Len(chain) \in DOMAIN kinds
          /\ kinds[j - Len(chain)] = kind
      BY <1>4, <2>2 DEF Tells
    <3>2. i - Len(chain) = j - Len(chain) /\ i \in Nat /\ j \in Nat
      BY <1>3, <1>7, <3>1 DEF SaysOnce
    <3> QED BY <1>3, <3>2
  <2> QED BY <2>1, <2>2
<1>8. (\A i \in DOMAIN chain : chain[i].revision = revision) => \A i \in DOMAIN new : new[i].revision = revision
  BY <1>4
<1> QED
  <2>1. Grown(chain, kinds, revision, new)
    BY <1>2, <1>6, <1>7, <1>8 DEF Grown
  <2> QED BY <2>1 DEF new

-----------------------------------------------------------------------------
(* What is written of each turn *)

LEMMA OneKind ==
    ASSUME NEW kind \in ReceiptKinds
    PROVE  <<kind>> \in Seq(ReceiptKinds) /\ (\A k : Says(<<kind>>, k) <=> k = kind) /\ (\A k : SaysOnce(<<kind>>, k))
<1>1. PICK kinds : kinds = <<kind>>
  OBVIOUS
<1>2. kinds \in Seq(ReceiptKinds) /\ DOMAIN kinds = 1..1 /\ kinds[1] = kind
  BY <1>1
<1> QED BY <1>1, <1>2 DEF Says, SaysOnce

LEMMA PlanKinds ==
    ASSUME NEW way \in DOMAIN PlanReceipts, NEW kinds, kinds = PlanReceipts[way]
    PROVE  /\ kinds \in Seq(ReceiptKinds) /\ ~Says(kinds, "outcome") /\ SaysOnce(kinds, "resolution")
           /\ Says(kinds, "prediction") <=> way \in {"household", "personal"}
           /\ way \in {"fallback", "household", "personal"} => ~Says(kinds, "resolution")
<1>1. CASE way = "fallback"
  <2>1. kinds = <<"fallback">>
    BY <1>1 DEF PlanReceipts
  <2>2. kinds \in Seq(ReceiptKinds) /\ DOMAIN kinds = 1..1
    BY <2>1 DEF ReceiptKinds
  <2>3. kinds[1] = "fallback"
    BY <2>1
  <2> QED BY <1>1, <2>2, <2>3 DEF Says, SaysOnce
<1>2. CASE way = "effort"
  <2>1. kinds = <<"resolution">>
    BY <1>2 DEF PlanReceipts
  <2>2. kinds \in Seq(ReceiptKinds) /\ DOMAIN kinds = 1..1
    BY <2>1 DEF ReceiptKinds
  <2>3. kinds[1] = "resolution"
    BY <2>1
  <2> QED BY <1>2, <2>2, <2>3 DEF Says, SaysOnce
<1>3. CASE way = "provider"
  <2>1. kinds = <<"worker", "resolution">>
    BY <1>3 DEF PlanReceipts
  <2>2. kinds \in Seq(ReceiptKinds) /\ DOMAIN kinds = 1..2
    BY <2>1 DEF ReceiptKinds
  <2>3. kinds[1] = "worker" /\ kinds[2] = "resolution"
    BY <2>1
  <2> QED BY <1>3, <2>2, <2>3 DEF Says, SaysOnce
<1>4. CASE way = "rejected"
  <2>1. kinds = <<"worker", "verification">>
    BY <1>4 DEF PlanReceipts
  <2>2. kinds \in Seq(ReceiptKinds) /\ DOMAIN kinds = 1..2
    BY <2>1 DEF ReceiptKinds
  <2>3. kinds[1] = "worker" /\ kinds[2] = "verification"
    BY <2>1
  <2> QED BY <1>4, <2>2, <2>3 DEF Says, SaysOnce
<1>5. CASE way = "unready"
  <2>1. kinds = <<"worker", "verification", "capability", "resolution">>
    BY <1>5 DEF PlanReceipts
  <2>2. kinds \in Seq(ReceiptKinds) /\ DOMAIN kinds = 1..4
    BY <2>1 DEF ReceiptKinds
  <2>3. kinds[1] = "worker" /\ kinds[2] = "verification" /\ kinds[3] = "capability" /\ kinds[4] = "resolution"
    BY <2>1
  <2> QED BY <1>5, <2>2, <2>3 DEF Says, SaysOnce
<1>6. CASE way = "household"
  <2>1. kinds = <<"worker", "verification", "capability", "tool", "prediction">>
    BY <1>6 DEF PlanReceipts
  <2>2. kinds \in Seq(ReceiptKinds) /\ DOMAIN kinds = 1..5
    BY <2>1 DEF ReceiptKinds
  <2>3. kinds[1] = "worker" /\ kinds[2] = "verification" /\ kinds[3] = "capability" /\ kinds[4] = "tool" /\ kinds[5] = "prediction"
    BY <2>1
  <2> QED BY <1>6, <2>2, <2>3 DEF Says, SaysOnce
<1>7. CASE way = "personal"
  <2>1. kinds = <<"worker", "verification", "capability", "tool", "prediction", "policy">>
    BY <1>7 DEF PlanReceipts
  <2>2. kinds \in Seq(ReceiptKinds) /\ DOMAIN kinds = 1..6
    BY <2>1 DEF ReceiptKinds
  <2>3. /\ kinds[1] = "worker" /\ kinds[2] = "verification" /\ kinds[3] = "capability" /\ kinds[4] = "tool" /\ kinds[5] = "prediction"
        /\ kinds[6] = "policy"
    BY <2>1
  <2> QED BY <1>7, <2>2, <2>3 DEF Says, SaysOnce
<1> QED BY <1>1, <1>2, <1>3, <1>4, <1>5, <1>6, <1>7 DEF PlanReceipts

LEMMA BeginKinds ==
    ASSUME NEW some \in {<<>>, <<"hint">>}, NEW kinds, kinds = some \o <<"selected", "effort">>
    PROVE  /\ kinds \in Seq(ReceiptKinds)
           /\ \A kind \in {"outcome", "resolution", "prediction"} : ~Says(kinds, kind) /\ SaysOnce(kinds, kind)
<1>1. CASE some = <<>>
  <2>1. kinds = <<"selected", "effort">>
    BY <1>1
  <2>3. kinds \in Seq(ReceiptKinds) /\ DOMAIN kinds = 1..2
    <3>1. <<"selected", "effort">> \in Seq(ReceiptKinds) /\ Len(<<"selected", "effort">>) = 2
      BY DEF ReceiptKinds
    <3>2. kinds \in Seq(ReceiptKinds) /\ Len(kinds) = 2
      BY <2>1, <3>1
    <3> QED BY <3>2
  <2>2. kinds[1] = "selected" /\ kinds[2] = "effort"
    BY <2>1
  <2> QED BY <2>2, <2>3 DEF Says, SaysOnce
<1>2. CASE some = <<"hint">>
  <2>1. /\ <<"hint">> \in Seq(ReceiptKinds) /\ Len(<<"hint">>) = 1
        /\ <<"selected", "effort">> \in Seq(ReceiptKinds) /\ Len(<<"selected", "effort">>) = 2
    BY DEF ReceiptKinds
  <2>2. kinds \in Seq(ReceiptKinds) /\ DOMAIN kinds = 1..3 /\ kinds[1] = "hint" /\ kinds[2] = "selected" /\ kinds[3] = "effort"
    BY <1>2, <2>1
  <2> QED BY <2>2 DEF Says, SaysOnce
<1> QED BY <1>1, <1>2

-----------------------------------------------------------------------------
(* A run: its receipts t, how it goes s, what is learnt l, its pin p, and    *)
(* the time h                                                                *)

Stages == {"none", "begun", "working", "over", "again", "finished", "lost"}
RanValues ==
    [at : Stages, status : {"none", "completed", "failed", "blocked", "cancelled", "paused"},
     revision : 0..MaxActive, other : BOOLEAN, personal : BOOLEAN, predicted : BOOLEAN, passed : BOOLEAN,
     gateFailed : BOOLEAN, updated : 0..MaxHour, notes : Nat, thrown : BOOLEAN, slipped : BOOLEAN]
Observations == [revision : 0..MaxActive, score : {0, 1}, at : 0..MaxHour]
PinValues == [revision : 0..MaxActive, restricted : BOOLEAN]

Won(s) == s.status = "completed" /\ s.passed /\ ~s.gateFailed
Fell(s) == s.status = "failed" \/ s.gateFailed

\* Its receipts are of the revision it began under, and straight unless the
\* clock was set back under it; the outcome and the resolution are there once,
\* and not before their time.
ReceiptsSound(t, s, h) ==
    /\ t \in Seq(Receipts)
    /\ \A i \in DOMAIN t : t[i].revision = s.revision
    /\ ~s.slipped => Straight(t) /\ (s.at \in LiveTrace => \A i \in DOMAIN t : t[i].at <= h)
    /\ Once(t, "outcome") /\ Once(t, "resolution")
    /\ Tells(t, "prediction") <=> s.predicted
    /\ Tells(t, "outcome") => s.at \in {"again", "finished", "lost"}
    /\ Tells(t, "resolution") => s.at \notin {"none", "begun", "working"}
    /\ s.at = "finished" => Tells(t, "outcome") /\ (s.status = "blocked" => Tells(t, "resolution"))

\* What is learnt tells how it went, and is there when it was finished at once.
LearntSound(t, s, l) ==
    /\ l \in Observations
    /\ l # NothingLearnt =>
         /\ Tells(t, "outcome") /\ s.predicted /\ l.revision = s.revision
         /\ IF l.score = 1 THEN Won(s) ELSE Fell(s)
    /\ s.at = "finished" /\ ~s.thrown /\ s.predicted /\ (Won(s) \/ Fell(s)) => l # NothingLearnt

\* It is pinned to its revision, and to what it may use, until it is finished.
WaySound(s, p) ==
    /\ s \in RanValues /\ p \in PinValues
    /\ s.at # "none" => s.revision \in 1..MaxActive
    /\ s.at \in {"none", "begun"} => ~s.predicted /\ ~s.personal
    /\ s.at \in LiveTrace => p.revision = s.revision /\ (s.other => p.restricted)
    /\ s.at = "again" => s.thrown
    /\ ~(s.other /\ s.personal)

RunSound(t, s, l, p, h) ==
    /\ ReceiptsSound(t, s, h) /\ LearntSound(t, s, l) /\ WaySound(s, p)
    /\ s.at = "none" => t = <<>>

\* A revision has one open proposal at most, of one of its observations.
DriftsSound(ds, known) ==
    /\ ds \in [1..MaxActive -> [TracedRuns -> {"none", "proposed", "approved", "rejected", "applied"}]]
    /\ \A v \in 1..MaxActive :
         /\ \A q, r \in TracedRuns : ds[v][q] \in {"proposed", "approved"} /\ ds[v][r] \in {"proposed", "approved"} => q = r
         /\ \A r \in TracedRuns : ds[v][r] # "none" => known[r].revision = v

TraceShape ==
    /\ trace = [r \in TracedRuns |-> trace[r]] /\ ran = [r \in TracedRuns |-> ran[r]]
    /\ learnt = [r \in TracedRuns |-> learnt[r]] /\ pins = [r \in TracedRuns |-> pins[r]]
    /\ hour \in 1..MaxHour /\ activeRevision \in 1..MaxActive

TraceInv ==
    /\ TraceShape /\ DriftsSound(drifts, learnt)
    /\ \A r \in TracedRuns : RunSound(trace[r], ran[r], learnt[r], pins[r], hour)

\* A step of one run leaves the others.
LEMMA OneRun ==
    ASSUME TraceInv, NEW r \in TracedRuns, TraceShape', hour' = hour,
           \A q \in TracedRuns \ {r} : trace'[q] = trace[q] /\ ran'[q] = ran[q] /\ learnt'[q] = learnt[q] /\ pins'[q] = pins[q],
           RunSound(trace'[r], ran'[r], learnt'[r], pins'[r], hour), DriftsSound(drifts', learnt')
    PROVE  TraceInv'
<1>1. \A q \in TracedRuns : RunSound(trace[q], ran[q], learnt[q], pins[q], hour)
  BY DEF TraceInv
<1>2. \A q \in TracedRuns : RunSound(trace'[q], ran'[q], learnt'[q], pins'[q], hour')
  BY <1>1
<1> QED BY <1>2 DEF TraceInv

\* Appending to the receipts of a run that lives
LEMMA GrownSound ==
    ASSUME NEW t, NEW s, ReceiptsSound(t, s, hour), s.at \in LiveTrace \/ t = <<>>,
           NEW kinds, NEW revision, NEW new, Grown(t, kinds, revision, new), t # <<>> => revision = s.revision,
           SaysOnce(kinds, "outcome"), SaysOnce(kinds, "resolution"),
           Says(kinds, "outcome") => ~Tells(t, "outcome"), Says(kinds, "resolution") => ~Tells(t, "resolution"),
           NEW z, z.revision = revision, s.slipped => z.slipped,
           z.predicted <=> Tells(t, "prediction") \/ Says(kinds, "prediction"),
           Tells(t, "outcome") \/ Says(kinds, "outcome") => z.at \in {"again", "finished", "lost"},
           Tells(t, "resolution") \/ Says(kinds, "resolution") => z.at \notin {"none", "begun", "working"},
           z.at = "finished" => /\ Tells(t, "outcome") \/ Says(kinds, "outcome")
                                /\ z.status = "blocked" => Tells(t, "resolution") \/ Says(kinds, "resolution")
    PROVE  ReceiptsSound(new, z, hour)
<1>1. /\ new \in Seq(Receipts)
      /\ \A kind : Tells(new, kind) <=> Tells(t, kind) \/ Says(kinds, kind)
      /\ \A kind : Once(t, kind) /\ SaysOnce(kinds, kind) /\ ~(Tells(t, kind) /\ Says(kinds, kind)) => Once(new, kind)
      /\ (\A i \in DOMAIN t : t[i].revision = revision) => \A i \in DOMAIN new : new[i].revision = revision
      /\ Straight(t) /\ (\A i \in DOMAIN t : t[i].at <= hour) =>
           Straight(new) /\ \A i \in DOMAIN new : new[i].at <= hour
  BY DEF Grown
<1>2. \A i \in DOMAIN t : t[i].revision = revision
  BY DEF ReceiptsSound
<1>3. ~z.slipped => Straight(t) /\ \A i \in DOMAIN t : t[i].at <= hour
  <2>1. t = <<>> => Straight(t) /\ \A i \in DOMAIN t : t[i].at <= hour
    BY DEF Straight
  <2> QED BY <2>1 DEF ReceiptsSound
<1>4. Once(t, "outcome") /\ Once(t, "resolution")
  BY DEF ReceiptsSound
<1>5. Once(new, "outcome") /\ Once(new, "resolution")
  BY <1>1, <1>4
<1>6. ~z.slipped => Straight(new) /\ \A i \in DOMAIN new : new[i].at <= hour
  BY <1>1, <1>3
<1> QED BY <1>1, <1>2, <1>5, <1>6 DEF ReceiptsSound

\* A run that lives is pinned, and what is told of it is of its revision.
LEMMA LiveTold ==
    ASSUME TraceInv, NEW r \in TracedRuns, ran[r].at \in LiveTrace
    PROVE  /\ BlueprintOf(r) = pins[r] /\ ran[r].revision \in 1..MaxActive
           /\ \A kinds \in Seq(ReceiptKinds) : Grown(trace[r], kinds, ran[r].revision, Told(r, kinds))
<1>1. /\ RunSound(trace[r], ran[r], learnt[r], pins[r], hour) /\ hour \in 1..MaxHour
  BY DEF TraceInv, TraceShape
<1>2. pins[r].revision = ran[r].revision /\ ran[r].revision \in 1..MaxActive /\ trace[r] \in Seq(Receipts)
  BY <1>1 DEF RunSound, WaySound, ReceiptsSound, LiveTrace
<1>3. pins[r] # NoPin
  BY <1>2 DEF NoPin
<1>4. BlueprintOf(r) = pins[r]
  BY <1>3 DEF BlueprintOf
<1>5. ASSUME NEW kinds \in Seq(ReceiptKinds) PROVE Grown(trace[r], kinds, ran[r].revision, Told(r, kinds))
  <2>1. Told(r, kinds) = Appended(trace[r], kinds, ran[r].revision)
    BY <1>2, <1>4 DEF Told
  <2> QED BY <1>1, <1>2, <2>1, AppendedGrows
<1> QED BY <1>2, <1>4, <1>5

\* Whoever is somebody else is restricted.
LEMMA FusedIs ==
    ASSUME NEW voice \in Hints, NEW face \in FaceHints, NEW hint, hint = Fused(voice, face)
    PROVE  ({"minor", "adult"} \cap {voice, face} # {}) \/ (Strict /\ hint \in {"ambiguous", "unknown"}) => Restricts(hint)
<1> DEFINE rank == [minor |-> 1, adult |-> 2, owner |-> 3, ambiguous |-> 4, unknown |-> 5, none |-> 6]
<1>1. \A other \in Hints : rank[other] \in 1..6
  BY DEF Hints
<1>2. voice \in Hints /\ face \in Hints
  BY DEF Hints, FaceHints
<1>3. \E h \in {voice, face} : \A other \in {voice, face} : rank[h] <= rank[other]
  <2>1. rank[voice] \in 1..6 /\ rank[face] \in 1..6
    BY <1>1, <1>2
  <2> HIDE DEF rank
  <2>2. CASE rank[voice] <= rank[face]
    BY <2>1, <2>2
  <2>3. CASE rank[face] <= rank[voice]
    BY <2>1, <2>3
  <2> QED BY <2>1, <2>2, <2>3
<1>4. hint \in {voice, face} /\ \A other \in {voice, face} : rank[hint] <= rank[other]
  <2> HIDE DEF rank
  <2>1. hint = CHOOSE h \in {voice, face} : \A other \in {voice, face} : rank[h] <= rank[other]
    BY DEF Fused, rank
  <2> QED BY <1>3, <2>1
<1>5. ASSUME {"minor", "adult"} \cap {voice, face} # {} PROVE hint \in {"minor", "adult"}
  <2>1. \E other \in {voice, face} : rank[other] <= 2
    BY <1>5
  <2>2. rank[hint] <= 2 /\ hint \in Hints
    <3>1. \A other \in {voice, face} : rank[other] \in 1..6
      BY <1>1, <1>2
    <3> HIDE DEF rank
    <3> QED BY <1>2, <1>4, <2>1, <3>1
  <2> QED BY <2>2 DEF Hints
<1> QED BY <1>5 DEF Restricts

-----------------------------------------------------------------------------
(* The steps of a run                                                        *)

LEMMA BeginKeeps ==
    ASSUME TraceInv, NEW r \in TracedRuns, NEW voice \in Hints, NEW face \in FaceHints, Begin(r, voice, face)
    PROVE  TraceInv'
<1>1. PICK hint : hint = Fused(voice, face)
  OBVIOUS
<1>2. PICK some : some = IF hint = "none" THEN <<>> ELSE <<"hint">>
  OBVIOUS
<1>3. PICK kinds : kinds = some \o <<"selected", "effort">>
  OBVIOUS
<1>4. PICK other : other = (({"minor", "adult"} \cap {voice, face} # {}) \/ (Strict /\ hint \in {"ambiguous", "unknown"}))
                  /\ other \in BOOLEAN
  OBVIOUS
<1>5. PICK s : s = ran[r]
  OBVIOUS
<1>6. /\ s.at = "none" /\ pins' = [pins EXCEPT ![r] = [revision |-> activeRevision, restricted |-> Restricts(hint)]]
      /\ trace' = [trace EXCEPT ![r] = Appended(trace[r], kinds, activeRevision)]
      /\ ran' = [ran EXCEPT ![r].at = "begun", ![r].revision = activeRevision, ![r].other = other]
      /\ UNCHANGED <<learnt, drifts, activeRevision, hour>>
  BY <1>1, <1>2, <1>3, <1>4, <1>5 DEF Begin
<1>7. /\ TraceShape /\ DriftsSound(drifts, learnt) /\ RunSound(trace[r], s, learnt[r], pins[r], hour)
      /\ hour \in 1..MaxHour /\ activeRevision \in 1..MaxActive
  BY <1>5 DEF TraceInv, TraceShape
<1>8. trace[r] = <<>> /\ s \in RanValues /\ ~s.predicted /\ ~s.personal
  BY <1>6, <1>7 DEF RunSound, WaySound
<1>9. PICK z : z = ran'[r]
  OBVIOUS
<1>10. z = [s EXCEPT !.at = "begun", !.revision = activeRevision, !.other = other]
  BY <1>5, <1>6, <1>7, <1>9 DEF TraceShape
<1>11. /\ z \in RanValues /\ z.at = "begun" /\ z.revision = activeRevision /\ z.other = other
       /\ z.predicted = s.predicted /\ z.personal = s.personal /\ z.slipped = s.slipped
  <2>1. activeRevision \in 0..MaxActive /\ "begun" \in Stages
    BY <1>7, TraceAssumption DEF Stages
  <2> QED BY <1>4, <1>8, <1>10, <2>1 DEF RanValues
<1>12. /\ kinds \in Seq(ReceiptKinds)
       /\ \A kind \in {"outcome", "resolution", "prediction"} : ~Says(kinds, kind) /\ SaysOnce(kinds, kind)
  BY <1>2, <1>3, BeginKinds
<1>13. PICK new : new = trace'[r]
  OBVIOUS
<1>14. new = Appended(<<>>, kinds, activeRevision) /\ ReceiptsSound(<<>>, s, hour)
  BY <1>6, <1>7, <1>8, <1>13 DEF TraceShape, RunSound
<1>15. Grown(<<>>, kinds, activeRevision, new)
  <2>1. <<>> \in Seq(Receipts)
    OBVIOUS
  <2> QED BY <1>7, <1>12, <1>14, <2>1, AppendedGrows
<1>16. \A kind : ~Tells(<<>>, kind)
  BY DEF Tells
<1>17. ReceiptsSound(new, z, hour)
  BY <1>8, <1>11, <1>12, <1>14, <1>15, <1>16, GrownSound
<1>18. learnt[r] = NothingLearnt /\ learnt[r] \in Observations
  BY <1>7, <1>8, <1>16 DEF RunSound, LearntSound
<1>19. LearntSound(new, z, learnt[r])
  BY <1>11, <1>18 DEF LearntSound
<1>20. pins'[r] = [revision |-> activeRevision, restricted |-> Restricts(hint)]
  BY <1>6, <1>7 DEF TraceShape
<1>21. WaySound(z, pins'[r])
  <2>1. Restricts(hint) \in BOOLEAN /\ (other => Restricts(hint))
    BY <1>1, <1>4, FusedIs DEF Restricts
  <2> QED BY <1>7, <1>8, <1>11, <1>20, <2>1 DEF WaySound, PinValues
<1>22. RunSound(new, z, learnt[r], pins'[r], hour)
  BY <1>11, <1>17, <1>19, <1>21 DEF RunSound
<1>23. TraceShape'
  BY <1>6, <1>7 DEF TraceShape
<1>24. \A q \in TracedRuns \ {r} : trace'[q] = trace[q] /\ ran'[q] = ran[q] /\ learnt'[q] = learnt[q] /\ pins'[q] = pins[q]
  BY <1>6, <1>7 DEF TraceShape
<1> QED BY <1>6, <1>7, <1>9, <1>13, <1>22, <1>23, <1>24, OneRun

LEMMA PlanKeeps ==
    ASSUME TraceInv, NEW r \in TracedRuns, NEW way \in DOMAIN PlanReceipts, Plan(r, way)
    PROVE  TraceInv'
<1>1. PICK s : s = ran[r]
  OBVIOUS
<1>2. PICK kinds : kinds = PlanReceipts[way]
  OBVIOUS
<1> DEFINE goes == way \in {"fallback", "household", "personal"}
<1>3. goes \in BOOLEAN
  OBVIOUS
<1>4. /\ s.at = "begun" /\ Allowed(r, way) /\ trace' = [trace EXCEPT ![r] = Told(r, kinds)]
      /\ ran' = IF goes
                 THEN [ran EXCEPT ![r].at = "working", ![r].predicted = way # "fallback",
                                  ![r].personal = way = "personal"]
                 ELSE [ran EXCEPT ![r].at = "over", ![r].status = "blocked", ![r].updated = hour]
      /\ UNCHANGED <<learnt, drifts, pins, activeRevision, hour>>
  BY <1>1, <1>2, <1>3 DEF Plan
<1>5. /\ TraceShape /\ DriftsSound(drifts, learnt) /\ RunSound(trace[r], s, learnt[r], pins[r], hour)
      /\ hour \in 1..MaxHour /\ activeRevision \in 1..MaxActive
  BY <1>1 DEF TraceInv, TraceShape
<1>6. /\ s \in RanValues /\ ~s.predicted /\ ~s.personal /\ s.at \in LiveTrace
      /\ s.revision \in 1..MaxActive /\ pins[r].revision = s.revision /\ pins[r] \in PinValues /\ (s.other => pins[r].restricted)
  BY <1>4, <1>5 DEF RunSound, WaySound, LiveTrace
<1>7. /\ kinds \in Seq(ReceiptKinds) /\ ~Says(kinds, "outcome") /\ SaysOnce(kinds, "resolution")
      /\ Says(kinds, "prediction") <=> way \in {"household", "personal"}
      /\ goes => ~Says(kinds, "resolution")
  BY <1>2, <1>3, PlanKinds
<1>8. Grown(trace[r], kinds, s.revision, Told(r, kinds)) /\ BlueprintOf(r) = pins[r]
  BY <1>1, <1>6, <1>7, LiveTold
<1>9. PICK z : z = ran'[r]
  OBVIOUS
<1>10. /\ z \in RanValues /\ z.revision = s.revision /\ z.other = s.other /\ z.slipped = s.slipped
       /\ z.at = (IF goes THEN "working" ELSE "over")
       /\ z.predicted <=> way \in {"household", "personal"}
       /\ z.personal <=> way = "personal"
  <2>1. CASE goes
    <3>1. z = [s EXCEPT !.at = "working", !.predicted = way # "fallback", !.personal = way = "personal"]
      BY <1>1, <1>4, <1>5, <1>9, <2>1 DEF TraceShape
    <3> QED BY <1>3, <1>6, <2>1, <3>1 DEF RanValues, Stages
  <2>2. CASE ~goes
    <3>1. z = [s EXCEPT !.at = "over", !.status = "blocked", !.updated = hour]
      BY <1>1, <1>4, <1>5, <1>9, <2>2 DEF TraceShape
    <3>2. hour \in 0..MaxHour /\ "over" \in Stages
      BY <1>5, TraceAssumption DEF Stages
    <3> QED BY <1>6, <2>2, <3>1, <3>2 DEF RanValues
  <2> QED BY <1>3, <2>1, <2>2
<1>11. PICK new : new = trace'[r]
  OBVIOUS
<1>12. new = Told(r, kinds) /\ ReceiptsSound(trace[r], s, hour)
  BY <1>4, <1>5, <1>11 DEF TraceShape, RunSound
<1>13. ~Tells(trace[r], "outcome") /\ ~Tells(trace[r], "resolution") /\ ~Tells(trace[r], "prediction")
  BY <1>4, <1>6, <1>12 DEF ReceiptsSound
<1>14. ReceiptsSound(new, z, hour)
  <2>1. SaysOnce(kinds, "outcome")
    BY <1>7 DEF Says, SaysOnce
  <2>2. z.predicted <=> Tells(trace[r], "prediction") \/ Says(kinds, "prediction")
    BY <1>7, <1>10, <1>13
  <2>3. z.at \in {"working", "over"} /\ (z.at = "working" => goes)
    BY <1>3, <1>10
  <2>4. Says(kinds, "resolution") => z.at \notin {"none", "begun", "working"}
    BY <1>7, <2>3
  <2> QED BY <1>6, <1>7, <1>8, <1>10, <1>12, <1>13, <2>1, <2>2, <2>3, <2>4, GrownSound
<1>15. learnt[r] = NothingLearnt /\ learnt[r] \in Observations
  BY <1>5, <1>13 DEF RunSound, LearntSound
<1>16. LearntSound(new, z, learnt[r])
  BY <1>3, <1>10, <1>15 DEF LearntSound
<1>17. WaySound(z, pins[r])
  <2>1. way = "personal" => ~pins[r].restricted
    BY <1>4, <1>8 DEF Allowed
  <2>2. ~(z.other /\ z.personal)
    BY <1>6, <1>10, <2>1
  <2>3. z.at \in {"working", "over"}
    BY <1>3, <1>10
  <2> QED BY <1>6, <1>10, <2>2, <2>3 DEF WaySound
<1>18. RunSound(new, z, learnt[r], pins[r], hour)
  BY <1>3, <1>10, <1>14, <1>16, <1>17 DEF RunSound
<1>19. TraceShape'
  BY <1>3, <1>4, <1>5 DEF TraceShape
<1>20. \A q \in TracedRuns \ {r} : trace'[q] = trace[q] /\ ran'[q] = ran[q] /\ learnt'[q] = learnt[q] /\ pins'[q] = pins[q]
  BY <1>3, <1>4, <1>5 DEF TraceShape
<1> QED BY <1>4, <1>5, <1>9, <1>11, <1>18, <1>19, <1>20, OneRun

LEMMA NoteKeeps ==
    ASSUME TraceInv, NEW r \in TracedRuns, NEW kind \in {"authority", "approval", "passed", "gateFailed"}, Note(r, kind)
    PROVE  TraceInv'
<1>1. PICK s : s = ran[r]
  OBVIOUS
<1>2. PICK kinds : kinds = <<kind>>
  OBVIOUS
<1>4. /\ s.at = "working" /\ trace' = [trace EXCEPT ![r] = Told(r, kinds)]
      /\ ran' = [ran EXCEPT ![r].notes = @ + 1, ![r].passed = @ \/ kind = "passed",
                            ![r].gateFailed = @ \/ kind = "gateFailed"]
      /\ UNCHANGED <<learnt, drifts, pins, activeRevision, hour>>
  BY <1>1, <1>2 DEF Note
<1>5. /\ TraceShape /\ DriftsSound(drifts, learnt) /\ RunSound(trace[r], s, learnt[r], pins[r], hour)
      /\ hour \in 1..MaxHour /\ activeRevision \in 1..MaxActive
  BY <1>1 DEF TraceInv, TraceShape
<1>6. /\ s \in RanValues /\ s.at \in LiveTrace /\ WaySound(s, pins[r])
  BY <1>4, <1>5 DEF RunSound, WaySound, LiveTrace
<1>7. /\ kinds \in Seq(ReceiptKinds) /\ (\A k : Says(kinds, k) <=> k = kind) /\ (\A k : SaysOnce(kinds, k))
  BY <1>2, OneKind DEF ReceiptKinds
<1>8. Grown(trace[r], kinds, s.revision, Told(r, kinds))
  BY <1>1, <1>6, <1>7, LiveTold
<1>9. PICK z : z = ran'[r]
  OBVIOUS
<1>10. /\ z \in RanValues /\ z.revision = s.revision /\ z.other = s.other /\ z.slipped = s.slipped
       /\ z.at = s.at /\ z.predicted = s.predicted /\ z.personal = s.personal /\ z.status = s.status
  <2>1. z = [s EXCEPT !.notes = @ + 1, !.passed = @ \/ kind = "passed", !.gateFailed = @ \/ kind = "gateFailed"]
    BY <1>1, <1>4, <1>5, <1>9 DEF TraceShape
  <2>2. s.notes + 1 \in Nat /\ s.passed \in BOOLEAN /\ s.gateFailed \in BOOLEAN
    BY <1>6 DEF RanValues
  <2>3. (s.passed \/ kind = "passed") \in BOOLEAN /\ (s.gateFailed \/ kind = "gateFailed") \in BOOLEAN
    BY <2>2
  <2> QED BY <1>6, <2>1, <2>2, <2>3 DEF RanValues
<1>11. PICK new : new = trace'[r]
  OBVIOUS
<1>12. new = Told(r, kinds) /\ ReceiptsSound(trace[r], s, hour)
  BY <1>4, <1>5, <1>11 DEF TraceShape, RunSound
<1>13. ~Tells(trace[r], "outcome") /\ ~Tells(trace[r], "resolution") /\ (Tells(trace[r], "prediction") <=> s.predicted)
  BY <1>4, <1>12 DEF ReceiptsSound
<1>14. ReceiptsSound(new, z, hour)
  BY <1>4, <1>6, <1>7, <1>8, <1>10, <1>12, <1>13, GrownSound
<1>15. learnt[r] = NothingLearnt /\ learnt[r] \in Observations
  BY <1>5, <1>13 DEF RunSound, LearntSound
<1>16. LearntSound(new, z, learnt[r])
  BY <1>4, <1>10, <1>15 DEF LearntSound
<1>17. WaySound(z, pins[r])
  BY <1>4, <1>6, <1>10 DEF WaySound
<1>18. RunSound(new, z, learnt[r], pins[r], hour)
  BY <1>4, <1>10, <1>14, <1>16, <1>17 DEF RunSound
<1>19. TraceShape'
  BY <1>4, <1>5 DEF TraceShape
<1>20. \A q \in TracedRuns \ {r} : trace'[q] = trace[q] /\ ran'[q] = ran[q] /\ learnt'[q] = learnt[q] /\ pins'[q] = pins[q]
  BY <1>4, <1>5 DEF TraceShape
<1> QED BY <1>4, <1>5, <1>9, <1>11, <1>18, <1>19, <1>20, OneRun

LEMMA EndKeeps ==
    ASSUME TraceInv, NEW r \in TracedRuns,
           NEW ending \in {"completed", "failed", "blocked", "cancelled", "paused"}, End(r, ending)
    PROVE  TraceInv'
<1>1. PICK s : s = ran[r]
  OBVIOUS
<1>4. /\ s.at = "working" /\ ran' = [ran EXCEPT ![r].at = "over", ![r].status = ending, ![r].updated = hour]
      /\ UNCHANGED <<trace, learnt, drifts, pins, activeRevision, hour>>
  BY <1>1 DEF End
<1>5. /\ TraceShape /\ DriftsSound(drifts, learnt) /\ RunSound(trace[r], s, learnt[r], pins[r], hour)
      /\ hour \in 1..MaxHour
  BY <1>1 DEF TraceInv, TraceShape
<1>6. /\ s \in RanValues /\ s.at \in LiveTrace /\ WaySound(s, pins[r]) /\ ReceiptsSound(trace[r], s, hour)
  BY <1>4, <1>5 DEF RunSound, WaySound, LiveTrace
<1>9. PICK z : z = ran'[r]
  OBVIOUS
<1>10. /\ z \in RanValues /\ z.revision = s.revision /\ z.other = s.other /\ z.slipped = s.slipped
       /\ z.at = "over" /\ z.predicted = s.predicted /\ z.personal = s.personal
  <2>1. z = [s EXCEPT !.at = "over", !.status = ending, !.updated = hour]
    BY <1>1, <1>4, <1>5, <1>9 DEF TraceShape
  <2>2. hour \in 0..MaxHour /\ "over" \in Stages
    BY <1>5, TraceAssumption DEF Stages
  <2> QED BY <1>6, <2>1, <2>2 DEF RanValues
<1>13. ~Tells(trace[r], "outcome") /\ ~Tells(trace[r], "resolution")
  BY <1>4, <1>6 DEF ReceiptsSound
<1>14. ReceiptsSound(trace[r], z, hour)
  BY <1>6, <1>10, <1>13 DEF ReceiptsSound
<1>15. learnt[r] = NothingLearnt /\ learnt[r] \in Observations
  BY <1>5, <1>13 DEF RunSound, LearntSound
<1>16. LearntSound(trace[r], z, learnt[r])
  BY <1>10, <1>15 DEF LearntSound
<1>17. WaySound(z, pins[r])
  BY <1>4, <1>6, <1>10 DEF WaySound
<1>18. RunSound(trace[r], z, learnt[r], pins[r], hour)
  BY <1>10, <1>14, <1>16, <1>17 DEF RunSound
<1>19. TraceShape'
  BY <1>4, <1>5 DEF TraceShape
<1>20. \A q \in TracedRuns \ {r} : trace'[q] = trace[q] /\ ran'[q] = ran[q] /\ learnt'[q] = learnt[q] /\ pins'[q] = pins[q]
  BY <1>4, <1>5 DEF TraceShape
<1> QED BY <1>4, <1>5, <1>9, <1>18, <1>19, <1>20, OneRun

-----------------------------------------------------------------------------
(* Which observation of a revision is the last                              *)

\* Finitely many numbers have a bound.
LEMMA FiniteBounded ==
    ASSUME NEW S, S \subseteq Nat, IsFiniteSet(S)
    PROVE  \E n \in Nat : \A x \in S : x <= n
<1> DEFINE Bounded(s) == \E n \in Nat : \A x \in s : x <= n
           T == {k \in Nat : \A s \in SUBSET S : Cardinality(s) <= k => Bounded(s)}
<1>1. \A s \in SUBSET S : IsFiniteSet(s) /\ Cardinality(s) \in Nat
  BY FS_Subset, FS_CardinalityType
<1>2. 0 \in T
  <2> SUFFICES ASSUME NEW s \in SUBSET S, Cardinality(s) <= 0 PROVE Bounded(s)
    OBVIOUS
  <2>1. s = {}
    BY <1>1, FS_EmptySet
  <2> QED BY <2>1
<1>3. ASSUME NEW k \in Nat, k # 0, k - 1 \in T PROVE k \in T
  <2> SUFFICES ASSUME NEW s \in SUBSET S, Cardinality(s) <= k PROVE Bounded(s)
    OBVIOUS
  <2>1. CASE s = {}
    BY <2>1
  <2>2. CASE s # {}
    <3>1. PICK x \in s : TRUE
      BY <2>2
    <3>2. s \ {x} \in SUBSET S /\ Cardinality(s \ {x}) <= k - 1
      <4>1. Cardinality(s \ {x}) = Cardinality(s) - 1
        BY <1>1, OneLess
      <4> QED BY <1>1, <4>1
    <3>3. Bounded(s \ {x})
      BY <1>3, <3>2
    <3>4. PICK n \in Nat : \A y \in s \ {x} : y <= n
      BY <3>3
    <3>5. x \in Nat
      OBVIOUS
    <3>6. CASE x <= n
      <4>1. \A y \in s : y <= n
        BY <3>4, <3>6
      <4> QED BY <4>1
    <3>7. CASE n <= x
      <4>1. \A y \in s : y <= x
        <5> SUFFICES ASSUME NEW y \in s PROVE y <= x
          OBVIOUS
        <5>1. y \in Nat /\ (y = x \/ y <= n)
          BY <3>4
        <5> QED BY <3>5, <3>7, <5>1
      <4> QED BY <3>5, <4>1
    <3> QED BY <3>5, <3>6, <3>7
  <2> QED BY <2>1, <2>2
<1> HIDE DEF T
<1>4. \A k \in Nat : 0..k \subseteq T
  <2> SUFFICES ASSUME NEW k \in Nat PROVE 0..k \subseteq T
    OBVIOUS
  <2>1. \A j \in 1..k : j - 1 \in T => j \in T
    BY <1>3
  <2> QED BY <1>2, <2>1, UpTo
<1>5. Cardinality(S) \in T
  <2>1. Cardinality(S) \in Nat /\ Cardinality(S) \in 0..Cardinality(S)
    BY <1>1
  <2> QED BY <1>4, <2>1
<1>6. Cardinality(S) <= Cardinality(S) /\ S \in SUBSET S
  BY <1>1
<1> QED BY <1>5, <1>6 DEF T

\* Observations of a revision have a last one.
LEMMA LastObservedIs ==
    ASSUME NEW known, \A q \in TracedRuns : known[q] \in Observations, NEW revision, ObservedUnder(known, revision) # {}
    PROVE  LastObserved(known, revision) \in ObservedUnder(known, revision)
<1> DEFINE S == ObservedUnder(known, revision)
           at == [q \in S |-> known[q].at]
<1>1. S \subseteq TracedRuns /\ S \subseteq Nat /\ S # {} /\ MaxHour \in Nat
  BY TraceAssumption DEF ObservedUnder
<1>2. IsFiniteSet(S)
  BY <1>1, FS_Subset, TraceAssumption
<1>3. PICK n \in Nat : \A q \in S : q <= n
  BY <1>1, <1>2, FiniteBounded
<1>4. \A q \in S : at[q] \in 0..MaxHour
  BY <1>1 DEF Observations
<1>5. \E q \in S : \A r \in S : r = q \/ at[r] < at[q] \/ (at[r] = at[q] /\ r < q)
  <2> HIDE DEF S, at
  <2> QED BY <1>1, <1>3, <1>4, LatestExists
<1>6. \E r \in S : \A q \in S : q = r \/ Sooner(known, q, r)
  BY <1>5 DEF Sooner
<1> QED BY <1>6 DEF LastObserved

-----------------------------------------------------------------------------
(* The end of a run *)

\* Optional receipts, one of each kind
Told3(a, b, c) ==
    (IF a THEN <<>> ELSE <<"outcome">>) \o (IF b THEN <<"improvement">> ELSE <<>>) \o (IF c THEN <<"resolution">> ELSE <<>>)

LEMMA EndKinds ==
    ASSUME NEW a \in BOOLEAN, NEW b \in BOOLEAN, NEW c \in BOOLEAN, NEW kinds, kinds = Told3(a, b, c)
    PROVE  /\ kinds \in Seq(ReceiptKinds)
           /\ Says(kinds, "outcome") <=> ~a
           /\ Says(kinds, "resolution") <=> c
           /\ ~Says(kinds, "prediction") /\ SaysOnce(kinds, "outcome") /\ SaysOnce(kinds, "resolution")
<1> DEFINE x == IF a THEN <<>> ELSE <<"outcome">>
           y == IF b THEN <<"improvement">> ELSE <<>>
           z == IF c THEN <<"resolution">> ELSE <<>>
<1>1. /\ x \in Seq(ReceiptKinds) /\ Len(x) = IF a THEN 0 ELSE 1
      /\ ~a => x[1] = "outcome"
  <2>1. CASE ~a
    <3>1. x = <<"outcome">>
      BY <2>1
    <3>2. <<"outcome">> \in Seq(ReceiptKinds) /\ Len(<<"outcome">>) = 1 /\ <<"outcome">>[1] = "outcome"
      BY DEF ReceiptKinds
    <3> HIDE DEF x
    <3> QED BY <2>1, <3>1, <3>2
  <2>2. CASE a
    <3>1. x = <<>>
      BY <2>2
    <3> HIDE DEF x
    <3> QED BY <2>2, <3>1
  <2> QED BY <2>1, <2>2
<1>2. /\ y \in Seq(ReceiptKinds) /\ Len(y) = IF b THEN 1 ELSE 0
      /\ b => y[1] = "improvement"
  <2>1. CASE b
    <3>1. y = <<"improvement">>
      BY <2>1
    <3>2. <<"improvement">> \in Seq(ReceiptKinds) /\ Len(<<"improvement">>) = 1 /\ <<"improvement">>[1] = "improvement"
      BY DEF ReceiptKinds
    <3> HIDE DEF y
    <3> QED BY <2>1, <3>1, <3>2
  <2>2. CASE ~b
    <3>1. y = <<>>
      BY <2>2
    <3> HIDE DEF y
    <3> QED BY <2>2, <3>1
  <2> QED BY <2>1, <2>2
<1>3. /\ z \in Seq(ReceiptKinds) /\ Len(z) = IF c THEN 1 ELSE 0
      /\ c => z[1] = "resolution"
  <2>1. CASE c
    <3>1. z = <<"resolution">>
      BY <2>1
    <3>2. <<"resolution">> \in Seq(ReceiptKinds) /\ Len(<<"resolution">>) = 1 /\ <<"resolution">>[1] = "resolution"
      BY DEF ReceiptKinds
    <3> HIDE DEF z
    <3> QED BY <2>1, <3>1, <3>2
  <2>2. CASE ~c
    <3>1. z = <<>>
      BY <2>2
    <3> HIDE DEF z
    <3> QED BY <2>2, <3>1
  <2> QED BY <2>1, <2>2
<1>4. kinds = (x \o y) \o z
  BY DEF Told3
<1> HIDE DEF x, y, z
<1>5. /\ x \o y \in Seq(ReceiptKinds) /\ Len(x \o y) = Len(x) + Len(y)
      /\ \A i \in 1..(Len(x) + Len(y)) : (x \o y)[i] = IF i <= Len(x) THEN x[i] ELSE y[i - Len(x)]
  BY <1>1, <1>2, ConcatProperties, Zenon
<1>6. PICK xy : xy = x \o y
  OBVIOUS
<1> xy \in Seq(ReceiptKinds)
  BY <1>5, <1>6
<1>7. /\ xy \o z \in Seq(ReceiptKinds) /\ Len(xy \o z) = Len(xy) + Len(z)
      /\ \A i \in 1..(Len(xy) + Len(z)) : (xy \o z)[i] = IF i <= Len(xy) THEN xy[i] ELSE z[i - Len(xy)]
  BY <1>3, ConcatProperties, Zenon
<1>8. kinds \in Seq(ReceiptKinds)
  BY <1>4, <1>6, <1>7
<1>9. DOMAIN kinds = 1..Len(kinds) /\ Len(kinds) = Len(x) + Len(y) + Len(z)
  <2>1. DOMAIN kinds = 1..Len(kinds)
    BY <1>8
  <2>2. Len(kinds) = Len(xy) + Len(z) /\ Len(xy) = Len(x) + Len(y)
    BY <1>4, <1>5, <1>6, <1>7
  <2> QED BY <1>1, <1>2, <1>3, <2>1, <2>2
<1>10. \A i \in DOMAIN kinds :
         /\ kinds[i] \in {"outcome", "improvement", "resolution"}
         /\ kinds[i] = "outcome" <=> ~a /\ i = 1
         /\ kinds[i] = "resolution" <=> c /\ i = Len(x) + Len(y) + 1
  <2> SUFFICES ASSUME NEW i \in DOMAIN kinds
               PROVE  /\ kinds[i] \in {"outcome", "improvement", "resolution"}
                      /\ kinds[i] = "outcome" <=> ~a /\ i = 1
                      /\ kinds[i] = "resolution" <=> c /\ i = Len(x) + Len(y) + 1
    OBVIOUS
  <2>1. i \in Nat /\ 1 <= i /\ i <= Len(x) + Len(y) + Len(z) /\ Len(x) \in {0, 1} /\ Len(y) \in {0, 1} /\ Len(z) \in {0, 1}
    BY <1>1, <1>2, <1>3, <1>9
  <2>2. kinds[i] = IF i <= Len(x) + Len(y) THEN (IF i <= Len(x) THEN x[i] ELSE y[i - Len(x)]) ELSE z[i - (Len(x) + Len(y))]
    <3>1. i \in 1..(Len(xy) + Len(z)) /\ Len(xy) = Len(x) + Len(y)
      BY <1>5, <1>6, <2>1
    <3>2. kinds[i] = IF i <= Len(xy) THEN xy[i] ELSE z[i - Len(xy)]
      BY <1>4, <1>6, <1>7, <3>1
    <3>3. i <= Len(xy) => xy[i] = IF i <= Len(x) THEN x[i] ELSE y[i - Len(x)]
      BY <1>5, <1>6, <2>1, <3>1
    <3> QED BY <3>1, <3>2, <3>3
  <2> QED BY <1>1, <1>2, <1>3, <2>1, <2>2
<1>11. 1 \in DOMAIN kinds <=> ~a \/ b \/ c
  BY <1>1, <1>2, <1>3, <1>9
<1>12. c => Len(x) + Len(y) + 1 \in DOMAIN kinds
  BY <1>1, <1>2, <1>3, <1>9
<1> QED BY <1>8, <1>10, <1>11, <1>12 DEF Says, SaysOnce

\* What is predicted was predicted under the revision of the run.
LEMMA PredictedIs ==
    ASSUME NEW r, trace[r] \in Seq(Receipts), Tells(trace[r], "prediction"),
           NEW v, \A i \in DOMAIN trace[r] : trace[r][i].revision = v
    PROVE  PredictedUnder(r) = v
<1> DEFINE I == {i \in 1..Len(trace[r]) : trace[r][i].kind = "prediction"}
<1>1. Len(trace[r]) \in Nat /\ DOMAIN trace[r] = 1..Len(trace[r])
  OBVIOUS
<1>2. I \subseteq Nat /\ I # {} /\ \A i \in I : i <= Len(trace[r])
  BY <1>1 DEF Tells
<1>3. PICK n \in I : \A i \in I : i <= n
  <2> HIDE DEF I
  <2> QED BY <1>1, <1>2, LastExists
<1>4. Max(I) \in I
  <2>1. \A i \in I : n >= i
    BY <1>2, <1>3
  <2> HIDE DEF I
  <2> QED BY <1>3, <2>1 DEF Max
<1>5. SelectLastInSeq(trace[r], LAMBDA t : t.kind = "prediction") = Max(I)
  BY <1>2 DEF SelectLastInSeq
<1>6. PredictedUnder(r) = trace[r][Max(I)].revision
  BY <1>5 DEF PredictedUnder
<1> QED BY <1>1, <1>4, <1>6

LEMMA EndTold ==
    ASSUME TraceInv, NEW r \in TracedRuns, ran[r].at \in {"over", "again"}, NEW kinds, kinds = EndReceipts(r)
    PROVE  /\ kinds \in Seq(ReceiptKinds) /\ Grown(trace[r], kinds, ran[r].revision, Told(r, kinds))
           /\ Says(kinds, "outcome") <=> ~Tells(trace[r], "outcome")
           /\ Says(kinds, "resolution") <=> ran[r].status = "blocked" /\ ~Tells(trace[r], "resolution")
           /\ ~Says(kinds, "prediction") /\ SaysOnce(kinds, "outcome") /\ SaysOnce(kinds, "resolution")
<1> DEFINE a == OutcomeTold(r)
           b == Proposes(r)
           c == Unresolved(r)
<1>1. a \in BOOLEAN /\ b \in BOOLEAN /\ c \in BOOLEAN
  BY DEF OutcomeTold, Proposes, Unresolved, Tells
<1>2. kinds = Told3(a, b, c)
  BY DEF EndReceipts, Told3
<1>3. a <=> Tells(trace[r], "outcome")
  BY DEF OutcomeTold
<1>4. c <=> ran[r].status = "blocked" /\ ~Tells(trace[r], "resolution")
  BY DEF Unresolved
<1>5. ran[r].at \in LiveTrace
  BY DEF LiveTrace
<1> HIDE DEF a, b, c
<1>6. /\ kinds \in Seq(ReceiptKinds)
      /\ Says(kinds, "outcome") <=> ~a
      /\ Says(kinds, "resolution") <=> c
      /\ ~Says(kinds, "prediction") /\ SaysOnce(kinds, "outcome") /\ SaysOnce(kinds, "resolution")
  BY <1>1, <1>2, EndKinds
<1>7. Grown(trace[r], kinds, ran[r].revision, Told(r, kinds))
  BY <1>5, <1>6, LiveTold
<1> QED BY <1>3, <1>4, <1>6, <1>7

\* What is known when the outcome of r has been recorded
LEMMA LearntIs ==
    ASSUME TraceInv, NEW r \in TracedRuns, ran[r].at \in {"over", "again"}, NEW known, known = Learnt(r)
    PROVE  /\ known = [q \in TracedRuns |-> known[q]]
           /\ \A q \in TracedRuns : known[q] \in Observations /\ (q # r \/ learnt[q] # NothingLearnt => known[q] = learnt[q])
           /\ known[r] # NothingLearnt =>
                /\ ran[r].predicted /\ known[r].revision = ran[r].revision
                /\ IF known[r].score = 1 THEN Won(ran[r]) ELSE Fell(ran[r])
           /\ ran[r].at = "over" /\ ran[r].predicted /\ (Won(ran[r]) \/ Fell(ran[r])) => known[r] # NothingLearnt
           /\ DriftsSound(drifts, known)
           /\ Learns(r) => known[r].revision = PredictedUnder(r)
<1>1. PICK s : s = ran[r]
  OBVIOUS
<1>2. /\ TraceShape /\ DriftsSound(drifts, learnt)
      /\ \A q \in TracedRuns : RunSound(trace[q], ran[q], learnt[q], pins[q], hour)
  BY DEF TraceInv
<1>3. /\ ReceiptsSound(trace[r], s, hour) /\ LearntSound(trace[r], s, learnt[r]) /\ s \in RanValues
      /\ s.at \in {"over", "again"} /\ s.revision \in 1..MaxActive
  BY <1>1, <1>2 DEF RunSound, WaySound
<1>4. \A q \in TracedRuns : learnt[q] \in Observations
  BY <1>2 DEF RunSound, LearntSound
<1>5. ASSUME Learns(r)
      PROVE  /\ learnt[r] = NothingLearnt /\ s.predicted /\ (Fell(s) \/ Won(s))
             /\ known = [learnt EXCEPT ![r] = Observation(r)]
             /\ Observation(r) = [revision |-> s.revision, score |-> IF Fell(s) THEN 0 ELSE 1, at |-> s.updated]
             /\ PredictedUnder(r) = s.revision
  <2>1. ~Tells(trace[r], "outcome") /\ Tells(trace[r], "prediction")
    BY <1>5 DEF Learns, OutcomeTold, Eligible
  <2>2. (Declined(r) <=> Fell(s)) /\ (Succeeded(r) <=> Won(s))
    BY <1>1 DEF Declined, Succeeded, Fell, Won
  <2>3. PredictedUnder(r) = s.revision
    BY <1>3, <2>1, PredictedIs DEF ReceiptsSound
  <2>4. Observation(r) = [revision |-> s.revision, score |-> IF Fell(s) THEN 0 ELSE 1, at |-> s.updated]
    BY <1>1, <2>2, <2>3 DEF Observation
  <2>5. learnt[r] = NothingLearnt /\ s.predicted
    BY <1>3, <2>1 DEF LearntSound, ReceiptsSound
  <2>6. Fell(s) \/ Won(s)
    BY <1>5, <2>2 DEF Learns, Eligible
  <2>7. known = [learnt EXCEPT ![r] = Observation(r)]
    BY <1>5 DEF Learnt
  <2> QED BY <2>3, <2>4, <2>5, <2>6, <2>7
<1>6. CASE Learns(r)
  <2>1. /\ known = [q \in TracedRuns |-> known[q]] /\ \A q \in TracedRuns : q # r => known[q] = learnt[q]
        /\ known[r] = [revision |-> s.revision, score |-> IF Fell(s) THEN 0 ELSE 1, at |-> s.updated]
    BY <1>2, <1>5, <1>6 DEF TraceShape
  <2>2. known[r] \in Observations /\ known[r].revision = s.revision /\ known[r] # NothingLearnt
    <3>1. s.revision \in 0..MaxActive /\ s.updated \in 0..MaxHour /\ s.revision # 0
      BY <1>3, TraceAssumption DEF RanValues
    <3>2. NothingLearnt.revision = 0
      BY DEF NothingLearnt
    <3> QED BY <2>1, <3>1, <3>2 DEF Observations
  <2>3. IF known[r].score = 1 THEN Won(s) ELSE Fell(s)
    BY <1>5, <1>6, <2>1
  <2>4. ASSUME NEW v \in 1..MaxActive, NEW q \in TracedRuns, drifts[v][q] # "none" PROVE known[q].revision = v
    <3>1. learnt[q].revision = v
      BY <1>2, <2>4 DEF DriftsSound
    <3>2. q # r
      BY <1>5, <1>6, <3>1 DEF NothingLearnt
    <3> QED BY <2>1, <3>1, <3>2
  <2>5. DriftsSound(drifts, known)
    BY <1>2, <2>4 DEF DriftsSound
  <2> QED BY <1>1, <1>4, <1>5, <1>6, <2>1, <2>2, <2>3, <2>5
<1>7. CASE ~Learns(r)
  <2>1. known = learnt
    BY <1>7 DEF Learnt
  <2>2. ASSUME s.at = "over", s.predicted, Won(s) \/ Fell(s) PROVE FALSE
    <3>1. ~Tells(trace[r], "outcome") /\ Tells(trace[r], "prediction")
      BY <1>3, <2>2 DEF ReceiptsSound
    <3>2. (Declined(r) <=> Fell(s)) /\ (Succeeded(r) <=> Won(s))
      BY <1>1 DEF Declined, Succeeded, Fell, Won
    <3> QED BY <1>7, <2>2, <3>1, <3>2 DEF Learns, OutcomeTold, Eligible
  <2>3. learnt = [q \in TracedRuns |-> learnt[q]]
    BY <1>2 DEF TraceShape
  <2>4. learnt[r] # NothingLearnt =>
          /\ s.predicted /\ learnt[r].revision = s.revision
          /\ IF learnt[r].score = 1 THEN Won(s) ELSE Fell(s)
    BY <1>3 DEF LearntSound
  <2> QED BY <1>1, <1>2, <1>4, <1>7, <2>1, <2>2, <2>3, <2>4
<1> QED BY <1>6, <1>7

\* A proposal is of the revision in force, where there was none open.
LEMMA DriftsAre ==
    ASSUME TraceInv, NEW r \in TracedRuns, ran[r].at \in {"over", "again"}, NEW known, known = Learnt(r)
    PROVE  DriftsSound(Drifts(r), known)
<1>1. /\ \A q \in TracedRuns : known[q] \in Observations
      /\ DriftsSound(drifts, known) /\ (Learns(r) => known[r].revision = PredictedUnder(r))
  BY LearntIs
<1>2. activeRevision \in 1..MaxActive
  BY DEF TraceInv, TraceShape
<1>3. CASE ~Proposes(r)
  BY <1>1, <1>3 DEF Drifts
<1>4. CASE Proposes(r)
  <2>1. Learns(r) /\ PredictedUnder(r) = activeRevision /\ ~Open(activeRevision)
    BY <1>4 DEF Proposes
  <2>2. PICK w : w = LastObserved(known, activeRevision)
    OBVIOUS
  <2>3. Drifts(r) = [drifts EXCEPT ![activeRevision][w] = "proposed"]
    BY <1>4, <2>2 DEF Drifts
  <2>4. r \in ObservedUnder(known, activeRevision)
    BY <1>1, <2>1 DEF ObservedUnder
  <2>5. w \in ObservedUnder(known, activeRevision)
    BY <1>1, <2>2, <2>4, LastObservedIs
  <2>6. w \in TracedRuns /\ known[w].revision = activeRevision
    BY <2>5 DEF ObservedUnder
  <2>7. \A q \in TracedRuns : drifts[activeRevision][q] \notin {"proposed", "approved"}
    BY <2>1 DEF Open
  <2>8. PICK ds : ds = Drifts(r)
    OBVIOUS
  <2>9. /\ ds \in [1..MaxActive -> [TracedRuns -> {"none", "proposed", "approved", "rejected", "applied"}]]
        /\ \A v \in 1..MaxActive, q \in TracedRuns :
             ds[v][q] = IF v = activeRevision /\ q = w THEN "proposed" ELSE drifts[v][q]
    BY <1>1, <1>2, <2>3, <2>6, <2>8 DEF DriftsSound
  <2>10. ASSUME NEW v \in 1..MaxActive
         PROVE  /\ \A q, p \in TracedRuns : ds[v][q] \in {"proposed", "approved"} /\ ds[v][p] \in {"proposed", "approved"} => q = p
                /\ \A q \in TracedRuns : ds[v][q] # "none" => known[q].revision = v
    BY <1>1, <2>6, <2>7, <2>9 DEF DriftsSound
  <2> QED BY <2>8, <2>9, <2>10 DEF DriftsSound
<1> QED BY <1>3, <1>4

LEMMA FinishKeepsTraces ==
    ASSUME TraceInv, NEW r \in TracedRuns, FinishRun(r)
    PROVE  TraceInv'
<1>1. PICK s : s = ran[r]
  OBVIOUS
<1>2. PICK kinds : kinds = EndReceipts(r)
  OBVIOUS
<1>3. PICK known : known = Learnt(r)
  OBVIOUS
<1>4. /\ s.at \in {"over", "again"} /\ trace' = [trace EXCEPT ![r] = Told(r, kinds)]
      /\ learnt' = known /\ drifts' = Drifts(r) /\ ran' = [ran EXCEPT ![r].at = "finished"]
      /\ pins' = IF s.status = "paused" THEN pins ELSE [pins EXCEPT ![r] = NoPin]
      /\ UNCHANGED <<activeRevision, hour>>
  BY <1>1, <1>2, <1>3 DEF FinishRun
<1>5. /\ TraceShape /\ RunSound(trace[r], s, learnt[r], pins[r], hour) /\ hour \in 1..MaxHour
  BY <1>1 DEF TraceInv, TraceShape
<1>6. /\ s \in RanValues /\ s.at \in LiveTrace /\ WaySound(s, pins[r]) /\ ReceiptsSound(trace[r], s, hour)
  BY <1>4, <1>5 DEF RunSound, WaySound, LiveTrace
<1>7. /\ Grown(trace[r], kinds, s.revision, Told(r, kinds))
      /\ Says(kinds, "outcome") <=> ~Tells(trace[r], "outcome")
      /\ Says(kinds, "resolution") <=> s.status = "blocked" /\ ~Tells(trace[r], "resolution")
      /\ ~Says(kinds, "prediction") /\ SaysOnce(kinds, "outcome") /\ SaysOnce(kinds, "resolution")
  BY <1>1, <1>2, <1>4, EndTold
<1>8. /\ known = [q \in TracedRuns |-> known[q]]
      /\ \A q \in TracedRuns : known[q] \in Observations /\ (q # r => known[q] = learnt[q])
      /\ known[r] # NothingLearnt =>
           /\ s.predicted /\ known[r].revision = s.revision
           /\ IF known[r].score = 1 THEN Won(s) ELSE Fell(s)
      /\ s.at = "over" /\ s.predicted /\ (Won(s) \/ Fell(s)) => known[r] # NothingLearnt
  BY <1>1, <1>3, <1>4, LearntIs
<1>9. PICK z : z = ran'[r]
  OBVIOUS
<1>10. /\ z \in RanValues /\ z.revision = s.revision /\ z.other = s.other /\ z.slipped = s.slipped
       /\ z.at = "finished" /\ z.predicted = s.predicted /\ z.personal = s.personal /\ z.status = s.status
       /\ z.passed = s.passed /\ z.gateFailed = s.gateFailed /\ z.thrown = s.thrown
  <2>1. z = [s EXCEPT !.at = "finished"]
    BY <1>1, <1>4, <1>5, <1>9 DEF TraceShape
  <2> QED BY <1>6, <2>1 DEF RanValues, Stages
<1>11. PICK new : new = trace'[r]
  OBVIOUS
<1>12. new = Told(r, kinds)
  BY <1>4, <1>5, <1>11 DEF TraceShape
<1>13. Tells(new, "outcome")
  BY <1>7, <1>12 DEF Grown
<1>14. ReceiptsSound(new, z, hour)
  <2>1. z.predicted <=> Tells(trace[r], "prediction") \/ Says(kinds, "prediction")
    BY <1>6, <1>7, <1>10 DEF ReceiptsSound
  <2> QED BY <1>6, <1>7, <1>10, <1>12, <2>1, GrownSound
<1>15. LearntSound(new, z, known[r])
  <2>1. z.at = "finished" /\ ~z.thrown => s.at = "over"
    BY <1>4, <1>6, <1>10 DEF WaySound
  <2>2. (Won(z) <=> Won(s)) /\ (Fell(z) <=> Fell(s))
    BY <1>10 DEF Won, Fell
  <2> QED BY <1>8, <1>10, <1>13, <2>1, <2>2 DEF LearntSound
<1>16. pins'[r] \in PinValues
  <2>1. NoPin \in PinValues
    BY TraceAssumption DEF NoPin, PinValues
  <2>2. pins'[r] = pins[r] \/ pins'[r] = NoPin
    BY <1>4, <1>5 DEF TraceShape
  <2> QED BY <1>6, <2>1, <2>2 DEF WaySound
<1>17. WaySound(z, pins'[r])
  BY <1>4, <1>6, <1>10, <1>16 DEF WaySound, LiveTrace
<1>18. RunSound(new, z, known[r], pins'[r], hour)
  BY <1>10, <1>14, <1>15, <1>17 DEF RunSound
<1>19. TraceShape'
  BY <1>4, <1>5, <1>8 DEF TraceShape
<1>20. \A q \in TracedRuns \ {r} : trace'[q] = trace[q] /\ ran'[q] = ran[q] /\ learnt'[q] = learnt[q] /\ pins'[q] = pins[q]
  BY <1>4, <1>5, <1>8 DEF TraceShape
<1>21. DriftsSound(drifts', learnt')
  BY <1>1, <1>3, <1>4, DriftsAre
<1> QED BY <1>4, <1>9, <1>11, <1>18, <1>19, <1>20, <1>21, OneRun

LEMMA ThrowsKeepsTraces ==
    ASSUME TraceInv, NEW r \in TracedRuns, NEW written \in {"nothing", "outcome", "observation", "trace"},
           RunFinishThrows(r, written)
    PROVE  TraceInv'
<1>1. PICK s : s = ran[r]
  OBVIOUS
<1>2. PICK kinds : kinds = CASE written = "nothing" -> <<>>
                             [] written \in {"outcome", "observation"} -> <<"outcome">>
                             [] written = "trace" -> EndReceipts(r)
  OBVIOUS
<1>3. PICK known : known = IF written \in {"observation", "trace"} THEN Learnt(r) ELSE learnt
  OBVIOUS
<1>4. PICK new : new = IF written = "nothing" THEN trace[r] ELSE Told(r, kinds)
  OBVIOUS
<1>5. /\ s.at = "over" /\ trace' = [trace EXCEPT ![r] = new] /\ learnt' = known
      /\ drifts' = (IF written = "trace" THEN Drifts(r) ELSE drifts)
      /\ ran' = [ran EXCEPT ![r].at = "again", ![r].thrown = TRUE]
      /\ UNCHANGED <<pins, activeRevision, hour>>
  <2>1. /\ s.at = "over" /\ learnt' = known
        /\ drifts' = (IF written = "trace" THEN Drifts(r) ELSE drifts)
        /\ ran' = [ran EXCEPT ![r].at = "again", ![r].thrown = TRUE]
        /\ UNCHANGED <<pins, activeRevision, hour>>
    BY <1>1, <1>3 DEF RunFinishThrows
  <2>2. trace' = [trace EXCEPT ![r] = CASE written = "nothing" -> trace[r]
                                        [] written \in {"outcome", "observation"} -> Told(r, <<"outcome">>)
                                        [] written = "trace" -> Told(r, EndReceipts(r))]
    BY DEF RunFinishThrows
  <2>3. new = CASE written = "nothing" -> trace[r]
                [] written \in {"outcome", "observation"} -> Told(r, <<"outcome">>)
                [] written = "trace" -> Told(r, EndReceipts(r))
    <3>1. CASE written = "nothing"
      BY <1>4, <3>1
    <3>2. CASE written \in {"outcome", "observation"}
      BY <1>2, <1>4, <3>2
    <3>3. CASE written = "trace"
      BY <1>2, <1>4, <3>3
    <3> QED BY <3>1, <3>2, <3>3
  <2> QED BY <2>1, <2>2, <2>3
<1>6. /\ TraceShape /\ RunSound(trace[r], s, learnt[r], pins[r], hour) /\ hour \in 1..MaxHour /\ DriftsSound(drifts, learnt)
  BY <1>1 DEF TraceInv, TraceShape
<1>7. /\ s \in RanValues /\ s.at \in LiveTrace /\ WaySound(s, pins[r]) /\ ReceiptsSound(trace[r], s, hour)
      /\ LearntSound(trace[r], s, learnt[r])
  BY <1>5, <1>6 DEF RunSound, WaySound, LiveTrace
<1>8. ~Tells(trace[r], "outcome") /\ (Tells(trace[r], "prediction") <=> s.predicted)
  BY <1>5, <1>7 DEF ReceiptsSound
<1>9. PICK z : z = ran'[r]
  OBVIOUS
<1>10. /\ z \in RanValues /\ z.revision = s.revision /\ z.other = s.other /\ z.slipped = s.slipped
       /\ z.at = "again" /\ z.predicted = s.predicted /\ z.personal = s.personal /\ z.status = s.status
       /\ z.passed = s.passed /\ z.gateFailed = s.gateFailed /\ z.thrown = TRUE
  <2>1. z = [s EXCEPT !.at = "again", !.thrown = TRUE]
    BY <1>1, <1>5, <1>6, <1>9 DEF TraceShape
  <2> QED BY <1>7, <2>1 DEF RanValues, Stages
<1>11. ReceiptsSound(new, z, hour) /\ (written # "nothing" => Tells(new, "outcome"))
  <2>1. CASE written = "nothing"
    <3>1. new = trace[r]
      BY <1>4, <2>1
    <3> QED BY <1>5, <1>7, <1>10, <2>1, <3>1 DEF ReceiptsSound, LiveTrace
  <2>2. CASE written # "nothing"
    <3>1. /\ Grown(trace[r], kinds, s.revision, new) /\ Says(kinds, "outcome")
          /\ Says(kinds, "resolution") => ~Tells(trace[r], "resolution")
          /\ ~Says(kinds, "prediction") /\ SaysOnce(kinds, "outcome") /\ SaysOnce(kinds, "resolution")
      <4>1. new = Told(r, kinds)
        BY <1>4, <2>2
      <4>2. CASE written \in {"outcome", "observation"}
        <5>1. kinds = <<"outcome">>
          BY <1>2, <4>2
        <5>2. kinds \in Seq(ReceiptKinds) /\ (\A k : Says(kinds, k) <=> k = "outcome") /\ (\A k : SaysOnce(kinds, k))
          BY <5>1, OneKind DEF ReceiptKinds
        <5>3. Grown(trace[r], kinds, s.revision, new)
          BY <1>1, <1>7, <4>1, <5>2, LiveTold
        <5> QED BY <5>2, <5>3
      <4>3. CASE written = "trace"
        <5>1. kinds = EndReceipts(r)
          BY <1>2, <4>3
        <5> QED BY <1>1, <1>5, <1>8, <4>1, <5>1, EndTold
      <4> QED BY <2>2, <4>2, <4>3
    <3>2. z.predicted <=> Tells(trace[r], "prediction") \/ Says(kinds, "prediction")
      BY <1>8, <1>10, <3>1
    <3>3. ReceiptsSound(new, z, hour)
      BY <1>7, <1>8, <1>10, <3>1, <3>2, GrownSound
    <3>4. Tells(new, "outcome")
      BY <3>1 DEF Grown
    <3> QED BY <3>3, <3>4
  <2> QED BY <2>1, <2>2
<1>12. /\ known = [q \in TracedRuns |-> known[q]] /\ known[r] \in Observations
       /\ \A q \in TracedRuns : q # r => known[q] = learnt[q]
       /\ known[r] # NothingLearnt =>
            /\ Tells(new, "outcome") /\ s.predicted /\ known[r].revision = s.revision
            /\ IF known[r].score = 1 THEN Won(s) ELSE Fell(s)
       /\ DriftsSound(drifts, known)
  <2>1. CASE written \in {"observation", "trace"}
    <3>1. known = Learnt(r) /\ written # "nothing"
      BY <1>3, <2>1
    <3> QED BY <1>1, <1>5, <1>11, <3>1, LearntIs
  <2>2. CASE written \notin {"observation", "trace"}
    <3>1. known = learnt
      BY <1>3, <2>2
    <3>2. learnt[r] = NothingLearnt /\ learnt[r] \in Observations
      BY <1>7, <1>8 DEF LearntSound
    <3> QED BY <1>6, <3>1, <3>2 DEF TraceShape
  <2> QED BY <2>1, <2>2
<1>13. LearntSound(new, z, known[r])
  <2>1. (Won(z) <=> Won(s)) /\ (Fell(z) <=> Fell(s))
    BY <1>10 DEF Won, Fell
  <2> QED BY <1>10, <1>12, <2>1 DEF LearntSound
<1>14. WaySound(z, pins[r])
  BY <1>5, <1>7, <1>10 DEF WaySound, LiveTrace
<1>15. RunSound(new, z, known[r], pins[r], hour)
  BY <1>10, <1>11, <1>13, <1>14 DEF RunSound
<1>16. TraceShape'
  BY <1>5, <1>6, <1>12 DEF TraceShape
<1>17. \A q \in TracedRuns \ {r} : trace'[q] = trace[q] /\ ran'[q] = ran[q] /\ learnt'[q] = learnt[q] /\ pins'[q] = pins[q]
  BY <1>5, <1>6, <1>12 DEF TraceShape
<1>18. DriftsSound(drifts', learnt')
  <2>1. CASE written = "trace"
    <3>1. known = Learnt(r)
      BY <1>3, <2>1
    <3> QED BY <1>1, <1>5, <2>1, <3>1, DriftsAre
  <2>2. CASE written # "trace"
    BY <1>5, <1>12, <2>2
  <2> QED BY <2>1, <2>2
<1>19. trace'[r] = new
  BY <1>5, <1>6 DEF TraceShape
<1> QED BY <1>5, <1>9, <1>15, <1>16, <1>17, <1>18, <1>19, OneRun

-----------------------------------------------------------------------------
(* Around the runs                                                           *)

LEMMA DecideKeeps ==
    ASSUME TraceInv, NEW r \in TracedRuns, NEW v \in 1..MaxActive,
           NEW ending \in {"approved", "rejected"}, DecideDrift(v, r, ending)
    PROVE  TraceInv'
<1>1. /\ drifts[v][r] = "proposed" /\ drifts' = [drifts EXCEPT ![v][r] = ending]
      /\ UNCHANGED <<trace, learnt, ran, pins, activeRevision, hour>>
  BY DEF DecideDrift
<1>2. DriftsSound(drifts, learnt)
  BY DEF TraceInv
<1>3. PICK ds : ds = drifts'
  OBVIOUS
<1>4. /\ ds \in [1..MaxActive -> [TracedRuns -> {"none", "proposed", "approved", "rejected", "applied"}]]
      /\ \A w \in 1..MaxActive, q \in TracedRuns : ds[w][q] = IF w = v /\ q = r THEN ending ELSE drifts[w][q]
  BY <1>1, <1>2, <1>3 DEF DriftsSound
<1>5. \A w \in 1..MaxActive, q \in TracedRuns :
        /\ ds[w][q] \in {"proposed", "approved"} => drifts[w][q] \in {"proposed", "approved"}
        /\ ds[w][q] # "none" => drifts[w][q] # "none"
  BY <1>1, <1>4
<1>6. DriftsSound(ds, learnt)
  BY <1>2, <1>4, <1>5 DEF DriftsSound
<1> QED BY <1>1, <1>3, <1>6 DEF TraceInv, TraceShape

LEMMA ApplyKeeps ==
    ASSUME TraceInv, NEW r \in TracedRuns, NEW v \in 1..MaxActive, ApplyDrift(v, r)
    PROVE  TraceInv'
<1>1. /\ drifts[v][r] = "approved" /\ drifts' = [drifts EXCEPT ![v][r] = "applied"]
      /\ activeRevision < MaxActive /\ activeRevision' = activeRevision + 1
      /\ UNCHANGED <<trace, learnt, ran, pins, hour>>
  BY DEF ApplyDrift
<1>2. DriftsSound(drifts, learnt)
  BY DEF TraceInv
<1>3. PICK ds : ds = drifts'
  OBVIOUS
<1>4. /\ ds \in [1..MaxActive -> [TracedRuns -> {"none", "proposed", "approved", "rejected", "applied"}]]
      /\ \A w \in 1..MaxActive, q \in TracedRuns : ds[w][q] = IF w = v /\ q = r THEN "applied" ELSE drifts[w][q]
  BY <1>1, <1>2, <1>3 DEF DriftsSound
<1>5. \A w \in 1..MaxActive, q \in TracedRuns :
        /\ ds[w][q] \in {"proposed", "approved"} => drifts[w][q] \in {"proposed", "approved"}
        /\ ds[w][q] # "none" => drifts[w][q] # "none"
  BY <1>1, <1>4
<1>6. DriftsSound(ds, learnt)
  BY <1>2, <1>4, <1>5 DEF DriftsSound
<1>7. activeRevision' \in 1..MaxActive
  BY <1>1, TraceAssumption DEF TraceInv, TraceShape
<1> QED BY <1>1, <1>3, <1>6, <1>7 DEF TraceInv, TraceShape

LEMMA ReviseKeeps ==
    ASSUME TraceInv, Revise
    PROVE  TraceInv'
<1>1. activeRevision' \in 1..MaxActive
  BY TraceAssumption DEF TraceInv, TraceShape, Revise
<1> QED BY <1>1 DEF TraceInv, TraceShape, Revise

\* A later hour dates nothing after itself.
LEMMA LaterSound ==
    ASSUME NEW t, NEW s, NEW l, NEW p, NEW h \in 1..MaxHour, NEW later \in 1..MaxHour, h <= later, RunSound(t, s, l, p, h)
    PROVE  RunSound(t, s, l, p, later)
<1>1. t \in Seq(Receipts) /\ \A i \in DOMAIN t : t[i].at \in Nat
  <2>1. t \in Seq(Receipts)
    BY DEF RunSound, ReceiptsSound
  <2>2. \A i \in DOMAIN t : t[i] \in Receipts
    BY <2>1
  <2> QED BY <2>1, <2>2 DEF Receipts
<1>2. \A i \in DOMAIN t : t[i].at <= h => t[i].at <= later
  BY <1>1, TraceAssumption
<1>3. ReceiptsSound(t, s, later)
  BY <1>2 DEF RunSound, ReceiptsSound
<1> QED BY <1>3 DEF RunSound

LEMMA HourKeeps ==
    ASSUME TraceInv, HourPasses
    PROVE  TraceInv'
<1>1. hour \in 1..MaxHour /\ hour' \in 1..MaxHour /\ hour <= hour'
  BY TraceAssumption DEF TraceInv, TraceShape, HourPasses
<1>2. UNCHANGED <<trace, learnt, drifts, ran, pins, activeRevision>>
  BY DEF HourPasses
<1>3. \A r \in TracedRuns : RunSound(trace[r], ran[r], learnt[r], pins[r], hour)
  BY DEF TraceInv
<1>4. PICK later : later = hour'
  OBVIOUS
<1>5. \A r \in TracedRuns : RunSound(trace[r], ran[r], learnt[r], pins[r], later)
  BY <1>1, <1>3, <1>4, LaterSound
<1> QED BY <1>1, <1>2, <1>4, <1>5 DEF TraceInv, TraceShape

\* A run that the clock is set back under has slipped; one that is over has not
\* got any receipt any more.
LEMMA SetBackKeeps ==
    ASSUME TraceInv, HourSetBack
    PROVE  TraceInv'
<1>1. hour \in 1..MaxHour /\ hour' \in 1..MaxHour
  BY TraceAssumption DEF TraceInv, TraceShape, HourSetBack
<1>2. /\ UNCHANGED <<trace, learnt, drifts, pins, activeRevision>>
      /\ ran' = [r \in TracedRuns |-> [ran[r] EXCEPT !.slipped = @ \/ ran[r].at \in LiveTrace]]
  BY DEF HourSetBack
<1>3. ASSUME NEW r \in TracedRuns PROVE RunSound(trace[r], ran'[r], learnt[r], pins[r], hour')
  <2>1. PICK s : s = ran[r]
    OBVIOUS
  <2>2. PICK z : z = ran'[r]
    OBVIOUS
  <2>3. RunSound(trace[r], s, learnt[r], pins[r], hour)
    BY <2>1 DEF TraceInv
  <2>4. z = [s EXCEPT !.slipped = @ \/ s.at \in LiveTrace]
    BY <1>2, <2>1, <2>2
  <2>5. s \in RanValues
    BY <2>3 DEF RunSound, WaySound
  <2>6. /\ z \in RanValues /\ z.revision = s.revision /\ z.other = s.other /\ z.at = s.at
        /\ z.predicted = s.predicted /\ z.personal = s.personal /\ z.status = s.status
        /\ z.passed = s.passed /\ z.gateFailed = s.gateFailed /\ z.thrown = s.thrown
        /\ ~z.slipped => ~s.slipped /\ z.at \notin LiveTrace
    <3>1. s.slipped \in BOOLEAN /\ (s.slipped \/ s.at \in LiveTrace) \in BOOLEAN
      BY <2>5 DEF RanValues
    <3> QED BY <2>4, <2>5, <3>1 DEF RanValues
  <2>7. ReceiptsSound(trace[r], z, hour')
    BY <2>3, <2>6 DEF RunSound, ReceiptsSound
  <2>8. LearntSound(trace[r], z, learnt[r])
    BY <2>3, <2>6 DEF RunSound, LearntSound, Won, Fell
  <2>9. WaySound(z, pins[r])
    BY <2>3, <2>6 DEF RunSound, WaySound
  <2> QED BY <2>2, <2>3, <2>6, <2>7, <2>8, <2>9 DEF RunSound
<1> QED BY <1>1, <1>2, <1>3 DEF TraceInv, TraceShape

LEMMA TraceRestartKeeps ==
    ASSUME TraceInv, RestartTrace
    PROVE  TraceInv'
<1>1. /\ UNCHANGED <<trace, learnt, drifts, activeRevision, hour>> /\ pins' = [r \in TracedRuns |-> NoPin]
      /\ ran' = [r \in TracedRuns |-> IF ran[r].at \in LiveTrace THEN [ran[r] EXCEPT !.at = "lost"] ELSE ran[r]]
  BY DEF RestartTrace
<1>2. ASSUME NEW r \in TracedRuns PROVE RunSound(trace[r], ran'[r], learnt[r], NoPin, hour)
  <2>1. PICK s : s = ran[r]
    OBVIOUS
  <2>2. PICK z : z = ran'[r]
    OBVIOUS
  <2>3. RunSound(trace[r], s, learnt[r], pins[r], hour)
    BY <2>1 DEF TraceInv
  <2>4. z = IF s.at \in LiveTrace THEN [s EXCEPT !.at = "lost"] ELSE s
    BY <1>1, <2>1, <2>2
  <2>5. s \in RanValues /\ NoPin \in PinValues
    BY <2>3, TraceAssumption DEF RunSound, WaySound, NoPin, PinValues
  <2>6. /\ z \in RanValues /\ z.revision = s.revision /\ z.other = s.other /\ z.slipped = s.slipped
        /\ z.predicted = s.predicted /\ z.personal = s.personal /\ z.status = s.status
        /\ z.passed = s.passed /\ z.gateFailed = s.gateFailed /\ z.thrown = s.thrown
        /\ z.at = (IF s.at \in LiveTrace THEN "lost" ELSE s.at)
    <3>1. CASE s.at \in LiveTrace
      <4>1. z = [s EXCEPT !.at = "lost"]
        BY <2>4, <3>1
      <4> QED BY <2>5, <3>1, <4>1 DEF RanValues, Stages
    <3>2. CASE s.at \notin LiveTrace
      BY <2>4, <2>5, <3>2
    <3> QED BY <3>1, <3>2
  <2>7. z.at \notin LiveTrace /\ (z.at # "lost" => z.at = s.at)
    BY <2>6 DEF LiveTrace
  <2>8. ReceiptsSound(trace[r], z, hour)
    BY <2>3, <2>6, <2>7 DEF RunSound, ReceiptsSound, LiveTrace
  <2>9. LearntSound(trace[r], z, learnt[r])
    BY <2>3, <2>6 DEF RunSound, LearntSound, Won, Fell
  <2>10. WaySound(z, NoPin)
    BY <2>3, <2>5, <2>6 DEF RunSound, WaySound, LiveTrace
  <2>11. z.at = "none" => trace[r] = <<>>
    BY <2>3, <2>6 DEF RunSound
  <2> QED BY <2>2, <2>8, <2>9, <2>10, <2>11 DEF RunSound
<1> QED BY <1>1, <1>2 DEF TraceInv, TraceShape

LEMMA TraceKept ==
    ASSUME TraceInv, [TraceNext]_traceVars
    PROVE  TraceInv'
<1>1. CASE UNCHANGED traceVars
  BY <1>1 DEF TraceInv, TraceShape, traceVars
<1>2. CASE TraceNext
  <2>1. ASSUME NEW r \in TracedRuns, \E voice \in Hints, face \in FaceHints : Begin(r, voice, face) PROVE TraceInv'
    BY <2>1, BeginKeeps
  <2>2. ASSUME NEW r \in TracedRuns, \E way \in DOMAIN PlanReceipts : Plan(r, way) PROVE TraceInv'
    BY <2>2, PlanKeeps
  <2>3. ASSUME NEW r \in TracedRuns, \E kind \in {"authority", "approval", "passed", "gateFailed"} : Note(r, kind) PROVE TraceInv'
    BY <2>3, NoteKeeps
  <2>4. ASSUME NEW r \in TracedRuns, \E ending \in {"completed", "failed", "blocked", "cancelled", "paused"} : End(r, ending)
        PROVE  TraceInv'
    BY <2>4, EndKeeps
  <2>5. ASSUME NEW r \in TracedRuns, FinishRun(r) PROVE TraceInv'
    BY <2>5, FinishKeepsTraces
  <2>6. ASSUME NEW r \in TracedRuns, \E written \in {"nothing", "outcome", "observation", "trace"} : RunFinishThrows(r, written)
        PROVE  TraceInv'
    BY <2>6, ThrowsKeepsTraces
  <2>7. ASSUME NEW r \in TracedRuns, \E v \in 1..MaxActive, ending \in {"approved", "rejected"} : DecideDrift(v, r, ending)
        PROVE  TraceInv'
    BY <2>7, DecideKeeps
  <2>8. ASSUME NEW r \in TracedRuns, \E v \in 1..MaxActive : ApplyDrift(v, r) PROVE TraceInv'
    BY <2>8, ApplyKeeps
  <2> QED BY <1>2, <2>1, <2>2, <2>3, <2>4, <2>5, <2>6, <2>7, <2>8, ReviseKeeps, HourKeeps, SetBackKeeps, TraceRestartKeeps
          DEF TraceNext
<1> QED BY <1>1, <1>2

-----------------------------------------------------------------------------
(* The start: runs that succeeded before, and runs at work                   *)

LEMMA ChainedIs ==
    ASSUME NEW kinds \in Seq(ReceiptKinds), NEW t, t = Chained(kinds)
    PROVE  /\ t \in Seq(Receipts) /\ Straight(t)
           /\ \A i \in DOMAIN t : t[i].revision = 1 /\ t[i].at = 1
           /\ \A kind : (Tells(t, kind) <=> Says(kinds, kind)) /\ (SaysOnce(kinds, kind) => Once(t, kind))
<1>1. DOMAIN kinds = 1..Len(kinds) /\ Len(kinds) \in Nat /\ \A i \in DOMAIN kinds : kinds[i] \in ReceiptKinds
  OBVIOUS
<1>2. DOMAIN t = DOMAIN kinds /\ \A i \in DOMAIN kinds : t[i] = [kind |-> kinds[i], revision |-> 1, at |-> 1, previous |-> i - 1]
  BY DEF Chained
<1>3. \A i \in DOMAIN t : t[i] \in Receipts
  <2> SUFFICES ASSUME NEW i \in DOMAIN t PROVE t[i] \in Receipts
    OBVIOUS
  <2>1. 1 \in 1..MaxActive /\ 1 \in 1..MaxHour /\ i - 1 \in Nat
    BY <1>1, <1>2, TraceAssumption
  <2> QED BY <1>1, <1>2, <2>1 DEF Receipts
<1>4. t \in Seq(Receipts)
  <2>1. t = [i \in 1..Len(kinds) |-> t[i]]
    BY <1>1 DEF Chained
  <2> QED BY <1>1, <1>2, <1>3, <2>1
<1>5. \A i \in DOMAIN t : t[i].kind = kinds[i] /\ t[i].revision = 1 /\ t[i].at = 1 /\ t[i].previous = i - 1
  BY <1>2
<1>6. Straight(t)
  BY <1>5 DEF Straight
<1>7. \A kind : (Tells(t, kind) <=> Says(kinds, kind)) /\ (SaysOnce(kinds, kind) => Once(t, kind))
  BY <1>2, <1>5 DEF Tells, Says, SaysOnce, Once
<1> QED BY <1>4, <1>5, <1>6, <1>7

\* What two sequences in a row hold
LEMMA Joined ==
    ASSUME NEW S, NEW x \in Seq(S), NEW y \in Seq(S)
    PROVE  /\ x \o y \in Seq(S) /\ Len(x \o y) = Len(x) + Len(y)
           /\ \A i \in 1..Len(x) : (x \o y)[i] = x[i]
           /\ \A k \in 1..Len(y) : (x \o y)[Len(x) + k] = y[k]
<1>1. /\ x \o y \in Seq(S) /\ Len(x \o y) = Len(x) + Len(y)
      /\ \A i \in 1..(Len(x) + Len(y)) : (x \o y)[i] = IF i <= Len(x) THEN x[i] ELSE y[i - Len(x)]
  BY ConcatProperties, Zenon
<1>2. PICK z : z = x \o y
  OBVIOUS
<1>3. \A i \in 1..(Len(x) + Len(y)) : z[i] = IF i <= Len(x) THEN x[i] ELSE y[i - Len(x)]
  BY <1>1, <1>2
<1>4. Len(x) \in Nat /\ Len(y) \in Nat
  OBVIOUS
<1>5. \A k \in 1..Len(y) : Len(x) + k \in 1..(Len(x) + Len(y)) /\ ~(Len(x) + k <= Len(x)) /\ (Len(x) + k) - Len(x) = k
  BY <1>4
<1>6. \A i \in 1..Len(x) : i \in 1..(Len(x) + Len(y)) /\ i <= Len(x)
  BY <1>4
<1>7. \A k \in 1..Len(y) : z[Len(x) + k] = y[k]
  BY <1>3, <1>5
<1>8. \A i \in 1..Len(x) : z[i] = x[i]
  BY <1>3, <1>6
<1> QED BY <1>1, <1>2, <1>7, <1>8, Zenon

LEMMA PlannedSays ==
    ASSUME NEW planned \in Seq(ReceiptKinds), Len(planned) = 7, NEW told \in Seq(ReceiptKinds), Len(told) = 9,
           planned[1] = "selected", planned[2] = "effort", planned[3] = "worker", planned[4] = "verification",
           planned[5] = "capability", planned[6] = "tool", planned[7] = "prediction",
           \A i \in 1..7 : told[i] = planned[i], told[8] = "passed", told[9] = "outcome"
    PROVE  /\ Says(planned, "prediction") /\ ~Says(planned, "outcome") /\ ~Says(planned, "resolution")
           /\ Says(told, "prediction") /\ Says(told, "outcome") /\ SaysOnce(told, "outcome") /\ ~Says(told, "resolution")
<1>1. DOMAIN planned = 1..7 /\ DOMAIN told = 1..9
  OBVIOUS
<1>2. \A i \in 1..7 : planned[i] \notin {"outcome", "resolution"}
  <2> SUFFICES ASSUME NEW i \in 1..7 PROVE planned[i] \notin {"outcome", "resolution"}
    OBVIOUS
  <2>1. i = 1 \/ i = 2 \/ i = 3 \/ i = 4 \/ i = 5 \/ i = 6 \/ i = 7
    OBVIOUS
  <2> QED BY <2>1
<1>3. \A i \in 1..9 : (told[i] = "outcome" <=> i = 9) /\ told[i] # "resolution"
  <2> SUFFICES ASSUME NEW i \in 1..9 PROVE (told[i] = "outcome" <=> i = 9) /\ told[i] # "resolution"
    OBVIOUS
  <2>1. i \in 1..7 \/ i = 8 \/ i = 9
    OBVIOUS
  <2> QED BY <1>2, <2>1
<1>4. told[7] = "prediction" /\ 7 \in 1..7 /\ 7 \in 1..9 /\ 9 \in 1..9
  OBVIOUS
<1>5. Says(planned, "prediction") /\ ~Says(planned, "outcome") /\ ~Says(planned, "resolution")
  BY <1>1, <1>2, <1>4 DEF Says
<1>6. Says(told, "prediction") /\ Says(told, "outcome") /\ SaysOnce(told, "outcome") /\ ~Says(told, "resolution")
  BY <1>1, <1>3, <1>4 DEF Says, SaysOnce
<1> QED BY <1>5, <1>6

LEMMA PlannedKinds ==
    ASSUME NEW planned, planned = <<"selected", "effort">> \o PlanReceipts.household,
           NEW told, told = planned \o <<"passed", "outcome">>
    PROVE  /\ planned \in Seq(ReceiptKinds) /\ told \in Seq(ReceiptKinds)
           /\ Says(planned, "prediction") /\ ~Says(planned, "outcome") /\ ~Says(planned, "resolution")
           /\ Says(told, "prediction") /\ Says(told, "outcome") /\ SaysOnce(told, "outcome") /\ ~Says(told, "resolution")
<1>1. PICK a : a = <<"selected", "effort">>
  OBVIOUS
<1>2. PICK b : b = <<"worker", "verification", "capability", "tool", "prediction">>
  OBVIOUS
<1>3. PICK c : c = <<"passed", "outcome">>
  OBVIOUS
<1>4. a \in Seq(ReceiptKinds) /\ Len(a) = 2 /\ a[1] = "selected" /\ a[2] = "effort"
  BY <1>1 DEF ReceiptKinds
<1>5. /\ b \in Seq(ReceiptKinds) /\ Len(b) = 5
      /\ b[1] = "worker" /\ b[2] = "verification" /\ b[3] = "capability" /\ b[4] = "tool" /\ b[5] = "prediction"
  BY <1>2 DEF ReceiptKinds
<1>6. c \in Seq(ReceiptKinds) /\ Len(c) = 2 /\ c[1] = "passed" /\ c[2] = "outcome"
  BY <1>3 DEF ReceiptKinds
<1>7. ASSUME NEW x, x = a \o b, NEW y, y = x \o c
      PROVE  /\ x \in Seq(ReceiptKinds) /\ y \in Seq(ReceiptKinds)
             /\ Says(x, "prediction") /\ ~Says(x, "outcome") /\ ~Says(x, "resolution")
             /\ Says(y, "prediction") /\ Says(y, "outcome") /\ SaysOnce(y, "outcome") /\ ~Says(y, "resolution")
  <2> a \in Seq(ReceiptKinds) /\ b \in Seq(ReceiptKinds) /\ c \in Seq(ReceiptKinds)
    BY <1>4, <1>5, <1>6
  <2>1. /\ x \in Seq(ReceiptKinds) /\ Len(x) = Len(a) + Len(b)
        /\ \A i \in 1..Len(a) : x[i] = a[i]
        /\ \A k \in 1..Len(b) : x[Len(a) + k] = b[k]
    <3>1. /\ a \o b \in Seq(ReceiptKinds) /\ Len(a \o b) = Len(a) + Len(b)
          /\ \A i \in 1..Len(a) : (a \o b)[i] = a[i]
          /\ \A k \in 1..Len(b) : (a \o b)[Len(a) + k] = b[k]
      BY Joined
    <3> QED BY <1>7, <3>1, Zenon
  <2> x \in Seq(ReceiptKinds) /\ Len(x) = 7
    BY <1>4, <1>5, <2>1
  <2>2. /\ y \in Seq(ReceiptKinds) /\ Len(y) = Len(x) + Len(c)
        /\ \A i \in 1..Len(x) : y[i] = x[i]
        /\ \A k \in 1..Len(c) : y[Len(x) + k] = c[k]
    <3>1. PICK w : w = x /\ w \in Seq(ReceiptKinds)
      OBVIOUS
    <3>2. /\ w \o c \in Seq(ReceiptKinds) /\ Len(w \o c) = Len(w) + Len(c)
          /\ \A i \in 1..Len(w) : (w \o c)[i] = w[i]
          /\ \A k \in 1..Len(c) : (w \o c)[Len(w) + k] = c[k]
      <4> w \in Seq(ReceiptKinds)
        BY <3>1
      <4> QED BY Joined
    <3> QED BY <1>7, <3>1, <3>2
  <2>3. /\ x[1] = a[1] /\ x[2] = a[2] /\ x[2 + 1] = b[1] /\ x[2 + 2] = b[2] /\ x[2 + 3] = b[3] /\ x[2 + 4] = b[4]
        /\ x[2 + 5] = b[5] /\ y[7 + 1] = c[1] /\ y[7 + 2] = c[2]
    BY <1>4, <1>5, <1>6, <2>1, <2>2
  <2>4. /\ x[1] = "selected" /\ x[2] = "effort" /\ x[3] = "worker" /\ x[4] = "verification"
        /\ x[5] = "capability" /\ x[6] = "tool" /\ x[7] = "prediction" /\ y[8] = "passed" /\ y[9] = "outcome" /\ Len(y) = 9
    BY <1>4, <1>5, <1>6, <2>2, <2>3
  <2>5. \A i \in 1..7 : y[i] = x[i]
    BY <2>2
  <2> QED BY <2>2, <2>4, <2>5, PlannedSays
<1>8. planned = a \o b /\ told = planned \o c
  BY <1>1, <1>2, <1>3 DEF PlanReceipts
<1> QED BY <1>7, <1>8

TraceInit ==
    \E earlier, executing \in SUBSET TracedRuns, revision \in 1..MaxActive, time \in 1..MaxHour, back, restarted \in Nat :
      /\ earlier \cap executing = {}
      /\ TraceFrom(earlier, executing, revision, time, back, restarted)

LEMMA TraceStarts ==
    ASSUME TraceInit
    PROVE  TraceInv
<1>1. PICK earlier \in SUBSET TracedRuns, executing \in SUBSET TracedRuns,
           revision \in 1..MaxActive, time \in 1..MaxHour, back \in Nat, restarted \in Nat :
             earlier \cap executing = {} /\ TraceFrom(earlier, executing, revision, time, back, restarted)
  BY DEF TraceInit
<1> earlier \cap executing = {}
  BY <1>1
<1>2. PICK planned : planned = <<"selected", "effort">> \o PlanReceipts.household
  OBVIOUS
<1>3. PICK told : told = planned \o <<"passed", "outcome">>
  OBVIOUS
<1> DEFINE won == [NotRun EXCEPT !.at = "finished", !.status = "completed", !.revision = 1,
                                 !.predicted = TRUE, !.passed = TRUE, !.updated = 1]
           works == [NotRun EXCEPT !.at = "working", !.revision = 1, !.predicted = TRUE]
           pinned == [NoPin EXCEPT !.revision = 1]
           gain == [revision |-> 1, score |-> 1, at |-> 1]
<1>4. /\ trace = [r \in TracedRuns |-> IF r \in earlier THEN Chained(told) ELSE IF r \in executing THEN Chained(planned) ELSE <<>>]
      /\ ran = [r \in TracedRuns |-> IF r \in earlier THEN won ELSE IF r \in executing THEN works ELSE NotRun]
      /\ learnt = [r \in TracedRuns |-> IF r \in earlier THEN gain ELSE NothingLearnt]
      /\ drifts = [v \in 1..MaxActive |-> [r \in TracedRuns |-> "none"]]
      /\ pins = [r \in TracedRuns |-> IF r \in executing THEN pinned ELSE NoPin]
      /\ activeRevision = revision /\ hour = time
  BY <1>1, <1>2, <1>3 DEF TraceFrom
<1>5. TraceShape
  BY <1>4 DEF TraceShape
<1>6. DriftsSound(drifts, learnt)
  BY <1>4 DEF DriftsSound
<1>7. 1 \in 0..MaxActive /\ 0 \in 0..MaxActive /\ 1 \in 1..MaxActive /\ 1 \in 0..MaxHour /\ 0 \in 0..MaxHour
  BY TraceAssumption
<1>8. NothingLearnt \in Observations /\ gain \in Observations /\ NoPin \in PinValues /\ pinned \in PinValues
  BY <1>7 DEF NothingLearnt, Observations, NoPin, PinValues
<1>9. /\ NotRun \in RanValues /\ NotRun.at = "none" /\ NotRun.status = "none" /\ NotRun.revision = 0 /\ ~NotRun.other /\ ~NotRun.personal
      /\ ~NotRun.predicted /\ ~NotRun.passed /\ ~NotRun.gateFailed /\ ~NotRun.slipped
  BY <1>7 DEF NotRun, RanValues, Stages
<1>10. /\ won \in RanValues /\ won.at = "finished" /\ won.status = "completed" /\ won.revision = 1 /\ ~won.other /\ ~won.personal
       /\ won.predicted /\ won.passed /\ ~won.gateFailed /\ ~won.slipped
  BY <1>7, <1>9 DEF RanValues, Stages
<1>11. /\ works \in RanValues /\ works.at = "working" /\ works.status = "none" /\ works.revision = 1 /\ ~works.other /\ ~works.personal
       /\ works.predicted /\ ~works.passed /\ ~works.gateFailed /\ ~works.slipped
  BY <1>7, <1>9 DEF RanValues, Stages
<1>12. pinned.revision = 1 /\ gain.revision = 1 /\ gain.score = 1
  BY DEF NoPin
<1>13. /\ planned \in Seq(ReceiptKinds) /\ told \in Seq(ReceiptKinds)
       /\ Says(planned, "prediction") /\ ~Says(planned, "outcome") /\ ~Says(planned, "resolution")
       /\ Says(told, "prediction") /\ Says(told, "outcome") /\ SaysOnce(told, "outcome") /\ ~Says(told, "resolution")
  BY <1>2, <1>3, PlannedKinds
<1> HIDE DEF won, works, pinned, gain
<1>14. ASSUME NEW r \in TracedRuns PROVE RunSound(trace[r], ran[r], learnt[r], pins[r], hour)
  <2>1. CASE r \in earlier
    <3>1. PICK t : t = Chained(told)
      OBVIOUS
    <3>2. /\ t \in Seq(Receipts) /\ Straight(t) /\ (\A i \in DOMAIN t : t[i].revision = 1)
          /\ \A kind : (Tells(t, kind) <=> Says(told, kind)) /\ (SaysOnce(told, kind) => Once(t, kind))
      BY <1>13, <3>1, ChainedIs
    <3>3. trace[r] = t /\ ran[r] = won /\ learnt[r] = gain /\ pins[r] = NoPin
      BY <1>4, <2>1, <3>1
    <3>4. Once(t, "resolution")
      BY <1>13, <3>2 DEF Once, Tells
    <3>5. ReceiptsSound(t, won, hour)
      BY <1>10, <1>13, <3>2, <3>4 DEF ReceiptsSound, LiveTrace
    <3>6. LearntSound(t, won, gain)
      BY <1>8, <1>10, <1>12, <1>13, <3>2 DEF LearntSound, NothingLearnt, Won
    <3>7. WaySound(won, NoPin)
      BY <1>7, <1>8, <1>10 DEF WaySound, LiveTrace
    <3> QED BY <1>10, <3>3, <3>5, <3>6, <3>7 DEF RunSound
  <2>2. CASE r \notin earlier /\ r \in executing
    <3>1. PICK t : t = Chained(planned)
      OBVIOUS
    <3>2. /\ t \in Seq(Receipts) /\ Straight(t) /\ (\A i \in DOMAIN t : t[i].revision = 1 /\ t[i].at = 1)
          /\ \A kind : Tells(t, kind) <=> Says(planned, kind)
      BY <1>13, <3>1, ChainedIs
    <3>3. trace[r] = t /\ ran[r] = works /\ learnt[r] = NothingLearnt /\ pins[r] = pinned
      BY <1>4, <2>2, <3>1
    <3>4. Once(t, "resolution") /\ Once(t, "outcome")
      BY <1>13, <3>2 DEF Once, Tells
    <3>5. \A i \in DOMAIN t : t[i].at <= hour
      BY <1>4, <3>2, TraceAssumption
    <3>6. ReceiptsSound(t, works, hour)
      BY <1>11, <1>13, <3>2, <3>4, <3>5 DEF ReceiptsSound
    <3>7. LearntSound(t, works, NothingLearnt)
      BY <1>8, <1>11 DEF LearntSound
    <3>8. WaySound(works, pinned)
      BY <1>7, <1>8, <1>11, <1>12 DEF WaySound
    <3> QED BY <1>11, <3>3, <3>6, <3>7, <3>8 DEF RunSound
  <2>3. CASE r \notin earlier /\ r \notin executing
    <3>1. trace[r] = <<>> /\ ran[r] = NotRun /\ learnt[r] = NothingLearnt /\ pins[r] = NoPin
      BY <1>4, <2>3
    <3>2. ReceiptsSound(<<>>, NotRun, hour)
      <4>1. <<>> \in Seq(Receipts) /\ DOMAIN <<>> = {}
        OBVIOUS
      <4> QED BY <1>9, <4>1 DEF ReceiptsSound, Straight, Once, Tells
    <3>3. LearntSound(<<>>, NotRun, NothingLearnt)
      BY <1>8, <1>9 DEF LearntSound
    <3>4. WaySound(NotRun, NoPin)
      BY <1>8, <1>9 DEF WaySound, LiveTrace
    <3> QED BY <3>1, <3>2, <3>3, <3>4 DEF RunSound
  <2> QED BY <2>1, <2>2, <2>3
<1> QED BY <1>5, <1>6, <1>14 DEF TraceInv

-----------------------------------------------------------------------------
LEMMA AtMostOne ==
    ASSUME NEW S, \A x, y \in S : x = y
    PROVE  Cardinality(S) <= 1 /\ Cardinality(S) \in Nat /\ (S # {} => Cardinality(S) = 1)
<1>1. CASE S = {}
  BY <1>1, FS_EmptySet
<1>2. CASE S # {}
  <2>1. PICK x \in S : TRUE
    BY <1>2
  <2>2. S = {x}
    BY <2>1
  <2>3. Cardinality(S) = 1
    BY <2>2, FS_Singleton
  <2> QED BY <1>2, <2>3
<1> QED BY <1>1, <1>2

LEMMA TraceSays ==
    ASSUME TraceInv
    PROVE  TraceAgrees
<1>1. \A r \in TracedRuns : RunSound(trace[r], ran[r], learnt[r], pins[r], hour)
  BY DEF TraceInv
<1>2. ASSUME NEW r \in TracedRuns
      PROVE  /\ \A i \in DOMAIN trace[r] : trace[r][i].revision = ran[r].revision
             /\ ~ran[r].slipped => Verifies(trace[r])
  BY <1>1, StraightVerifies DEF RunSound, ReceiptsSound
<1>3. ASSUME NEW r \in TracedRuns
      PROVE  LET count(kind) == Cardinality({i \in DOMAIN trace[r] : trace[r][i].kind = kind}) IN
             /\ count("outcome") <= 1 /\ count("resolution") <= 1
             /\ ran[r].at = "finished" =>
                  count("outcome") = 1 /\ (ran[r].status = "blocked" => count("resolution") = 1)
  <2> DEFINE S(kind) == {i \in DOMAIN trace[r] : trace[r][i].kind = kind}
  <2>1. ReceiptsSound(trace[r], ran[r], hour)
    BY <1>1 DEF RunSound
  <2>2. (\A i, j \in S("outcome") : i = j) /\ (\A i, j \in S("resolution") : i = j)
    BY <2>1 DEF ReceiptsSound, Once
  <2>3. ran[r].at = "finished" => S("outcome") # {} /\ (ran[r].status = "blocked" => S("resolution") # {})
    BY <2>1 DEF ReceiptsSound, Tells
  <2>4. /\ Cardinality(S("outcome")) <= 1 /\ (S("outcome") # {} => Cardinality(S("outcome")) = 1)
        /\ Cardinality(S("resolution")) <= 1 /\ (S("resolution") # {} => Cardinality(S("resolution")) = 1)
    <3> HIDE DEF S
    <3> QED BY <2>2, AtMostOne
  <2> QED BY <2>3, <2>4
<1>4. ASSUME NEW r \in TracedRuns
      PROVE  /\ learnt[r] # NothingLearnt =>
                  /\ ran[r].predicted /\ learnt[r].revision = ran[r].revision
                  /\ IF learnt[r].score = 1 THEN Succeeded(r) ELSE Declined(r)
             /\ ran[r].at = "finished" /\ ~ran[r].thrown /\ ran[r].predicted /\ (Succeeded(r) \/ Declined(r))
                  => learnt[r] # NothingLearnt
  <2>1. LearntSound(trace[r], ran[r], learnt[r])
    BY <1>1 DEF RunSound
  <2>2. (Succeeded(r) <=> Won(ran[r])) /\ (Declined(r) <=> Fell(ran[r]))
    BY DEF Succeeded, Declined, Won, Fell
  <2> QED BY <2>1, <2>2 DEF LearntSound
<1>5. ASSUME NEW v \in 1..MaxActive
      PROVE  /\ Cardinality({r \in TracedRuns : drifts[v][r] \in {"proposed", "approved"}}) <= 1
             /\ \A r \in TracedRuns : drifts[v][r] # "none" => learnt[r].revision = v
  <2> DEFINE S == {r \in TracedRuns : drifts[v][r] \in {"proposed", "approved"}}
  <2>1. DriftsSound(drifts, learnt)
    BY DEF TraceInv
  <2>2. \A q, r \in S : q = r
    BY <2>1 DEF DriftsSound
  <2>3. Cardinality(S) <= 1
    <3> HIDE DEF S
    <3> QED BY <2>2, AtMostOne
  <2> QED BY <2>1, <2>3 DEF DriftsSound
<1>6. OthersStayOut
  BY <1>1 DEF RunSound, WaySound, OthersStayOut
<1>7. ChainOfOneRevision
  BY <1>2 DEF ChainOfOneRevision
<1>8. EndIsTold
  BY <1>3 DEF EndIsTold
<1>9. LearntFromOutcomes
  BY <1>4, <1>5 DEF LearntFromOutcomes
<1> QED BY <1>6, <1>7, <1>8, <1>9 DEF TraceAgrees

\* The trace of a run and what is learnt from it agree with how the run went,
\* through revisions, restarts, a clock set back and finishing that throws, for
\* any runs, bounds on revisions and hours, windows and thresholds
\* (server.ts: recordDecision, recordRunOutcome; maybeProposeRuntimeImprovement).
THEOREM TracesHold == TraceInit /\ [][TraceNext]_traceVars => []TraceAgrees
<1>1. TraceInit => TraceInv
  BY TraceStarts
<1>2. TraceInv /\ [TraceNext]_traceVars => TraceInv'
  BY TraceKept
<1>3. TraceInv => TraceAgrees
  BY TraceSays
<1> QED BY <1>1, <1>2, <1>3, PTL

=============================================================================
