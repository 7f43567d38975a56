--------------------------- MODULE FlowRunnerProofs ---------------------------
(* Persisted flow executions, for any workflows, runs, keys, invocations and *)
(* crashes.                                                                  *)
EXTENDS FlowRunnerProps, FiniteSetTheorems, NumberLemmas, TLAPS

-----------------------------------------------------------------------------
(* Skips spread until none is left *)

Shape == flow \in Flows /\ Valid(flow)

LEMMA ShapeFacts ==
    ASSUME Shape
    PROVE  /\ Len(flow.nodes) \in Nat /\ Nodes(flow) = 1..Len(flow.nodes)
           /\ \A n \in Nodes(flow) : flow.nodes[n] \in FlowNodes
           /\ \A e \in flow.edges : e \in FlowEdges /\ e.from \in Nodes(flow) /\ e.to \in Nodes(flow)
           /\ flow.width \in Nat /\ flow.width >= 1
BY FlowsAssumption DEF Shape, Valid, Nodes

\* What skipping makes of a snapshot: nodes that were pending are skipped.
SkipsOf(s) ==
    {t \in Snapshots :
       /\ t.branch = s.branch /\ t.approvals = s.approvals /\ t.attempts = s.attempts
       /\ \A n \in Nodes(flow) : t.status[n] = s.status[n]
                                 \/ (s.status[n] = "pending" /\ t.status[n] = "skipped")}

PendingIn(s) == {n \in Nodes(flow) : s.status[n] = "pending"}

LEMMA SkipOnceSkips ==
    ASSUME NEW s \in Snapshots
    PROVE  /\ SkipOnce(flow, s) \in SkipsOf(s)
           /\ \A n \in Nodes(flow) : SkipOnce(flow, s).status[n] =
                IF Skippable(flow, s, n) THEN "skipped" ELSE s.status[n]
<1> DEFINE next == [n \in Nodes(flow) |-> IF Skippable(flow, s, n) THEN "skipped" ELSE s.status[n]]
<1>1. SkipOnce(flow, s) = [s EXCEPT !.status = next]
  BY DEF SkipOnce, Snapshots
<1>2. next \in [Nodes(flow) -> Statuses]
  BY DEF Snapshots, Statuses, Settled
<1>3. \A n \in Nodes(flow) : next[n] = s.status[n] \/ (s.status[n] = "pending" /\ next[n] = "skipped")
  BY DEF Skippable
<1>4. \A n \in Nodes(flow) : next[n] = IF Skippable(flow, s, n) THEN "skipped" ELSE s.status[n]
  OBVIOUS
<1> HIDE DEF next
<1> QED BY <1>1, <1>2, <1>3, <1>4 DEF SkipsOf, Snapshots

LEMMA SkipsCompose ==
    ASSUME NEW s \in Snapshots, NEW t \in SkipsOf(s), NEW u \in SkipsOf(t)
    PROVE  u \in SkipsOf(s)
BY DEF SkipsOf

\* Nothing is left to skip.
AtRest(s) == \A n \in Nodes(flow) : ~Skippable(flow, s, n)

\* A pass that skips something leaves less that is pending.
LEMMA PassesEnd ==
    ASSUME Shape, NEW s \in Snapshots, ~AtRest(s)
    PROVE  /\ Cardinality(PendingIn(s)) \in Nat
           /\ Cardinality(PendingIn(SkipOnce(flow, s))) \in Nat
           /\ Cardinality(PendingIn(SkipOnce(flow, s))) < Cardinality(PendingIn(s))
<1> DEFINE u == SkipOnce(flow, s)
<1>1. PICK n \in Nodes(flow) : Skippable(flow, s, n)
  BY DEF AtRest
<1>2. n \in PendingIn(s) /\ n \notin PendingIn(u)
  BY <1>1, SkipOnceSkips DEF PendingIn, Skippable
<1>3. PendingIn(u) \subseteq PendingIn(s)
  BY SkipOnceSkips DEF PendingIn, SkipsOf
<1>4. IsFiniteSet(Nodes(flow)) /\ PendingIn(s) \in SUBSET Nodes(flow)
  <2>1. Len(flow.nodes) \in Nat /\ Nodes(flow) = 1..Len(flow.nodes)
    BY ShapeFacts
  <2>2. IsFiniteSet(1..Len(flow.nodes))
    BY <2>1, FS_Interval
  <2> QED BY <2>1, <2>2 DEF PendingIn
<1>5. IsFiniteSet(PendingIn(s))
  BY <1>4, FS_Subset
<1> HIDE DEF u
<1>6. /\ IsFiniteSet(PendingIn(u)) /\ Cardinality(PendingIn(u)) <= Cardinality(PendingIn(s))
      /\ Cardinality(PendingIn(u)) = Cardinality(PendingIn(s)) => PendingIn(s) = PendingIn(u)
  BY <1>3, <1>5, FS_Subset
<1>7. Cardinality(PendingIn(u)) \in Nat /\ Cardinality(PendingIn(s)) \in Nat
  BY <1>5, <1>6, FS_CardinalityType
<1>8. Cardinality(PendingIn(u)) # Cardinality(PendingIn(s))
  BY <1>2, <1>6
<1>9. Cardinality(PendingIn(u)) < Cardinality(PendingIn(s))
  BY <1>6, <1>7, <1>8
<1> QED BY <1>7, <1>9 DEF u

LEMMA RestStays ==
    ASSUME NEW s \in Snapshots, AtRest(s)
    PROVE  SkipOnce(flow, s) = s
<1>1. SkipOnce(flow, s) \in Snapshots
  BY SkipOnceSkips DEF SkipsOf
<1>2. \A n \in Nodes(flow) : SkipOnce(flow, s).status[n] = s.status[n]
  BY SkipOnceSkips DEF AtRest
<1>3. SkipOnce(flow, s).branch = s.branch /\ SkipOnce(flow, s).approvals = s.approvals
      /\ SkipOnce(flow, s).attempts = s.attempts
  BY SkipOnceSkips DEF SkipsOf
<1>4. SkipOnce(flow, s).status = s.status
  BY <1>1, <1>2 DEF Snapshots
<1> QED BY <1>1, <1>3, <1>4 DEF Snapshots

\* The passes exist ...
Passes(s, n, f) ==
    f = [k \in 0..n |-> IF k = 0 THEN {s} ELSE {SkipOnce(flow, t) : t \in f[k - 1]}]

LEMMA PassesExist ==
    ASSUME NEW s, NEW n \in Nat
    PROVE  \E f : Passes(s, n, f)
<1> DEFINE T == {m \in Nat : \E f : Passes(s, m, f)}
<1>1. 0 \in T
  <2> DEFINE f == [k \in 0..0 |-> {s}]
  <2>1. f = [k \in 0..0 |-> IF k = 0 THEN {s} ELSE {SkipOnce(flow, t) : t \in f[k - 1]}]
    OBVIOUS
  <2> HIDE DEF f
  <2> QED BY <2>1 DEF Passes
<1>2. ASSUME NEW m \in 1..n, m - 1 \in T PROVE m \in T
  <2>1. PICK f : f = [k \in 0..(m - 1) |-> IF k = 0 THEN {s} ELSE {SkipOnce(flow, t) : t \in f[k - 1]}]
    BY <1>2 DEF Passes
  <2> DEFINE g == [k \in 0..m |-> IF k = m THEN {SkipOnce(flow, t) : t \in f[m - 1]} ELSE f[k]]
  <2>2. ASSUME NEW k \in 0..m
        PROVE  g[k] = IF k = 0 THEN {s} ELSE {SkipOnce(flow, t) : t \in g[k - 1]}
    <3>1. CASE k = m
      <4>1. k - 1 \in 0..m /\ k - 1 # m /\ k # 0
        BY <3>1
      <4>2. g[k - 1] = f[m - 1] /\ g[k] = {SkipOnce(flow, t) : t \in f[m - 1]}
        BY <3>1, <4>1
      <4> QED BY <4>1, <4>2
    <3>2. CASE k # m
      <4>1. k \in 0..(m - 1) /\ g[k] = f[k]
        BY <3>2
      <4>2. f[k] = IF k = 0 THEN {s} ELSE {SkipOnce(flow, t) : t \in f[k - 1]}
        BY <2>1, <4>1
      <4>3. CASE k = 0
        BY <4>1, <4>2, <4>3
      <4>4. CASE k # 0
        <5>1. k - 1 \in 0..m /\ k - 1 # m
          BY <4>4, <4>1
        <5>2. g[k - 1] = f[k - 1]
          BY <5>1
        <5> QED BY <4>1, <4>2, <4>4, <5>2
      <4> QED BY <4>3, <4>4
    <3> QED BY <3>1, <3>2
  <2>3. g = [k \in 0..m |-> g[k]]
    OBVIOUS
  <2> HIDE DEF g
  <2>4. g = [k \in 0..m |-> IF k = 0 THEN {s} ELSE {SkipOnce(flow, t) : t \in g[k - 1]}]
    BY <2>2, <2>3
  <2> QED BY <2>4 DEF Passes
<1>3. 0..n \subseteq T
  <2> HIDE DEF T
  <2> QED BY <1>1, <1>2, UpTo
<1>4. n \in T
  BY <1>3
<1> QED BY <1>4

\* ... and one for each node is enough.
LEMMA PropagatedRests ==
    ASSUME Shape, NEW s \in Snapshots
    PROVE  Propagated(flow, s) \in SkipsOf(s) /\ AtRest(Propagated(flow, s))
<1> DEFINE N == Len(flow.nodes)
           pass == CHOOSE f : Passes(s, N, f)
<1>0. N \in Nat /\ Nodes(flow) = 1..N
  BY ShapeFacts
<1>1. pass = [k \in 0..N |-> IF k = 0 THEN {s} ELSE {SkipOnce(flow, t) : t \in pass[k - 1]}]
  <2>1. Passes(s, N, pass)
    BY <1>0, PassesExist
  <2> QED BY <2>1 DEF Passes
<1>2. Propagated(flow, s) = CHOOSE t \in pass[N] : TRUE
  BY DEF Propagated, Passes
<1> HIDE DEF pass
<1> DEFINE Good(k, t) == t \in SkipsOf(s) /\ (AtRest(t) \/ Cardinality(PendingIn(t)) \in 0..(N - k))
           T == {k \in 0..N : \E t : pass[k] = {t} /\ Good(k, t)}
<1>3. 0 \in T
  <2>1. pass[0] = {s}
    BY <1>0, <1>1
  <2>2. s \in SkipsOf(s)
    BY DEF SkipsOf
  <2>3. Cardinality(PendingIn(s)) \in 0..N
    <3>1. IsFiniteSet(1..N) /\ Cardinality(1..N) = N /\ PendingIn(s) \in SUBSET (1..N)
      BY <1>0, FS_Interval DEF PendingIn
    <3>2. IsFiniteSet(PendingIn(s)) /\ Cardinality(PendingIn(s)) <= N
      BY <3>1, FS_Subset
    <3>3. Cardinality(PendingIn(s)) \in Nat
      BY <3>2, FS_CardinalityType
    <3> QED BY <1>0, <3>2, <3>3
  <2> QED BY <1>0, <2>1, <2>2, <2>3
<1>4. ASSUME NEW k \in 1..N, k - 1 \in T PROVE k \in T
  <2>1. PICK t : pass[k - 1] = {t} /\ Good(k - 1, t)
    BY <1>4
  <2>2. pass[k] = {SkipOnce(flow, t)}
    <3>1. k \in 0..N /\ k # 0
      BY <1>0
    <3>2. pass[k] = {SkipOnce(flow, x) : x \in pass[k - 1]}
      BY <1>1, <3>1
    <3> QED BY <2>1, <3>2
  <2>3. t \in Snapshots
    BY <2>1 DEF SkipsOf
  <2>4. CASE AtRest(t)
    BY <1>0, <2>1, <2>2, <2>3, <2>4, RestStays
  <2>5. CASE ~AtRest(t)
    <3>1. SkipOnce(flow, t) \in SkipsOf(s)
      BY <2>1, <2>3, SkipOnceSkips, SkipsCompose
    <3> DEFINE a == Cardinality(PendingIn(t))
               b == Cardinality(PendingIn(SkipOnce(flow, t)))
    <3>2. a \in 0..(N - (k - 1)) /\ b \in Nat /\ b < a
      BY <2>1, <2>3, <2>5, PassesEnd
    <3> HIDE DEF a, b
    <3>3. b \in 0..(N - k)
      BY <1>0, <3>2
    <3>4. Good(k, SkipOnce(flow, t))
      BY <3>1, <3>3 DEF b
    <3> QED BY <1>0, <2>2, <3>4
  <2> QED BY <2>4, <2>5
<1>5. N \in T
  <2> HIDE DEF T
  <2>1. 0..N \subseteq T
    BY <1>0, <1>3, <1>4, UpTo
  <2> QED BY <1>0, <2>1
<1>6. PICK t : pass[N] = {t} /\ t \in SkipsOf(s) /\ (AtRest(t) \/ Cardinality(PendingIn(t)) \in 0..(N - N))
  BY <1>5
<1>7. AtRest(t)
  <2>1. SUFFICES ASSUME Cardinality(PendingIn(t)) = 0 PROVE AtRest(t)
    BY <1>0, <1>6
  <2>2. IsFiniteSet(PendingIn(t))
    <3>1. IsFiniteSet(1..N) /\ PendingIn(t) \in SUBSET (1..N)
      BY <1>0, FS_Interval DEF PendingIn
    <3> QED BY <3>1, FS_Subset
  <2>3. PendingIn(t) = {}
    BY <2>1, <2>2, FS_EmptySet
  <2> QED BY <2>3 DEF AtRest, Skippable, PendingIn
<1>8. Propagated(flow, s) = t
  BY <1>2, <1>6
<1> QED BY <1>6, <1>7, <1>8

\* A node that is ready makes a batch.
LEMMA BatchStarts ==
    ASSUME Shape, NEW s \in Snapshots, NEW n \in Nodes(flow), Ready(flow, s, n)
    PROVE  Batch(flow, s) # {}
<1> DEFINE ready == {m \in Nodes(flow) : Ready(flow, s, m)}
<1>1. ready \subseteq Nat /\ ready # {}
  BY ShapeFacts
<1>2. PICK m \in ready : \A k \in ready : m <= k
  <2> HIDE DEF ready
  <2> QED BY <1>1, FirstExists
<1>3. {k \in ready : k <= m} = {m}
  BY <1>1, <1>2
<1>4. Cardinality({k \in ready : k <= m}) = 1
  BY <1>3, FS_Singleton
<1>5. m \in Batch(flow, s)
  BY <1>4, ShapeFacts DEF Batch
<1> QED BY <1>5

LEMMA BatchIsReady ==
    ASSUME NEW s, NEW n \in Batch(flow, s)
    PROVE  n \in Nodes(flow) /\ Ready(flow, s, n)
BY DEF Batch

-----------------------------------------------------------------------------
(* What an invocation keeps *)

Handled(n) == flow.nodes[n].onError = "error_branch" /\ ErrorTargets(flow, n) # {}
Clean(s) == \A n \in Nodes(flow) : s.status[n] = "failed" => Handled(n)

\* No connection of whatever kind leads back.
LoopFree ==
    \A S \in SUBSET {n \in Nodes(flow) : ~flow.nodes[n].disabled} :
      S # {} => \E n \in S : \A e \in Into(flow, n) : e.from \notin S

\* What a snapshot tells of the approvals of a run and of nodes turned off
Honest(r, s) ==
    \A n \in Nodes(flow) :
      /\ s.approvals[n] = "approved" => <<r, n>> \in granted
      /\ flow.nodes[n].disabled => s.status[n] = "skipped"

\* Nothing is running, or could be.
Still(s) ==
    \A n \in Nodes(flow) : s.status[n] # "running" /\ ~Ready(flow, s, n)

\* What an invocation has come to when it closes
Outcome(status, s) ==
    /\ status # "none"
    /\ status = "paused" => Paused(s) /\ Still(s)
    /\ status = "completed" /\ LoopFree => \A n \in Nodes(flow) : s.status[n] \in Settled
    /\ status \in {"paused", "completed"} => Clean(s)

AtWork(v) == {n \in Nodes(flow) : v.at[n] # "rest"}

\* A node at work was enabled, its input is settled and stays so, and one that
\* is called was approved.
InTurn(v) ==
    \A n \in AtWork(v) :
      /\ ~flow.nodes[n].disabled
      /\ v.at[n] \in {"calling", "backoff"} /\ NeedsApproval(flow, n) => <<v.run, n>> \in granted
      /\ \A e \in Into(flow, n) : ~Pending(v.snap, e) /\ e.from \notin AtWork(v)
      /\ Into(flow, n) = {} \/ \E e \in Into(flow, n) : Active(flow, v.snap, e)

Orderly(v) ==
    /\ v \in Invocations
    /\ Honest(v.run, v.snap) /\ InTurn(v)
    /\ \A n \in v.did : v.snap.status[n] = "completed" /\ v.at[n] = "rest"
    /\ v.phase = "open" => \A n \in Nodes(flow) : v.snap.status[n] = "running" => v.at[n] # "rest"
    /\ ~v.fatal => Clean(v.snap)
    /\ v.phase = "closing" =>
         Outcome(v.result, v.snap) /\ (v.result \in {"paused", "completed"} => AtWork(v) = {})

\* What the work on a node changes is of this node.
LEMMA NodeSteps ==
    ASSUME Shape, NEW v, Orderly(v), NEW n \in AtWork(v), NEW w \in Invocations,
           w.run = v.run, w.phase = v.phase, w.result = v.result,
           w.snap.approvals = v.snap.approvals,
           \A m \in Nodes(flow) \ {n} : /\ w.at[m] = v.at[m]
                                         /\ w.snap.status[m] = v.snap.status[m]
                                         /\ w.snap.branch[m] = v.snap.branch[m],
           w.at[n] \in {"calling", "backoff"} /\ NeedsApproval(flow, n) => <<v.run, n>> \in granted,
           w.did \subseteq v.did \cup {n},
           n \in w.did => w.snap.status[n] = "completed" /\ w.at[n] = "rest",
           w.snap.status[n] = "running" => w.at[n] # "rest",
           ~w.fatal => ~v.fatal /\ (w.snap.status[n] = "failed" => Handled(n))
    PROVE  Orderly(w)
<1>1. n \in Nodes(flow) /\ v.at[n] # "rest" /\ ~flow.nodes[n].disabled
  BY DEF AtWork, Orderly, InTurn
<1>2. Honest(w.run, w.snap)
  BY <1>1 DEF Orderly, Honest
<1>3. AtWork(w) \subseteq AtWork(v)
  BY <1>1 DEF AtWork
<1>4. InTurn(w)
  <2> SUFFICES ASSUME NEW m \in AtWork(w)
               PROVE  /\ ~flow.nodes[m].disabled
                      /\ w.at[m] \in {"calling", "backoff"} /\ NeedsApproval(flow, m) => <<w.run, m>> \in granted
                      /\ \A e \in Into(flow, m) : ~Pending(w.snap, e) /\ e.from \notin AtWork(w)
                      /\ Into(flow, m) = {} \/ \E e \in Into(flow, m) : Active(flow, w.snap, e)
    BY DEF InTurn
  <2>1. m \in AtWork(v) /\ m \in Nodes(flow)
    BY <1>3 DEF AtWork
  <2>2. /\ ~flow.nodes[m].disabled
        /\ v.at[m] \in {"calling", "backoff"} /\ NeedsApproval(flow, m) => <<v.run, m>> \in granted
        /\ \A e \in Into(flow, m) : ~Pending(v.snap, e) /\ e.from \notin AtWork(v)
        /\ Into(flow, m) = {} \/ \E e \in Into(flow, m) : Active(flow, v.snap, e)
    BY <2>1 DEF Orderly, InTurn
  <2>3. ASSUME NEW e \in Into(flow, m)
        PROVE  /\ ~Pending(w.snap, e) /\ e.from \notin AtWork(w)
               /\ Active(flow, v.snap, e) => Active(flow, w.snap, e)
    <3>1. e.from \notin AtWork(v) /\ e.from # n
      BY <2>2
    <3>2. e.from \in Nodes(flow)
      BY ShapeFacts DEF Into
    <3>3. w.snap.status[e.from] = v.snap.status[e.from] /\ w.snap.branch[e.from] = v.snap.branch[e.from]
      BY <3>1, <3>2
    <3> QED BY <1>3, <2>2, <3>1, <3>3 DEF Pending, Active
  <2> QED BY <1>1, <2>1, <2>2, <2>3
<1>5. \A m \in w.did : w.snap.status[m] = "completed" /\ w.at[m] = "rest"
  BY DEF Orderly, Invocations
<1>6. w.phase = "open" => \A m \in Nodes(flow) : w.snap.status[m] = "running" => w.at[m] # "rest"
  BY DEF Orderly
<1>7. ~w.fatal => Clean(w.snap)
  BY DEF Orderly, Clean
<1>8. w.phase = "closing" =>
         Outcome(w.result, w.snap) /\ (w.result \in {"paused", "completed"} => AtWork(w) = {})
  BY <1>1 DEF Orderly, Outcome
<1> QED BY <1>2, <1>4, <1>5, <1>6, <1>7, <1>8 DEF Orderly

LEMMA VFacts ==
    ASSUME NEW v, Orderly(v), NEW n \in AtWork(v)
    PROVE  /\ v \in Invocations /\ n \in Nodes(flow) /\ n \notin v.did
           /\ v.snap \in Snapshots /\ v.snap.status \in [Nodes(flow) -> Statuses]
           /\ v.at \in [Nodes(flow) -> Stages]
BY DEF Orderly, Invocations, AtWork, Snapshots

\* An invocation with other values for its nodes
Made(v, status, branch, attempts, at, fatal, did) ==
    [run |-> v.run, phase |-> v.phase,
     snap |-> [status |-> status, branch |-> branch, approvals |-> v.snap.approvals, attempts |-> attempts],
     fatal |-> fatal, result |-> v.result, at |-> at, did |-> did]

LEMMA MadeOrderly ==
    ASSUME Shape, NEW v, Orderly(v), NEW n \in AtWork(v),
           NEW x \in Statuses, NEW b \in SUBSET {"true", "false"},
           NEW c \in [Nodes(flow) -> Nat], NEW a \in Stages, NEW y \in BOOLEAN, NEW d \in SUBSET Nodes(flow),
           d \subseteq v.did \cup (IF x = "completed" /\ a = "rest" THEN {n} ELSE {}),
           a # "rest" => (NeedsApproval(flow, n) => <<v.run, n>> \in granted),
           x = "running" => a # "rest",
           v.fatal => y, x = "failed" => y \/ Handled(n)
    PROVE  Orderly(Made(v, [v.snap.status EXCEPT ![n] = x], [v.snap.branch EXCEPT ![n] = b], c,
                        [v.at EXCEPT ![n] = a], y, d))
<1> DEFINE st == [v.snap.status EXCEPT ![n] = x]
           br == [v.snap.branch EXCEPT ![n] = b]
           at == [v.at EXCEPT ![n] = a]
           w == Made(v, st, br, c, at, y, d)
<1>1. /\ v \in Invocations /\ n \in Nodes(flow) /\ n \notin v.did /\ v.snap \in Snapshots
      /\ v.snap.status \in [Nodes(flow) -> Statuses] /\ v.at \in [Nodes(flow) -> Stages]
      /\ v.snap.branch \in [Nodes(flow) -> SUBSET {"true", "false"}]
  BY DEF Orderly, AtWork, Invocations, Snapshots
<1>2. /\ st \in [Nodes(flow) -> Statuses] /\ br \in [Nodes(flow) -> SUBSET {"true", "false"}]
      /\ at \in [Nodes(flow) -> Stages]
      /\ st[n] = x /\ at[n] = a
      /\ \A m \in Nodes(flow) \ {n} : st[m] = v.snap.status[m] /\ br[m] = v.snap.branch[m] /\ at[m] = v.at[m]
  BY <1>1
<1> HIDE DEF st, br, at
<1>3. /\ w.run = v.run /\ w.phase = v.phase /\ w.result = v.result /\ w.snap.approvals = v.snap.approvals
      /\ w.fatal = y /\ w.did = d /\ w.at = at /\ w.snap.status = st /\ w.snap.branch = br
      /\ w \in Invocations
  BY <1>1, <1>2 DEF Made, Invocations, Snapshots
<1> HIDE DEF w
<1>4. \A m \in Nodes(flow) \ {n} : /\ w.at[m] = v.at[m]
                                   /\ w.snap.status[m] = v.snap.status[m]
                                   /\ w.snap.branch[m] = v.snap.branch[m]
  BY <1>2, <1>3
<1>5. w.at[n] \in {"calling", "backoff"} /\ NeedsApproval(flow, n) => <<v.run, n>> \in granted
  BY <1>2, <1>3
<1>6. w.did \subseteq v.did \cup {n} /\ (n \in w.did => w.snap.status[n] = "completed" /\ w.at[n] = "rest")
  BY <1>1, <1>2, <1>3
<1>7. w.snap.status[n] = "running" => w.at[n] # "rest"
  BY <1>2, <1>3
<1>8. v.fatal \in BOOLEAN /\ (~w.fatal => ~v.fatal /\ (w.snap.status[n] = "failed" => Handled(n)))
  BY <1>1, <1>2, <1>3 DEF Invocations
<1>9. Orderly(w)
  BY <1>3, <1>4, <1>5, <1>6, <1>7, <1>8, NodeSteps
<1> QED BY <1>9 DEF w, st, br, at

LEMMA AtWorkFacts ==
    ASSUME NEW v, Orderly(v), NEW n \in AtWork(v)
    PROVE  /\ v \in Invocations /\ n \in Nodes(flow)
           /\ v.snap \in Snapshots /\ v.snap.status[n] \in Statuses
           /\ v.snap.branch[n] \in SUBSET {"true", "false"}
           /\ v.snap.attempts \in [Nodes(flow) -> Nat]
           /\ [v.snap.attempts EXCEPT ![n] = @ + 1] \in [Nodes(flow) -> Nat]
           /\ v.snap.branch = [v.snap.branch EXCEPT ![n] = v.snap.branch[n]]
           /\ v.snap.status = [v.snap.status EXCEPT ![n] = v.snap.status[n]]
           /\ v.at[n] \in Stages /\ v.at[n] # "rest" /\ v.fatal \in BOOLEAN /\ v.did \in SUBSET Nodes(flow)
           /\ (v.snap.status[n] = "failed" => v.fatal \/ Handled(n))
<1>1. v \in Invocations /\ n \in Nodes(flow) /\ v.at[n] # "rest"
  BY DEF Orderly, AtWork
<1>2. v.snap \in Snapshots /\ v.fatal \in BOOLEAN /\ v.did \in SUBSET Nodes(flow) /\ v.at[n] \in Stages
  BY <1>1 DEF Invocations
<1>3. v.snap.status[n] = "failed" => v.fatal \/ Handled(n)
  BY <1>1 DEF Orderly, Clean
<1> QED BY <1>1, <1>2, <1>3 DEF Snapshots

\* What the steps of a node make, field by field
LEMMA StatusMade ==
    ASSUME NEW v \in Invocations, NEW n, NEW x, NEW y,
           NEW w, w = [v EXCEPT !.snap.status[n] = x, !.at[n] = "rest", !.fatal = y]
    PROVE  w = Made(v, [v.snap.status EXCEPT ![n] = x], v.snap.branch, v.snap.attempts,
                    [v.at EXCEPT ![n] = "rest"], y, v.did)
<1>1. w = [run |-> v.run, phase |-> v.phase,
           snap |-> [v.snap EXCEPT !.status = [v.snap.status EXCEPT ![n] = x]],
           fatal |-> y, result |-> v.result, at |-> [v.at EXCEPT ![n] = "rest"], did |-> v.did]
  BY DEF Invocations
<1>2. v.snap \in Snapshots
  BY DEF Invocations
<1>3. [v.snap EXCEPT !.status = [v.snap.status EXCEPT ![n] = x]] =
      [status |-> [v.snap.status EXCEPT ![n] = x], branch |-> v.snap.branch,
       approvals |-> v.snap.approvals, attempts |-> v.snap.attempts]
  BY <1>2 DEF Snapshots
<1> QED BY <1>1, <1>3 DEF Made

LEMMA SameFatal ==
    ASSUME NEW v \in Invocations, NEW n, NEW x
    PROVE  [v EXCEPT !.snap.status[n] = x, !.at[n] = "rest"]
             = [v EXCEPT !.snap.status[n] = x, !.at[n] = "rest", !.fatal = v.fatal]
<1>1. PICK w : w = [v EXCEPT !.snap.status[n] = x, !.at[n] = "rest"]
  OBVIOUS
<1>2. PICK u : u = [v EXCEPT !.snap.status[n] = x, !.at[n] = "rest", !.fatal = v.fatal]
  OBVIOUS
<1>3. w = [run |-> v.run, phase |-> v.phase,
           snap |-> [v.snap EXCEPT !.status = [v.snap.status EXCEPT ![n] = x]],
           fatal |-> v.fatal, result |-> v.result, at |-> [v.at EXCEPT ![n] = "rest"], did |-> v.did]
  BY <1>1 DEF Invocations
<1>4. u = [run |-> v.run, phase |-> v.phase,
           snap |-> [v.snap EXCEPT !.status = [v.snap.status EXCEPT ![n] = x]],
           fatal |-> v.fatal, result |-> v.result, at |-> [v.at EXCEPT ![n] = "rest"], did |-> v.did]
  BY <1>2 DEF Invocations
<1> QED BY <1>1, <1>2, <1>3, <1>4

LEMMA StatusOrderly ==
    ASSUME Shape, NEW v, Orderly(v), NEW n \in AtWork(v), NEW x \in Statuses, NEW y \in BOOLEAN,
           x # "running", v.fatal => y, x = "failed" => y \/ Handled(n)
    PROVE  Orderly([v EXCEPT !.snap.status[n] = x, !.at[n] = "rest", !.fatal = y])
<1>1. PICK w : w = [v EXCEPT !.snap.status[n] = x, !.at[n] = "rest", !.fatal = y]
  OBVIOUS
<1>2. v \in Invocations /\ v.did \in SUBSET Nodes(flow)
      /\ v.snap.attempts \in [Nodes(flow) -> Nat] /\ v.snap.branch[n] \in SUBSET {"true", "false"}
      /\ v.snap.branch = [v.snap.branch EXCEPT ![n] = v.snap.branch[n]]
  BY AtWorkFacts
<1>3. w = Made(v, [v.snap.status EXCEPT ![n] = x], v.snap.branch, v.snap.attempts,
               [v.at EXCEPT ![n] = "rest"], y, v.did)
  BY <1>1, <1>2, StatusMade
<1>4. "rest" \in Stages
  BY DEF Stages
<1>5. Orderly(Made(v, [v.snap.status EXCEPT ![n] = x], [v.snap.branch EXCEPT ![n] = v.snap.branch[n]],
                   v.snap.attempts, [v.at EXCEPT ![n] = "rest"], y, v.did))
  BY <1>2, <1>4, MadeOrderly
<1> QED BY <1>1, <1>2, <1>3, <1>5

LEMMA FailingOrderly ==
    ASSUME Shape, NEW v, Orderly(v), NEW n \in AtWork(v)
    PROVE  Orderly(Failing(v, n))
<1>1. v \in Invocations /\ v.fatal \in BOOLEAN
  BY AtWorkFacts
<1>2. "completed" \in Statuses /\ "failed" \in Statuses
  BY DEF Statuses, Settled
<1>3. CASE flow.nodes[n].onError = "continue"
  <2>1. Orderly([v EXCEPT !.snap.status[n] = "completed", !.at[n] = "rest", !.fatal = v.fatal])
    BY <1>1, <1>2, StatusOrderly
  <2> QED BY <1>1, <1>3, <2>1, SameFatal DEF Failing
<1>4. CASE flow.nodes[n].onError # "continue"
  <2> DEFINE y == v.fatal \/ ~Handled(n)
  <2>1. y \in BOOLEAN /\ (v.fatal => y) /\ (y \/ Handled(n))
    OBVIOUS
  <2>2. Failing(v, n) = [v EXCEPT !.snap.status[n] = "failed", !.at[n] = "rest", !.fatal = y]
    BY <1>4 DEF Failing, Handled
  <2> HIDE DEF y
  <2>3. Orderly([v EXCEPT !.snap.status[n] = "failed", !.at[n] = "rest", !.fatal = y])
    BY <1>2, <2>1, StatusOrderly
  <2> QED BY <2>2, <2>3
<1> QED BY <1>3, <1>4

LEMMA WaitingOrderly ==
    ASSUME Shape, NEW v, Orderly(v), NEW n \in AtWork(v), NEW x \in {"waiting", "waiting_approval"}
    PROVE  Orderly([v EXCEPT !.snap.status[n] = x, !.at[n] = "rest"])
<1>1. v \in Invocations /\ v.fatal \in BOOLEAN
  BY AtWorkFacts
<1>2. x \in Statuses /\ x # "failed" /\ x # "running"
  BY DEF Statuses
<1>3. Orderly([v EXCEPT !.snap.status[n] = x, !.at[n] = "rest", !.fatal = v.fatal])
  BY <1>1, <1>2, StatusOrderly
<1> QED BY <1>1, <1>3, SameFatal

LEMMA CallingOrderly ==
    ASSUME Shape, NEW v, Orderly(v), NEW n \in AtWork(v),
           NeedsApproval(flow, n) => <<v.run, n>> \in granted
    PROVE  Orderly(Calling(v, n))
<1> DEFINE c == [v.snap.attempts EXCEPT ![n] = @ + 1]
<1>1. PICK w : w = Calling(v, n)
  OBVIOUS
<1>2. /\ v \in Invocations /\ v.snap \in Snapshots /\ v.fatal \in BOOLEAN /\ v.did \in SUBSET Nodes(flow)
      /\ v.snap.branch[n] \in SUBSET {"true", "false"} /\ v.snap.status[n] \in Statuses
      /\ c \in [Nodes(flow) -> Nat]
      /\ v.snap.branch = [v.snap.branch EXCEPT ![n] = v.snap.branch[n]]
      /\ v.snap.status = [v.snap.status EXCEPT ![n] = v.snap.status[n]]
      /\ (v.snap.status[n] = "failed" => v.fatal \/ Handled(n))
  BY AtWorkFacts
<1>3. w = [run |-> v.run, phase |-> v.phase, snap |-> [v.snap EXCEPT !.attempts = c],
           fatal |-> v.fatal, result |-> v.result, at |-> [v.at EXCEPT ![n] = "calling"], did |-> v.did]
  BY <1>1, <1>2 DEF Invocations, Calling
<1>4. [v.snap EXCEPT !.attempts = c] =
      [status |-> v.snap.status, branch |-> v.snap.branch, approvals |-> v.snap.approvals, attempts |-> c]
  BY <1>2 DEF Snapshots
<1>5. "calling" \in Stages
  BY DEF Stages
<1> HIDE DEF c
<1>6. Orderly(Made(v, [v.snap.status EXCEPT ![n] = v.snap.status[n]], [v.snap.branch EXCEPT ![n] = v.snap.branch[n]],
                   c, [v.at EXCEPT ![n] = "calling"], v.fatal, v.did))
  BY <1>2, <1>5, MadeOrderly
<1> QED BY <1>1, <1>2, <1>3, <1>4, <1>6 DEF Made

LEMMA BegunOrderly ==
    ASSUME Shape, NEW v, Orderly(v), NEW n \in AtWork(v)
    PROVE  Orderly(Begun(v, n))
<1> DEFINE decision == v.snap.approvals[n]
<1>0. v.snap \in Snapshots /\ n \in Nodes(flow)
  BY AtWorkFacts
<1>1. CASE NeedsApproval(flow, n) /\ decision = "none"
  <2>1. Begun(v, n) = [v EXCEPT !.snap.status[n] = "waiting_approval", !.at[n] = "rest"]
    BY <1>1 DEF Begun
  <2>2. \A x \in {"waiting", "waiting_approval"} :
          Orderly([v EXCEPT !.snap.status[n] = x, !.at[n] = "rest"])
    BY WaitingOrderly, Zenon
  <2> QED BY <2>1, <2>2
<1>2. CASE NeedsApproval(flow, n) /\ decision = "rejected"
  BY <1>2, FailingOrderly DEF Begun
<1>3. CASE ~NeedsApproval(flow, n) \/ decision \notin {"none", "rejected"}
  <2>1. decision \in Verdicts
    BY <1>0 DEF Snapshots
  <2>2. NeedsApproval(flow, n) => <<v.run, n>> \in granted
    BY <1>0, <1>3, <2>1 DEF Verdicts, Orderly, Honest
  <2> QED BY <1>3, <2>2, CallingOrderly DEF Begun
<1> QED BY <1>1, <1>2, <1>3

LEMMA SucceededOrderly ==
    ASSUME Shape, NEW v, Orderly(v), NEW n \in AtWork(v), NEW b \in Chosen(n)
    PROVE  Orderly(Succeeded(v, n, b))
<1>0. PICK w : w = Succeeded(v, n, b)
  OBVIOUS
<1>1. w = [v EXCEPT !.snap.status[n] = "completed", !.snap.branch[n] = b,
                    !.at[n] = "rest", !.did = @ \cup {n}]
  BY <1>0 DEF Succeeded
<1>2. /\ v \in Invocations /\ v.snap \in Snapshots /\ v.fatal \in BOOLEAN /\ v.did \in SUBSET Nodes(flow)
      /\ v.snap.attempts \in [Nodes(flow) -> Nat] /\ n \in Nodes(flow)
  BY AtWorkFacts
<1>3. w = [run |-> v.run, phase |-> v.phase,
           snap |-> [status |-> [v.snap.status EXCEPT ![n] = "completed"], branch |-> [v.snap.branch EXCEPT ![n] = b],
                     approvals |-> v.snap.approvals, attempts |-> v.snap.attempts],
           fatal |-> v.fatal, result |-> v.result, at |-> [v.at EXCEPT ![n] = "rest"], did |-> v.did \cup {n}]
  <2> DEFINE st == [v.snap.status EXCEPT ![n] = "completed"]
             br == [v.snap.branch EXCEPT ![n] = b]
             lit == [status |-> st, branch |-> br, approvals |-> v.snap.approvals, attempts |-> v.snap.attempts]
  <2>1. w.snap = lit
    BY <1>1, <1>2 DEF Invocations, Snapshots
  <2>2. /\ w.run = v.run /\ w.phase = v.phase /\ w.fatal = v.fatal /\ w.result = v.result
        /\ w.at = [v.at EXCEPT ![n] = "rest"] /\ w.did = v.did \cup {n}
    BY <1>1, <1>2 DEF Invocations
  <2>3. w = [run |-> w.run, phase |-> w.phase, snap |-> w.snap, fatal |-> w.fatal, result |-> w.result,
             at |-> w.at, did |-> w.did]
    BY <1>1, <1>2 DEF Invocations
  <2> HIDE DEF lit
  <2>4. w = [run |-> v.run, phase |-> v.phase, snap |-> lit, fatal |-> v.fatal, result |-> v.result,
             at |-> [v.at EXCEPT ![n] = "rest"], did |-> v.did \cup {n}]
    BY <2>1, <2>2, <2>3
  <2> QED BY <2>4 DEF lit
<1>5. b \in SUBSET {"true", "false"} /\ "rest" \in Stages /\ "completed" \in Statuses
  BY DEF Chosen, Stages, Statuses, Settled
<1> DEFINE d == v.did \cup {n}
<1>6. d \in SUBSET Nodes(flow) /\ d \subseteq v.did \cup {n}
  BY <1>2
<1> HIDE DEF d
<1>7. Orderly(Made(v, [v.snap.status EXCEPT ![n] = "completed"], [v.snap.branch EXCEPT ![n] = b],
                   v.snap.attempts, [v.at EXCEPT ![n] = "rest"], v.fatal, d))
  BY <1>2, <1>5, <1>6, MadeOrderly
<1> QED BY <1>0, <1>3, <1>7 DEF Made, d

LEMMA BackoffOrderly ==
    ASSUME Shape, NEW v, Orderly(v), NEW n \in AtWork(v), v.at[n] = "calling"
    PROVE  Orderly([v EXCEPT !.at[n] = "backoff"])
<1>1. PICK w : w = [v EXCEPT !.at[n] = "backoff"]
  OBVIOUS
<1>2. /\ v \in Invocations /\ n \in Nodes(flow) /\ v.did \in SUBSET Nodes(flow)
      /\ (v.snap.status[n] = "failed" => v.fatal \/ Handled(n))
  BY AtWorkFacts
<1>3. w \in Invocations
  BY <1>1, <1>2 DEF Invocations, Stages
<1>4. /\ w.run = v.run /\ w.phase = v.phase /\ w.result = v.result /\ w.did = v.did /\ w.fatal = v.fatal
      /\ w.snap = v.snap
      /\ \A m \in Nodes(flow) \ {n} : w.at[m] = v.at[m]
      /\ w.at[n] = "backoff"
  BY <1>1, <1>2 DEF Invocations
<1>5. NeedsApproval(flow, n) => <<v.run, n>> \in granted
  BY DEF Orderly, InTurn
<1>6. n \notin v.did /\ v.fatal \in BOOLEAN
  BY <1>2 DEF Orderly, Invocations
<1>7. Orderly(w)
  BY <1>2, <1>3, <1>4, <1>5, <1>6, NodeSteps
<1> QED BY <1>1, <1>7

\* When no node is at work, nothing is ready and nothing can be skipped, and
\* nothing waits, then every node of a flow without loops is settled.
LEMMA NothingLeft ==
    ASSUME Shape, LoopFree, NEW s \in Snapshots, NEW r, Honest(r, s), Still(s), AtRest(s), ~Paused(s)
    PROVE  \A n \in Nodes(flow) : s.status[n] \in Settled
<1> DEFINE P == {n \in Nodes(flow) : s.status[n] \notin Settled}
<1>1. \A n \in P : s.status[n] = "pending" /\ n \in Nodes(flow) /\ ~flow.nodes[n].disabled
  BY DEF Snapshots, Statuses, Settled, Still, Paused, Honest
<1>2. SUFFICES ASSUME P # {} PROVE FALSE
  OBVIOUS
<1>3. PICK n \in P : \A e \in Into(flow, n) : e.from \notin P
  <2>1. P \in SUBSET {n \in Nodes(flow) : ~flow.nodes[n].disabled}
    BY <1>1
  <2> HIDE DEF P
  <2> QED BY <1>2, <2>1 DEF LoopFree
<1>4. Joined(flow, s, n)
  BY <1>3, ShapeFacts DEF Joined, Pending, Into
<1>5. CASE Into(flow, n) = {} \/ \E e \in Into(flow, n) : Active(flow, s, e)
  BY <1>1, <1>4, <1>5 DEF Ready, Still
<1>6. CASE Into(flow, n) # {} /\ \A e \in Into(flow, n) : ~Active(flow, s, e)
  BY <1>1, <1>4, <1>6 DEF Skippable, AtRest
<1> QED BY <1>5, <1>6

\* What is left of a snapshot after skipping
LEMMA PropagatedFacts ==
    ASSUME Shape, NEW v, Orderly(v), v.phase = "open", AtWork(v) = {}, NEW s, s = Propagated(flow, v.snap)
    PROVE  /\ s \in Snapshots /\ AtRest(s) /\ Honest(v.run, s)
           /\ \A n \in Nodes(flow) : s.status[n] # "running"
           /\ \A n \in v.did : s.status[n] = "completed"
           /\ ~v.fatal => Clean(s)
           /\ v \in Invocations
<1>1. v \in Invocations /\ v.snap \in Snapshots
  BY DEF Orderly, Invocations
<1>2. s \in SkipsOf(v.snap) /\ AtRest(s)
  BY <1>1, PropagatedRests
<1>3. \A n \in Nodes(flow) : s.status[n] = v.snap.status[n] \/ (v.snap.status[n] = "pending" /\ s.status[n] = "skipped")
  BY <1>2 DEF SkipsOf
<1>4. s \in Snapshots /\ s.approvals = v.snap.approvals
  BY <1>2 DEF SkipsOf
<1>5. Honest(v.run, s)
  BY <1>3, <1>4 DEF Orderly, Honest
<1>6. \A n \in Nodes(flow) : s.status[n] # "running"
  BY <1>3 DEF Orderly, AtWork
<1>7. \A n \in v.did : s.status[n] = "completed"
  BY <1>1, <1>3 DEF Orderly, Invocations
<1>8. ~v.fatal => Clean(s)
  BY <1>3 DEF Orderly, Clean
<1> QED BY <1>1, <1>2, <1>4, <1>5, <1>6, <1>7, <1>8

LEMMA SelectedOrderly ==
    ASSUME Shape, NEW v, Orderly(v), v.phase = "open", AtWork(v) = {},
           NEW s, s = Propagated(flow, v.snap), NEW batch, batch = Batch(flow, s)
    PROVE  Orderly(Selected(v, s, batch))
<1>0. /\ s \in Snapshots /\ AtRest(s) /\ Honest(v.run, s)
      /\ \A n \in Nodes(flow) : s.status[n] # "running"
      /\ \A n \in v.did : s.status[n] = "completed"
      /\ ~v.fatal => Clean(s)
      /\ v \in Invocations
  BY PropagatedFacts
<1>1. \A n \in batch : n \in Nodes(flow) /\ Ready(flow, s, n)
  BY BatchIsReady
<1>2. CASE ~v.fatal /\ batch # {}
  <2> DEFINE st == [n \in Nodes(flow) |-> IF n \in batch THEN "running" ELSE s.status[n]]
             at == [n \in Nodes(flow) |-> IF n \in batch THEN "queued" ELSE "rest"]
             t == [status |-> st, branch |-> s.branch, approvals |-> s.approvals, attempts |-> s.attempts]
  <2>1. PICK w : w = Selected(v, s, batch)
    OBVIOUS
  <2>2. /\ w = [v EXCEPT !.snap = t, !.at = at] /\ t \in Snapshots
    <3>1. [s EXCEPT !.status = st] = t
      <4> HIDE DEF st
      <4> QED BY <1>0 DEF Snapshots
    <3>2. st \in [Nodes(flow) -> Statuses]
      BY <1>0 DEF Snapshots, Statuses
    <3>3. t \in Snapshots
      <4> HIDE DEF st
      <4> QED BY <1>0, <3>2 DEF Snapshots
    <3>4. Selected(v, s, batch) = [v EXCEPT !.snap = [s EXCEPT !.status = st], !.at = at]
      BY <1>2 DEF Selected
    <3> HIDE DEF st, at, t
    <3> QED BY <2>1, <3>1, <3>3, <3>4
  <2>3. at \in [Nodes(flow) -> Stages]
    BY DEF Stages
  <2>4. /\ t.approvals = s.approvals /\ t.branch = s.branch
        /\ \A n \in Nodes(flow) : n \in batch => t.status[n] = "running" /\ at[n] = "queued"
        /\ \A n \in Nodes(flow) : n \notin batch => t.status[n] = s.status[n] /\ at[n] = "rest"
    OBVIOUS
  <2> HIDE DEF t, at
  <2>5. /\ w \in Invocations /\ w.run = v.run /\ w.phase = "open" /\ w.snap = t /\ w.fatal = v.fatal
        /\ w.at = at /\ w.did = v.did
    BY <1>0, <2>2, <2>3 DEF Invocations
  <2>6. \A n \in batch : s.status[n] = "pending" /\ ~flow.nodes[n].disabled
    BY <1>0, <1>1 DEF Ready, Honest
  <2>7. AtWork(w) = batch
    BY <1>1, <2>4, <2>5 DEF AtWork
  <2>8. Honest(w.run, w.snap)
    BY <1>0, <2>4, <2>5, <2>6 DEF Honest
  <2>9. InTurn(w)
    <3> SUFFICES ASSUME NEW n \in batch
                 PROVE  /\ ~flow.nodes[n].disabled
                        /\ w.at[n] \notin {"calling", "backoff"}
                        /\ \A e \in Into(flow, n) : ~Pending(w.snap, e) /\ e.from \notin AtWork(w)
                        /\ Into(flow, n) = {} \/ \E e \in Into(flow, n) : Active(flow, w.snap, e)
      BY <2>7 DEF InTurn
    <3>1. n \in Nodes(flow) /\ Ready(flow, s, n) /\ w.at[n] = "queued"
      BY <1>1, <2>4, <2>5
    <3>2. ASSUME NEW e \in Into(flow, n)
          PROVE  /\ ~Pending(w.snap, e) /\ e.from \notin AtWork(w)
                 /\ Active(flow, s, e) => Active(flow, w.snap, e)
      <4>1. e.from \in Nodes(flow)
        BY ShapeFacts DEF Into
      <4>2. ~Pending(s, e)
        BY <3>1 DEF Ready, Joined
      <4>3. e.from \notin batch
        BY <2>6, <4>2 DEF Pending, Settled
      <4>4. t.status[e.from] = s.status[e.from] /\ t.branch[e.from] = s.branch[e.from]
        BY <2>4, <4>1, <4>3
      <4> QED BY <2>5, <2>7, <4>2, <4>3, <4>4 DEF Pending, Active
    <3> QED BY <2>6, <3>1, <3>2 DEF Ready
  <2>10. \A n \in w.did : w.snap.status[n] = "completed" /\ w.at[n] = "rest"
    <3>1. \A n \in w.did : n \in Nodes(flow) /\ s.status[n] = "completed"
      BY <1>0, <2>5 DEF Invocations
    <3> QED BY <2>4, <2>5, <2>6, <3>1
  <2>11. \A n \in Nodes(flow) : w.snap.status[n] = "running" => w.at[n] # "rest"
    BY <1>0, <2>4, <2>5
  <2>12. Clean(w.snap)
    BY <1>0, <1>2, <2>4, <2>5 DEF Clean
  <2> QED BY <2>1, <2>5, <2>8, <2>9, <2>10, <2>11, <2>12 DEF Orderly
<1>3. CASE ~(~v.fatal /\ batch # {})
  <2> DEFINE result == IF v.fatal THEN "failed" ELSE IF Paused(s) THEN "paused" ELSE "completed"
  <2>1. PICK w : w = [v EXCEPT !.snap = s, !.phase = "closing", !.result = result]
    OBVIOUS
  <2>2. Selected(v, s, batch) = w
    BY <1>3, <2>1 DEF Selected
  <2>3. /\ result \in {"failed", "paused", "completed"}
        /\ result # "failed" => ~v.fatal
        /\ result = "paused" => Paused(s)
        /\ result = "completed" => ~Paused(s)
    OBVIOUS
  <2> HIDE DEF result
  <2>4. /\ w \in Invocations /\ w.run = v.run /\ w.phase = "closing" /\ w.snap = s /\ w.fatal = v.fatal
        /\ w.at = v.at /\ w.did = v.did /\ w.result = result
    BY <1>0, <2>1, <2>3 DEF Invocations, FinalStatus
  <2>5. AtWork(w) = {}
    BY <2>4 DEF AtWork
  <2>6. ~v.fatal => Still(s)
    <3> SUFFICES ASSUME ~v.fatal, NEW n \in Nodes(flow), Ready(flow, s, n) PROVE FALSE
      BY <1>0 DEF Still
    <3> QED BY <1>0, <1>3, BatchStarts
  <2>7. Outcome(w.result, w.snap)
    <3>1. ASSUME w.result = "completed", LoopFree PROVE \A n \in Nodes(flow) : w.snap.status[n] \in Settled
      BY <1>0, <2>3, <2>4, <2>6, <3>1, NothingLeft
    <3> QED BY <1>0, <2>3, <2>4, <2>6, <3>1 DEF Outcome
  <2>8. \A n \in w.did : w.snap.status[n] = "completed" /\ w.at[n] = "rest"
    BY <1>0, <2>4 DEF Orderly
  <2> QED BY <1>0, <2>2, <2>4, <2>5, <2>7, <2>8 DEF Orderly, InTurn
<1> QED BY <1>2, <1>3

\* The deadline fails what is running, and what leads into it is settled.
LEMMA DeadlineOrderly ==
    ASSUME Shape, NEW v, Orderly(v), v.phase = "open"
    PROVE  Orderly([v EXCEPT !.phase = "closing", !.fatal = TRUE, !.result = "failed",
                      !.snap.status = [n \in Nodes(flow) |-> IF @[n] = "running" THEN "failed" ELSE @[n]]])
<1> DEFINE st == [n \in Nodes(flow) |-> IF v.snap.status[n] = "running" THEN "failed" ELSE v.snap.status[n]]
           t == [status |-> st, branch |-> v.snap.branch, approvals |-> v.snap.approvals,
                 attempts |-> v.snap.attempts]
<1>1. PICK w : w = [v EXCEPT !.phase = "closing", !.fatal = TRUE, !.result = "failed",
                      !.snap.status = [n \in Nodes(flow) |-> IF @[n] = "running" THEN "failed" ELSE @[n]]]
  OBVIOUS
<1>2. v \in Invocations /\ v.snap \in Snapshots
  BY DEF Orderly, Invocations
<1>3. st \in [Nodes(flow) -> Statuses]
  BY <1>2 DEF Snapshots, Statuses, Settled
<1>4. [v.snap EXCEPT !.status = st] = t
  <2> HIDE DEF st
  <2> QED BY <1>2 DEF Snapshots
<1>5. t \in Snapshots
  <2> HIDE DEF st
  <2> QED BY <1>2, <1>3 DEF Snapshots
<1>6. w = [v EXCEPT !.phase = "closing", !.fatal = TRUE, !.result = "failed", !.snap = t]
  <2> HIDE DEF t
  <2> QED BY <1>1, <1>4
<1>7. /\ t.approvals = v.snap.approvals /\ t.branch = v.snap.branch
      /\ \A n \in Nodes(flow) : v.snap.status[n] # "running" => t.status[n] = v.snap.status[n]
  OBVIOUS
<1> HIDE DEF t
<1>8. /\ w \in Invocations /\ w.run = v.run /\ w.phase = "closing" /\ w.snap = t /\ w.fatal = TRUE
      /\ w.at = v.at /\ w.did = v.did /\ w.result = "failed"
  BY <1>2, <1>5, <1>6 DEF Invocations, FinalStatus
<1>9. AtWork(w) = AtWork(v)
  BY <1>8 DEF AtWork
<1>10. Honest(w.run, w.snap)
  BY <1>7, <1>8 DEF Orderly, Honest
<1>11. InTurn(w)
  <2> SUFFICES ASSUME NEW n \in AtWork(v)
               PROVE  /\ ~flow.nodes[n].disabled
                      /\ w.at[n] \in {"calling", "backoff"} /\ NeedsApproval(flow, n) => <<w.run, n>> \in granted
                      /\ \A e \in Into(flow, n) : ~Pending(w.snap, e) /\ e.from \notin AtWork(w)
                      /\ Into(flow, n) = {} \/ \E e \in Into(flow, n) : Active(flow, w.snap, e)
    BY <1>9 DEF InTurn
  <2>1. /\ ~flow.nodes[n].disabled
        /\ v.at[n] \in {"calling", "backoff"} /\ NeedsApproval(flow, n) => <<v.run, n>> \in granted
        /\ \A e \in Into(flow, n) : ~Pending(v.snap, e) /\ e.from \notin AtWork(v)
        /\ Into(flow, n) = {} \/ \E e \in Into(flow, n) : Active(flow, v.snap, e)
    BY DEF Orderly, InTurn
  <2>2. ASSUME NEW e \in Into(flow, n)
        PROVE  ~Pending(w.snap, e) /\ (Active(flow, v.snap, e) => Active(flow, w.snap, e))
    <3>1. e.from \in Nodes(flow)
      BY ShapeFacts DEF Into
    <3>2. v.snap.status[e.from] # "running"
      BY <2>1 DEF Pending, Settled
    <3>3. t.status[e.from] = v.snap.status[e.from] /\ t.branch = v.snap.branch
      BY <1>7, <3>1, <3>2
    <3> QED BY <1>8, <2>1, <3>3 DEF Pending, Active
  <2> QED BY <1>8, <1>9, <2>1, <2>2
<1>12. \A n \in w.did : w.snap.status[n] = "completed" /\ w.at[n] = "rest"
  <2>1. \A n \in v.did : n \in Nodes(flow) /\ v.snap.status[n] = "completed" /\ v.at[n] = "rest"
    BY <1>2 DEF Orderly, Invocations
  <2> QED BY <1>7, <1>8, <2>1
<1>13. Orderly(w)
  BY <1>8, <1>10, <1>11, <1>12 DEF Orderly, Outcome
<1> QED BY <1>1, <1>13

-----------------------------------------------------------------------------
(* What an invocation is carries over to the next state *)

LEMMA SameShape ==
    ASSUME flow' = flow
    PROVE  /\ Shape' = Shape /\ Snapshots' = Snapshots /\ Invocations' = Invocations
           /\ LoopFree' = LoopFree
BY DEF Shape, Snapshots, Invocations, LoopFree

LEMMA Carried ==
    ASSUME flow' = flow, granted \subseteq granted', NEW i, Orderly(inv'[i])
    PROVE  Orderly(inv[i])'
<1>1. Honest(inv'[i].run, inv'[i].snap)
      => (\A n \in Nodes(flow) :
            /\ inv'[i].snap.approvals[n] = "approved" => <<inv'[i].run, n>> \in granted'
            /\ flow.nodes[n].disabled => inv'[i].snap.status[n] = "skipped")
  BY DEF Honest
<1>2. Honest(inv'[i].run, inv'[i].snap) => Honest(inv[i].run, inv[i].snap)'
  BY <1>1 DEF Honest
<1>3. AtWork(inv'[i]) = AtWork(inv[i])'
  BY DEF AtWork
<1>4. InTurn(inv'[i]) => InTurn(inv[i])'
  BY <1>3 DEF InTurn
<1>5. Clean(inv'[i].snap) => Clean(inv[i].snap)'
  BY DEF Clean, Handled
<1>6. Outcome(inv'[i].result, inv'[i].snap) => Outcome(inv[i].result, inv[i].snap)'
  BY <1>5, SameShape DEF Outcome, Still, Paused
<1> QED BY <1>2, <1>3, <1>4, <1>5, <1>6, SameShape DEF Orderly

-----------------------------------------------------------------------------
(* Invocations begin and end; rows keep what they came to *)

LEMMA EndedOrderly ==
    ASSUME NEW v, Orderly(v), NEW p \in {"ended", "dead"}
    PROVE  Orderly([v EXCEPT !.phase = p])
<1>1. PICK w : w = [v EXCEPT !.phase = p]
  OBVIOUS
<1>2. /\ w \in Invocations /\ w.run = v.run /\ w.phase = p /\ w.snap = v.snap /\ w.fatal = v.fatal
      /\ w.result = v.result /\ w.at = v.at /\ w.did = v.did
  BY <1>1 DEF Orderly, Invocations
<1>3. AtWork(w) = AtWork(v)
  BY <1>2 DEF AtWork
<1>4. InTurn(w)
  BY <1>2, <1>3 DEF Orderly, InTurn
<1>5. Orderly(w)
  BY <1>2, <1>4 DEF Orderly
<1> QED BY <1>1, <1>5

\* A snapshot from which a run may start or go on, with the nodes it did and
\* the approvals it was given
Startable(r, s, did, grants) ==
    /\ s \in Snapshots /\ Clean(s)
    /\ \A n \in Nodes(flow) :
         /\ s.status[n] # "running"
         /\ s.approvals[n] = "approved" => <<r, n>> \in grants
         /\ flow.nodes[n].disabled => s.status[n] = "skipped"
    /\ did \in SUBSET Nodes(flow) /\ \A n \in did : s.status[n] = "completed"

LEMMA NewOrderly ==
    ASSUME flow' = flow, NEW r \in Runs, NEW s, NEW did, Startable(r, s, did, granted'),
           NEW i, inv'[i] = Invocation(r, s, did)
    PROVE  Orderly(inv[i])'
<1> DEFINE at == [n \in Nodes(flow) |-> "rest"]
<1>1. at \in [Nodes(flow) -> Stages] /\ \A n \in Nodes(flow) : at[n] = "rest"
  BY DEF Stages
<1>2. PICK w : w = inv'[i]
  OBVIOUS
<1>3. w = [run |-> r, phase |-> "open", snap |-> s, fatal |-> FALSE, result |-> "none", at |-> at, did |-> did]
  BY <1>2 DEF Invocation
<1> HIDE DEF at
<1>4. w \in Invocations
  BY <1>1, <1>3 DEF Startable, Invocations
<1>5. \A n \in Nodes(flow) : w.at[n] = "rest"
  BY <1>1, <1>3
<1>6. AtWork(inv[i])' = {}
  BY <1>2, <1>5 DEF AtWork
<1>7. Honest(inv[i].run, inv[i].snap)'
  BY <1>2, <1>3 DEF Startable, Honest
<1>8. InTurn(inv[i])'
  BY <1>6 DEF InTurn
<1>9. Clean(inv[i].snap)'
  BY <1>2, <1>3 DEF Startable, Clean, Handled
<1>10. \A n \in w.did : n \in Nodes(flow) /\ w.snap.status[n] = "completed" /\ w.at[n] = "rest"
  BY <1>3, <1>5 DEF Startable
<1>11. w.phase = "open" /\ \A n \in Nodes(flow) : w.snap.status[n] # "running"
  BY <1>3 DEF Startable
<1> QED BY <1>2, <1>4, <1>7, <1>8, <1>9, <1>10, <1>11, SameShape DEF Orderly

LEMMA NewStartable ==
    ASSUME Shape, NEW r, NEW chosen, chosen \subseteq Triggers(flow)
    PROVE  /\ Startable(r, Started(chosen), {}, granted') /\ Startable(r, NewSnapshot(flow), {}, granted)
<1> DEFINE st == [n \in Nodes(flow) |-> IF flow.nodes[n].disabled THEN "skipped" ELSE "pending"]
           br == [n \in Nodes(flow) |-> {}]
           ap == [n \in Nodes(flow) |-> "none"]
           tr == [n \in Nodes(flow) |-> 0]
           su == [n \in Nodes(flow) |-> IF chosen # {} /\ n \in Triggers(flow) \ chosen THEN "skipped" ELSE st[n]]
           Made0(x) == [status |-> x, branch |-> br, approvals |-> ap, attempts |-> tr]
<1>1. NewSnapshot(flow) = Made0(st)
  BY DEF NewSnapshot
<1>2. Started(chosen) = Made0(su)
  <2>1. Started(chosen) = [NewSnapshot(flow) EXCEPT !.status = su]
    BY DEF Started, NewSnapshot
  <2> HIDE DEF su, st, br, ap, tr
  <2> QED BY <1>1, <2>1
<1>3. /\ st \in [Nodes(flow) -> {"skipped", "pending"}] /\ su \in [Nodes(flow) -> {"skipped", "pending"}]
      /\ br \in [Nodes(flow) -> SUBSET {"true", "false"}] /\ ap \in [Nodes(flow) -> Verdicts]
      /\ tr \in [Nodes(flow) -> Nat]
      /\ \A n \in Nodes(flow) : ap[n] = "none"
      /\ \A n \in Nodes(flow) : flow.nodes[n].disabled => st[n] = "skipped" /\ su[n] = "skipped"
  BY DEF Verdicts
<1> HIDE DEF st, su, br, ap, tr
<1>4. ASSUME NEW x \in [Nodes(flow) -> {"skipped", "pending"}],
             \A n \in Nodes(flow) : flow.nodes[n].disabled => x[n] = "skipped"
      PROVE  Startable(r, Made0(x), {}, granted) /\ Startable(r, Made0(x), {}, granted')
  <2>1. x \in [Nodes(flow) -> Statuses]
    BY DEF Statuses, Settled
  <2>2. Made0(x) \in Snapshots
    BY <1>3, <2>1 DEF Snapshots
  <2>3. \A n \in Nodes(flow) : Made0(x).status[n] \in {"skipped", "pending"} /\ Made0(x).approvals[n] = "none"
    BY <1>3
  <2> QED BY <1>4, <2>2, <2>3 DEF Startable, Clean
<1> QED BY <1>1, <1>2, <1>3, <1>4

\* What a row says of its run
Records ==
    [status : {"absent", "paused"} \cup FinalStatus, resumable : BOOLEAN,
     snap : Snapshots, did : SUBSET Nodes(flow)]

Truthful(r, w) ==
    /\ w \in Records /\ Honest(r, w.snap) /\ Outcome(w.status, w.snap)
    /\ \A n \in w.did : w.snap.status[n] = "completed"

LEMMA NoRowTruthful ==
    ASSUME Shape, NEW r, NEW x \in {"absent", "deduplicated"}
    PROVE  Truthful(r, [NoRow EXCEPT !.status = x]) /\ Truthful(r, NoRow)
<1>1. Startable(r, NewSnapshot(flow), {}, granted)
  BY NewStartable
<1>2. PICK w : w = [NoRow EXCEPT !.status = x]
  OBVIOUS
<1>3. w = [status |-> x, resumable |-> FALSE, snap |-> NewSnapshot(flow), did |-> {}]
  BY <1>2 DEF NoRow
<1> QED BY <1>1, <1>2, <1>3 DEF NoRow, Startable, Honest, Truthful, Records, FinalStatus, Outcome

LEMMA SavedTruthful ==
    ASSUME NEW v, Orderly(v), v.phase = "closing", NEW o \in BOOLEAN
    PROVE  Truthful(v.run, [status |-> v.result, resumable |-> o, snap |-> v.snap, did |-> v.did])
BY DEF Orderly, Outcome, Truthful, Records, Invocations

\* Nodes that waited are pending again; nothing else of the snapshot changes
\* but the decisions.
LEMMA ResumedStartable ==
    ASSUME Shape, granted \subseteq granted',
           NEW r, NEW w, Truthful(r, w), w.status = "paused", NEW nodes \in SUBSET Nodes(flow),
           NEW verdict \in {"approved", "rejected"}, NEW elapsed,
           verdict = "approved" => \A n \in nodes : <<r, n>> \in granted'
    PROVE  Startable(r, Resumed(w.snap, nodes, verdict, elapsed), w.did, granted')
<1> DEFINE s == w.snap
           known == [n \in Nodes(flow) |-> IF n \in nodes THEN verdict ELSE s.approvals[n]]
           again(n) == \/ s.status[n] = "waiting_approval" /\ known[n] # "none"
                       \/ s.status[n] = "waiting" /\ n \in elapsed
           st == [n \in Nodes(flow) |-> IF again(n) THEN "pending" ELSE s.status[n]]
           t == [status |-> st, branch |-> s.branch, approvals |-> known, attempts |-> s.attempts]
<1>1. s \in Snapshots /\ w.did \in SUBSET Nodes(flow) /\ Still(s) /\ Clean(s) /\ Honest(r, s)
      /\ \A n \in w.did : s.status[n] = "completed"
  BY DEF Truthful, Records, Outcome
<1>2. known \in [Nodes(flow) -> Verdicts]
      /\ \A n \in Nodes(flow) : known[n] = "approved" => <<r, n>> \in granted'
  BY <1>1 DEF Snapshots, Verdicts, Honest
<1>3. /\ st \in [Nodes(flow) -> Statuses]
      /\ \A n \in Nodes(flow) : \/ st[n] = s.status[n]
                                \/ st[n] = "pending" /\ s.status[n] \in {"waiting", "waiting_approval"}
  BY <1>1 DEF Snapshots, Statuses
<1>4. Resumed(s, nodes, verdict, elapsed) = t
  <2>1. Resumed(s, nodes, verdict, elapsed) = [s EXCEPT !.approvals = known, !.status = st]
    BY DEF Resumed
  <2> HIDE DEF known, st
  <2> QED BY <1>1, <2>1 DEF Snapshots
<1> HIDE DEF known, st
<1>5. t \in Snapshots
  BY <1>1, <1>2, <1>3 DEF Snapshots
<1>6. Clean(t)
  BY <1>1, <1>3 DEF Clean
<1>7. \A n \in w.did : t.status[n] = "completed"
  BY <1>1, <1>3
<1>8. \A n \in Nodes(flow) : /\ t.status[n] # "running"
                             /\ t.approvals[n] = "approved" => <<r, n>> \in granted'
                             /\ flow.nodes[n].disabled => t.status[n] = "skipped"
  BY <1>1, <1>2, <1>3 DEF Still, Honest
<1> QED BY <1>1, <1>4, <1>5, <1>6, <1>7, <1>8 DEF Startable

-----------------------------------------------------------------------------
(* The inductive invariant *)

\* A key that is claimed started one run, and one that is not none.
KeysHold ==
    /\ claimed \subseteq Keys /\ startedBy \in [Keys -> SUBSET Runs]
    /\ \A k \in Keys : /\ k \in claimed <=> startedBy[k] # {}
                       /\ \A r, q \in startedBy[k] : r = q

Bounds == granted \subseteq Runs \X Nodes(flow) /\ crashes \in 0..MaxCrashes

RowsHold == row \in [Runs -> Records] /\ \A r \in Runs : Truthful(r, row[r])

InvocationsHold == inv \in Seq(Invocations) /\ \A i \in DOMAIN inv : Orderly(inv[i])

RunnerInv == Shape /\ Bounds /\ KeysHold /\ RowsHold /\ InvocationsHold

LEMMA RowsCarry ==
    ASSUME flow' = flow, granted \subseteq granted', NEW r, Truthful(r, row'[r])
    PROVE  Truthful(r, row[r])'
<1>1. Records' = Records
  BY SameShape DEF Records
<1>2. Clean(row'[r].snap) => Clean(row[r].snap)'
  BY DEF Clean, Handled
<1>3. Outcome(row'[r].status, row'[r].snap) => Outcome(row[r].status, row[r].snap)'
  BY <1>2, SameShape DEF Outcome, Still, Paused
<1>4. Honest(r, row'[r].snap) => Honest(r, row[r].snap)'
  BY DEF Honest
<1> QED BY <1>1, <1>3, <1>4 DEF Truthful

LEMMA RowsStay ==
    ASSUME RowsHold, flow' = flow, granted \subseteq granted', row' = row
    PROVE  RowsHold'
<1>1. Records' = Records
  BY SameShape DEF Records
<1>2. ASSUME NEW r \in Runs PROVE Truthful(r, row[r])'
  BY RowsCarry DEF RowsHold
<1> QED BY <1>1, <1>2 DEF RowsHold

\* One invocation changes.
LEMMA OneMoves ==
    ASSUME RunnerInv, NEW i \in DOMAIN inv, NEW w, Orderly(w),
           inv' = [inv EXCEPT ![i] = w], UNCHANGED <<flow, row, claimed, granted, startedBy, crashes>>
    PROVE  RunnerInv'
<1>1. inv' \in Seq(Invocations)
  BY DEF RunnerInv, InvocationsHold, Orderly
<1>2. DOMAIN inv' = DOMAIN inv /\ inv'[i] = w /\ \A j \in DOMAIN inv \ {i} : inv'[j] = inv[j]
  BY DEF RunnerInv, InvocationsHold
<1>3. ASSUME NEW j \in DOMAIN inv' PROVE Orderly(inv[j])'
  <2>1. Orderly(inv'[j])
    BY <1>2 DEF RunnerInv, InvocationsHold
  <2> QED BY <2>1, Carried
<1>4. InvocationsHold'
  BY <1>1, <1>3, SameShape DEF InvocationsHold
<1>5. RowsHold'
  BY RowsStay DEF RunnerInv
<1>6. Shape' /\ Bounds' /\ KeysHold'
  BY SameShape DEF RunnerInv, Bounds, KeysHold
<1> QED BY <1>4, <1>5, <1>6 DEF RunnerInv

\* One is added.
LEMMA OneMore ==
    ASSUME RunnerInv, flow' = flow, granted \subseteq granted', NEW r \in Runs, NEW s, NEW did,
           Startable(r, s, did, granted'), inv' = Append(inv, Invocation(r, s, did))
    PROVE  InvocationsHold'
<1> DEFINE v == Invocation(r, s, did)
<1>1. inv \in Seq(Invocations) /\ \A i \in DOMAIN inv : Orderly(inv[i])
  BY DEF RunnerInv, InvocationsHold
<1>2. v \in Invocations
  BY DEF Invocation, Invocations, Startable, Stages
<1> HIDE DEF v
<1>3. /\ inv' \in Seq(Invocations) /\ DOMAIN inv' = 1..(Len(inv) + 1) /\ DOMAIN inv = 1..Len(inv)
      /\ inv'[Len(inv) + 1] = v /\ \A i \in DOMAIN inv : inv'[i] = inv[i]
      /\ Len(inv) \in Nat
  BY <1>1, <1>2 DEF v
<1>4. ASSUME NEW i \in DOMAIN inv' PROVE Orderly(inv[i])'
  <2>1. CASE i \in DOMAIN inv
    <3>1. Orderly(inv'[i])
      BY <1>1, <1>3, <2>1
    <3> QED BY <3>1, Carried
  <2>2. CASE i = Len(inv) + 1
    BY <1>3, <2>2, NewOrderly DEF v
  <2> QED BY <1>3, <2>1, <2>2
<1> QED BY <1>3, <1>4, SameShape DEF InvocationsHold

LEMMA InitHolds ==
    ASSUME Init PROVE RunnerInv
<1>1. Shape
  BY DEF Init, Shape
<1>2. \A r \in Runs : row[r] = NoRow
  BY DEF Init
<1>3. \A r \in Runs : Truthful(r, row[r])
  BY <1>1, <1>2, NoRowTruthful
<1>4. RowsHold
  <2>1. NoRow \in Records \/ Runs = {}
    BY <1>2, <1>3 DEF Truthful
  <2> QED BY <1>3, <2>1 DEF RowsHold, Init
<1>5. InvocationsHold
  BY DEF Init, InvocationsHold
<1>6. Bounds
  BY BoundsAssumption DEF Init, Bounds
<1>7. KeysHold
  BY DEF Init, KeysHold
<1> QED BY <1>1, <1>4, <1>5, <1>6, <1>7 DEF RunnerInv

LEMMA StartHolds ==
    ASSUME RunnerInv, NEW r \in Runs, NEW keys \in KeySets, NEW chosen, Start(r, keys, chosen)
    PROVE  RunnerInv'
<1>1. keys \subseteq Keys /\ \A k, l \in keys : k = l
  BY DEF KeySets
<1>2. keys \cap claimed = {} /\ claimed' = claimed \cup keys
      /\ startedBy' = [k \in Keys |-> startedBy[k] \cup (IF k \in keys THEN {r} ELSE {})]
  BY DEF Start
<1>3. KeysHold'
  BY <1>1, <1>2 DEF RunnerInv, KeysHold
<1>4. InvocationsHold'
  <2>1. Startable(r, Started(chosen), {}, granted')
    BY NewStartable DEF Start, TriggerRefused, RunnerInv
  <2> QED BY <2>1, OneMore DEF Start
<1>5. RowsHold'
  BY RowsStay DEF RunnerInv, Start
<1>6. Shape' /\ Bounds'
  BY SameShape DEF RunnerInv, Bounds, Start
<1> QED BY <1>3, <1>4, <1>5, <1>6 DEF RunnerInv

LEMMA InvocationsStay ==
    ASSUME InvocationsHold, flow' = flow, granted \subseteq granted', inv' = inv
    PROVE  InvocationsHold'
<1>1. ASSUME NEW i \in DOMAIN inv' PROVE Orderly(inv[i])'
  BY Carried DEF InvocationsHold
<1> QED BY <1>1, SameShape DEF InvocationsHold

\* One row is written.
LEMMA RowWritten ==
    ASSUME RowsHold, NEW r \in Runs, NEW w, Truthful(r, w), row' = [row EXCEPT ![r] = w],
           flow' = flow, granted' = granted
    PROVE  RowsHold'
<1>1. row' \in [Runs -> Records]
  BY DEF RowsHold, Truthful
<1>2. ASSUME NEW q \in Runs PROVE Truthful(q, row[q])'
  <2>1. Truthful(q, row'[q])
    BY DEF RowsHold
  <2> QED BY <2>1, RowsCarry
<1>3. Records' = Records
  BY SameShape DEF Records
<1> QED BY <1>1, <1>2, <1>3 DEF RowsHold

LEMMA DeduplicatedHolds ==
    ASSUME RunnerInv, NEW r \in Runs, NEW keys, StartDeduplicated(r, keys)
    PROVE  RunnerInv'
<1>1. Truthful(r, [NoRow EXCEPT !.status = "deduplicated"])
  BY NoRowTruthful DEF RunnerInv
<1>2. RowsHold'
  BY <1>1, RowWritten DEF RunnerInv, StartDeduplicated
<1>3. InvocationsHold'
  BY InvocationsStay DEF RunnerInv, StartDeduplicated
<1>4. Shape' /\ Bounds' /\ KeysHold'
  BY SameShape DEF RunnerInv, Bounds, KeysHold, StartDeduplicated
<1> QED BY <1>2, <1>3, <1>4 DEF RunnerInv

LEMMA ResumeHolds ==
    ASSUME RunnerInv, NEW r \in Runs, NEW nodes \in SUBSET Asked, NEW verdict \in {"approved", "rejected"},
           NEW elapsed, Resume(r, nodes, verdict, elapsed)
    PROVE  RunnerInv'
<1>1. nodes \subseteq Nodes(flow)
  BY DEF Asked
<1>2. /\ granted \subseteq granted' /\ granted' \subseteq Runs \X Nodes(flow)
      /\ verdict = "approved" => \A n \in nodes : <<r, n>> \in granted'
  BY <1>1 DEF Resume, RunnerInv, Bounds
<1>3. Startable(r, Resumed(row[r].snap, nodes, verdict, elapsed), row[r].did, granted')
  <2>1. Truthful(r, row[r]) /\ row[r].status = "paused" /\ Shape
    BY DEF RunnerInv, RowsHold, Resume, CanResume
  <2> QED BY <1>1, <1>2, <2>1, ResumedStartable
<1>4. InvocationsHold'
  BY <1>2, <1>3, OneMore DEF Resume
<1>5. RowsHold'
  BY <1>2, RowsStay DEF RunnerInv, Resume
<1>6. Shape' /\ Bounds' /\ KeysHold'
  BY <1>2, SameShape DEF RunnerInv, Bounds, KeysHold, Resume
<1> QED BY <1>4, <1>5, <1>6 DEF RunnerInv

LEMMA SaveHolds ==
    ASSUME RunnerInv, NEW i \in DOMAIN inv, NEW o \in BOOLEAN, Save(i, o)
    PROVE  RunnerInv'
<1> DEFINE v == inv[i]
           w == [status |-> v.result, resumable |-> v.result = "paused" /\ ~o, snap |-> v.snap, did |-> v.did]
<1>1. Orderly(v) /\ v.phase = "closing" /\ v.run \in Runs
  BY DEF Save, RunnerInv, InvocationsHold, Orderly, Invocations
<1>2. Truthful(v.run, w)
  BY <1>1, SavedTruthful
<1>3. RowsHold'
  <2>1. row' = [row EXCEPT ![v.run] = w] /\ flow' = flow /\ granted' = granted
    BY DEF Save
  <2> HIDE DEF w, v
  <2> QED BY <1>1, <1>2, <2>1, RowWritten DEF RunnerInv
<1>4. Orderly([v EXCEPT !.phase = "ended"])
  BY <1>1, EndedOrderly
<1>5. inv' = [inv EXCEPT ![i] = [v EXCEPT !.phase = "ended"]]
  BY DEF Save
<1>6. InvocationsHold'
  <2>1. inv' \in Seq(Invocations)
    BY <1>4, <1>5 DEF RunnerInv, InvocationsHold, Orderly
  <2>2. ASSUME NEW j \in DOMAIN inv' PROVE Orderly(inv[j])'
    <3>1. Orderly(inv'[j])
      BY <1>4, <1>5 DEF RunnerInv, InvocationsHold
    <3> QED BY <3>1, Carried DEF Save
  <2> QED BY <2>1, <2>2, SameShape DEF Save, InvocationsHold
<1>7. Shape' /\ Bounds' /\ KeysHold'
  BY SameShape DEF RunnerInv, Bounds, KeysHold, Save
<1> QED BY <1>3, <1>6, <1>7 DEF RunnerInv

LEMMA SelectHolds ==
    ASSUME RunnerInv, NEW i \in DOMAIN inv, Select(i)
    PROVE  RunnerInv'
<1>1. PICK s, batch : /\ s = Propagated(flow, inv[i].snap) /\ batch = Batch(flow, s)
                      /\ inv' = [inv EXCEPT ![i] = Selected(inv[i], s, batch)]
  BY DEF Select
<1>2. Shape /\ Orderly(inv[i]) /\ inv[i].phase = "open" /\ AtWork(inv[i]) = {}
  BY DEF RunnerInv, InvocationsHold, Select, Quiet, AtWork
<1>3. Orderly(Selected(inv[i], s, batch))
  BY <1>1, <1>2, SelectedOrderly
<1>4. UNCHANGED <<flow, row, claimed, granted, startedBy, crashes>>
  BY DEF Select
<1> QED BY <1>1, <1>3, <1>4, OneMoves

LEMMA DeadlineHolds ==
    ASSUME RunnerInv, NEW i \in DOMAIN inv, Deadline(i)
    PROVE  RunnerInv'
<1>1. PICK v : v = inv[i]
  OBVIOUS
<1>2. PICK w : w = [v EXCEPT !.phase = "closing", !.fatal = TRUE, !.result = "failed",
                      !.snap.status = [n \in Nodes(flow) |-> IF @[n] = "running" THEN "failed" ELSE @[n]]]
  OBVIOUS
<1>3. Shape /\ Orderly(v) /\ v.phase = "open"
  BY <1>1 DEF RunnerInv, InvocationsHold, Deadline
<1>4. Orderly(w)
  BY <1>2, <1>3, DeadlineOrderly
<1>5. inv' = [inv EXCEPT ![i] = w]
  BY <1>1, <1>2, ZenonT(60) DEF Deadline, RunnerInv, InvocationsHold
<1>6. UNCHANGED <<flow, row, claimed, granted, startedBy, crashes>>
  BY DEF Deadline
<1> QED BY <1>4, <1>5, <1>6, OneMoves

LEMMA NodeHolds ==
    ASSUME RunnerInv, NEW i \in DOMAIN inv, Node(i)
    PROVE  RunnerInv'
<1>1. PICK n \in Nodes(flow) :
        \/ Begin(i, n) \/ Suspend(i, n) \/ Throw(i, n) \/ Retry(i, n)
        \/ \E b \in Chosen(n) : Succeed(i, n, b)
  BY DEF Node
<1>2. PICK v : v = inv[i]
  OBVIOUS
<1>3. Shape /\ Orderly(v) /\ v \in Invocations
  BY <1>2 DEF RunnerInv, InvocationsHold, Orderly
<1>4. v.at[n] \in {"queued", "calling", "backoff"} => n \in AtWork(v)
  BY DEF AtWork
<1>5. ASSUME NEW w, Orderly(w), inv' = [inv EXCEPT ![i] = w],
             UNCHANGED <<flow, row, claimed, granted, startedBy, crashes>>
      PROVE  RunnerInv'
  BY <1>5, OneMoves
<1>6. CASE Begin(i, n)
  <2>1. n \in AtWork(v)
    BY <1>2, <1>4, <1>6 DEF Begin
  <2>2. Orderly(Begun(v, n))
    BY <1>3, <2>1, BegunOrderly
  <2>3. inv' = [inv EXCEPT ![i] = Begun(v, n)] /\ UNCHANGED <<flow, row, claimed, granted, startedBy, crashes>>
    BY <1>2, <1>6 DEF Begin
  <2> QED BY <1>5, <2>2, <2>3
<1>7. CASE Suspend(i, n)
  <2> DEFINE w == [v EXCEPT !.snap.status[n] = "waiting", !.at[n] = "rest"]
  <2>1. n \in AtWork(v)
    BY <1>2, <1>4, <1>7 DEF Suspend
  <2>2. Orderly(w)
    BY <1>3, <2>1, WaitingOrderly
  <2>3. inv' = [inv EXCEPT ![i] = w] /\ UNCHANGED <<flow, row, claimed, granted, startedBy, crashes>>
    BY <1>2, <1>7 DEF Suspend
  <2> QED BY <1>5, <2>2, <2>3
<1>8. CASE Throw(i, n)
  <2>1. n \in AtWork(v) /\ v.at[n] = "calling"
    BY <1>2, <1>4, <1>8 DEF Throw
  <2>2. Orderly(Failing(v, n)) /\ Orderly([v EXCEPT !.at[n] = "backoff"])
    BY <1>3, <2>1, FailingOrderly, BackoffOrderly
  <2>3. /\ inv' = [inv EXCEPT ![i] = IF CanRetry(v, n) THEN [v EXCEPT !.at[n] = "backoff"] ELSE Failing(v, n)]
        /\ UNCHANGED <<flow, row, claimed, granted, startedBy, crashes>>
    BY <1>2, <1>8 DEF Throw
  <2> QED BY <1>5, <2>2, <2>3
<1>9. CASE Retry(i, n)
  <2>1. n \in AtWork(v) /\ v.at[n] = "backoff"
    BY <1>2, <1>4, <1>9 DEF Retry
  <2>2. NeedsApproval(flow, n) => <<v.run, n>> \in granted
    BY <1>3, <2>1 DEF Orderly, InTurn
  <2>3. Orderly(Calling(v, n))
    BY <1>3, <2>1, <2>2, CallingOrderly
  <2>4. inv' = [inv EXCEPT ![i] = Calling(v, n)] /\ UNCHANGED <<flow, row, claimed, granted, startedBy, crashes>>
    BY <1>2, <1>9 DEF Retry
  <2> QED BY <1>5, <2>3, <2>4
<1>10. ASSUME NEW b \in Chosen(n), Succeed(i, n, b) PROVE RunnerInv'
  <2> DEFINE w == Succeeded(v, n, b)
  <2>1. n \in AtWork(v)
    BY <1>2, <1>4, <1>10 DEF Succeed
  <2>2. Orderly(w)
    BY <1>3, <2>1, SucceededOrderly
  <2>3. inv' = [inv EXCEPT ![i] = w] /\ UNCHANGED <<flow, row, claimed, granted, startedBy, crashes>>
    BY <1>2, <1>10 DEF Succeed
  <2> QED BY <1>5, <2>2, <2>3
<1> QED BY <1>1, <1>6, <1>7, <1>8, <1>9, <1>10

LEMMA CrashHolds ==
    ASSUME RunnerInv, Crash
    PROVE  RunnerInv'
<1>1. inv' = [i \in DOMAIN inv |-> [inv[i] EXCEPT !.phase = "dead"]]
  BY DEF Crash
<1>2. ASSUME NEW i \in DOMAIN inv PROVE Orderly(inv'[i])
  BY <1>1, EndedOrderly DEF RunnerInv, InvocationsHold
<1>3. inv' \in Seq(Invocations)
  <2>1. \A i \in DOMAIN inv : inv'[i] \in Invocations
    BY <1>2 DEF Orderly
  <2> QED BY <1>1, <2>1 DEF RunnerInv, InvocationsHold
<1>4. ASSUME NEW i \in DOMAIN inv' PROVE Orderly(inv[i])'
  BY <1>1, <1>2, Carried DEF Crash
<1>5. InvocationsHold'
  BY <1>3, <1>4, SameShape DEF Crash, InvocationsHold
<1>6. RowsHold'
  BY RowsStay DEF RunnerInv, Crash
<1>7. Shape' /\ Bounds' /\ KeysHold'
  BY BoundsAssumption, SameShape DEF RunnerInv, Bounds, KeysHold, Crash
<1> QED BY <1>5, <1>6, <1>7 DEF RunnerInv

LEMMA StutterHolds ==
    ASSUME RunnerInv, UNCHANGED vars
    PROVE  RunnerInv'
<1>1. InvocationsHold'
  BY InvocationsStay DEF RunnerInv, vars
<1>2. RowsHold'
  BY RowsStay DEF RunnerInv, vars
<1>3. Shape' /\ Bounds' /\ KeysHold'
  BY SameShape DEF RunnerInv, Bounds, KeysHold, vars
<1> QED BY <1>1, <1>2, <1>3 DEF RunnerInv

LEMMA RunnerStep ==
    ASSUME RunnerInv, [Next]_vars
    PROVE  RunnerInv'
<1>1. ASSUME NEW r \in Runs, NEW keys \in KeySets, StartDeduplicated(r, keys) PROVE RunnerInv'
  BY <1>1, DeduplicatedHolds
<1>2. ASSUME NEW r \in Runs, NEW keys \in KeySets, NEW c \in ChosenSets, Start(r, keys, c) PROVE RunnerInv'
  BY <1>2, StartHolds
<1>3. ASSUME NEW r \in Runs, NEW nodes \in SUBSET Asked, NEW v \in {"approved", "rejected"},
             NEW elapsed \in SUBSET Waiting(r), Resume(r, nodes, v, elapsed)
      PROVE  RunnerInv'
  BY <1>3, ResumeHolds
<1>4. ASSUME NEW i \in DOMAIN inv, Select(i) \/ Deadline(i) \/ Node(i) PROVE RunnerInv'
  BY <1>4, SelectHolds, DeadlineHolds, NodeHolds
<1>5. ASSUME NEW i \in DOMAIN inv, NEW o \in BOOLEAN, Save(i, o) PROVE RunnerInv'
  BY <1>5, SaveHolds
<1> QED BY <1>1, <1>2, <1>3, <1>4, <1>5, CrashHolds, StutterHolds DEF Next

LEMMA RunnerHolds == Spec => []RunnerInv
<1>1. Init => RunnerInv
  BY InitHolds
<1>2. RunnerInv /\ [Next]_vars => RunnerInv'
  BY RunnerStep
<1> QED BY <1>1, <1>2, PTL DEF Spec

-----------------------------------------------------------------------------
(* What follows *)

\* A node that needs approval is called only when it was approved, and one is
\* at work only on settled input that chose it: for any flows, runs, pauses,
\* resumes, retries, deadlines and crashes.
THEOREM WorkIsInTurn == Spec => []NodesInTurn
<1>1. ASSUME RunnerInv PROVE NodesInTurn
  <2> SUFFICES ASSUME NEW i \in DOMAIN inv, NEW n \in Nodes(flow), inv[i].at[n] # "rest"
               PROVE  /\ inv[i].at[n] \in {"calling", "backoff"} /\ NeedsApproval(flow, n)
                           => <<inv[i].run, n>> \in granted
                      /\ \A e \in Into(flow, n) : ~Pending(inv[i].snap, e)
                      /\ Into(flow, n) = {} \/ \E e \in Into(flow, n) : Active(flow, inv[i].snap, e)
    BY DEF NodesInTurn, Approved, WorksOnSettledInput
  <2> QED BY <1>1 DEF RunnerInv, InvocationsHold, Orderly, InTurn, AtWork
<1> QED BY <1>1, RunnerHolds, PTL

\* What a pause saved as done is not called again, and a trigger key that is
\* spent started one run.
THEOREM WorkIsOnce == Spec => []DoneOnce
<1>1. ASSUME RunnerInv PROVE DoneOnce
  <2>1. DoneOnceInLine
    BY <1>1 DEF RunnerInv, InvocationsHold, Orderly, DoneOnceInLine
  <2>2. ASSUME NEW k \in Keys
        PROVE  Cardinality(startedBy[k]) <= 1 /\ (k \in claimed <=> startedBy[k] # {})
    <3>1. k \in claimed <=> startedBy[k] # {}
      BY <1>1 DEF RunnerInv, KeysHold
    <3>2. CASE startedBy[k] = {}
      BY <3>1, <3>2, FS_EmptySet
    <3>3. CASE startedBy[k] # {}
      <4>0. PICK r : r \in startedBy[k]
        BY <3>3
      <4>1. startedBy[k] = {r}
        BY <1>1, <4>0 DEF RunnerInv, KeysHold
      <4>2. Cardinality(startedBy[k]) = 1
        BY <4>1, FS_Singleton
      <4> QED BY <3>1, <4>2
    <3> QED BY <3>2, <3>3
  <2> QED BY <2>1, <2>2 DEF DoneOnce, KeyStartsOneRun
<1> QED BY <1>1, RunnerHolds, PTL

\* What a row says of its run is so: a paused run is at rest and waits, and a
\* completed one has no failure that nothing handled; and if no connection of
\* the flow leads back, every node of a completed run is settled.
THEOREM RowsAreSo ==
    Spec => [](/\ TypeOK /\ PausedAtRest /\ CompletedIsClean
               /\ LoopFree => RowsAgree)
<1>1. ASSUME RunnerInv
      PROVE  TypeOK /\ PausedAtRest /\ CompletedIsClean /\ (LoopFree => RowsAgree)
  <2>1. TypeOK
    BY <1>1 DEF RunnerInv, Shape, Bounds, KeysHold, RowsHold, InvocationsHold, Records, TypeOK
  <2>2. PausedAtRest /\ CompletedIsClean
    BY <1>1 DEF RunnerInv, RowsHold, Truthful, Outcome, Still, Clean, Handled, PausedAtRest, CompletedIsClean
  <2>3. LoopFree => CompletedSettles
    BY <1>1 DEF RunnerInv, RowsHold, Truthful, Outcome, CompletedSettles
  <2> QED BY <2>1, <2>2, <2>3 DEF RowsAgree, CompletedIsDone
<1> QED BY <1>1, RunnerHolds, PTL
=============================================================================
