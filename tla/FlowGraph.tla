------------------------------ MODULE FlowGraph ------------------------------
(* The shape of a workflow (packages/automation/src/workflow.ts) and the     *)
(* rules by which the executor walks it (flow-runner.ts).  A flow is a       *)
(* record of its nodes, in their order, its connections, its width           *)
(* (maxConcurrency) and whether it has an executionTimeoutMs.                *)
EXTENDS Integers, Sequences, FiniteSets

Nodes(f) == 1..Len(f.nodes)
Into(f, n) == {e \in f.edges : e.to = n}

\* Only a workflow with a trigger, without self-loops and without a cycle of
\* its ordinary connections is run; error connections are not followed.
Triggers(f) == {n \in Nodes(f) : f.nodes[n].kind = "trigger" /\ ~f.nodes[n].disabled}

Acyclic(f) ==
    \A S \in SUBSET {n \in Nodes(f) : ~f.nodes[n].disabled} :
      S # {} => \E n \in S : \A e \in Into(f, n) : e.branch = "error" \/ e.from \notin S

Valid(f) ==
    /\ f.nodes # <<>> /\ f.width >= 1
    /\ Triggers(f) # {}
    /\ \A e \in f.edges : e.from \in Nodes(f) /\ e.to \in Nodes(f) /\ e.from # e.to
    /\ Acyclic(f)

ErrorTargets(f, n) == {e.to : e \in {d \in f.edges : d.from = n /\ d.branch = "error"}}

NeedsApproval(f, n) == f.nodes[n].approval \/ f.nodes[n].kind = "approval"

\* A snapshot s holds the status of every node and the branches it selected.
Settled == {"completed", "skipped", "failed"}

Pending(s, e) == s.status[e.from] \notin Settled

Active(f, s, e) ==
    IF e.branch = "error"
    THEN s.status[e.from] = "failed" /\ f.nodes[e.from].onError = "error_branch"
    ELSE /\ s.status[e.from] = "completed"
         /\ e.branch \in {"none", "success"} \cup s.branch[e.from] \/ s.branch[e.from] = {}

\* A plausible mistake in Joined.
JoinedAny(f, s, n) == Into(f, n) = {} \/ \E e \in Into(f, n) : ~Pending(s, e)

Joined(f, s, n) == \A e \in Into(f, n) : ~Pending(s, e)

Skippable(f, s, n) ==
    /\ s.status[n] = "pending" /\ Into(f, n) # {}
    /\ Joined(f, s, n)
    /\ \A e \in Into(f, n) : ~Active(f, s, e)

Ready(f, s, n) ==
    /\ s.status[n] = "pending"
    /\ Joined(f, s, n)
    /\ Into(f, n) = {} \/ \E e \in Into(f, n) : Active(f, s, e)

\* Skips spread until none is left to make: a node more per pass at least.
SkipOnce(f, s) ==
    [s EXCEPT !.status = [n \in Nodes(f) |-> IF Skippable(f, s, n) THEN "skipped" ELSE @[n]]]

\* A plausible mistake in Propagated.
SkipNothing(f, s) == s

Propagated(f, s) ==
    LET pass[k \in 0..Len(f.nodes)] ==
          IF k = 0 THEN {s} ELSE {SkipOnce(f, t) : t \in pass[k - 1]}
    IN  CHOOSE t \in pass[Len(f.nodes)] : TRUE

\* The first width ready nodes, in the order of the workflow.
Batch(f, s) ==
    LET ready == {n \in Nodes(f) : Ready(f, s, n)}
    IN  {n \in ready : Cardinality({m \in ready : m <= n}) <= f.width}

NewSnapshot(f) ==
    [status    |-> [n \in Nodes(f) |-> IF f.nodes[n].disabled THEN "skipped" ELSE "pending"],
     branch    |-> [n \in Nodes(f) |-> {}],
     approvals |-> [n \in Nodes(f) |-> "none"],
     attempts  |-> [n \in Nodes(f) |-> 0]]

=============================================================================
