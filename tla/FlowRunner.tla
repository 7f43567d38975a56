----------------------------- MODULE FlowRunner -----------------------------
(* Persisted executions of one workflow: runWorkflowPersisted and            *)
(* resumeWorkflowRun around runWorkflow.  An invocation is one call of       *)
(* either; it works on its own copy of the run's snapshot, and what survives *)
(* it is the row it saves and the trigger keys it claimed.                   *)
EXTENDS FlowGraph

CONSTANTS Flows, Runs, Keys, MaxInvocations, MaxCrashes

VARIABLES
  flow,      \* the workflow under execution
  row,       \* flow_runs: status, whether it can be resumed, and the snapshot
  claimed,   \* trigger keys reserved in the store
  inv,       \* the invocations, in the order they were made
  granted,   \* nodes of runs somebody approved                       (history)
  startedBy, \* per key, the runs it started                          (history)
  crashes

vars == <<flow, row, claimed, inv, granted, startedBy, crashes>>

FinalStatus == {"completed", "failed", "deduplicated"}
Stages == {"queued", "calling", "backoff", "rest"}
Verdicts == {"none", "approved", "rejected"}
NoRow == [status |-> "absent", resumable |-> FALSE, snap |-> NewSnapshot(flow), did |-> {}]

ASSUME BoundsAssumption == MaxInvocations \in Nat /\ MaxCrashes \in Nat

\* What the type AutomationWorkflow says of a workflow
FlowNodes ==
    [kind : {"trigger", "step", "logic", "approval", "wait"}, approval : BOOLEAN, tries : Nat,
     onError : {"fail", "continue", "error_branch"}, disabled : BOOLEAN]
FlowEdges == [from : Nat, to : Nat, branch : STRING]

ASSUME FlowsAssumption ==
    \A f \in Flows : /\ f.nodes \in Seq(FlowNodes) /\ f.edges \subseteq FlowEdges
                     /\ f.width \in Nat /\ f.timed \in BOOLEAN

Live(i) == inv[i].phase \in {"open", "closing"}
Invocation(r, s, did) ==
    [run |-> r, phase |-> "open", snap |-> s, fatal |-> FALSE, result |-> "none",
     at |-> [n \in Nodes(flow) |-> "rest"], did |-> did]

Init ==
    /\ flow \in {f \in Flows : Valid(f)}
    /\ row = [r \in Runs |-> NoRow]
    /\ claimed = {}
    /\ inv = <<>>
    /\ granted = {}
    /\ startedBy = [k \in Keys |-> {}]
    /\ crashes = 0

-----------------------------------------------------------------------------
(* Starting and resuming *)

Unused(r) == row[r].status = "absent" /\ \A i \in DOMAIN inv : inv[i].run # r

\* A plausible mistake in Started.
StartedReady(chosen) ==
    [NewSnapshot(flow) EXCEPT !.status =
       [n \in Nodes(flow) |-> IF n \in chosen THEN "ready" ELSE @[n]]]

\* A run that names its trigger leaves the other triggers out.
Started(chosen) ==
    [NewSnapshot(flow) EXCEPT !.status =
       [n \in Nodes(flow) |->
          IF chosen # {} /\ n \in Triggers(flow) \ chosen THEN "skipped" ELSE @[n]]]

\* The trigger is checked before its key is reserved: an invalid request must
\* not spend the key.
TriggerRefused(chosen) == ~(chosen \subseteq Triggers(flow))

\* A plausible mistake in Start.
StartUnclaimed(r, keys, chosen) ==
    /\ Unused(r) /\ Len(inv) < MaxInvocations
    /\ ~TriggerRefused(chosen)
    /\ startedBy' = [k \in Keys |-> startedBy[k] \cup (IF k \in keys THEN {r} ELSE {})]
    /\ inv' = Append(inv, Invocation(r, Started(chosen), {}))
    /\ UNCHANGED <<flow, row, claimed, granted, crashes>>

Start(r, keys, chosen) ==
    /\ Unused(r) /\ Len(inv) < MaxInvocations
    /\ ~TriggerRefused(chosen)
    /\ keys \cap claimed = {}
    /\ claimed' = claimed \cup keys
    /\ startedBy' = [k \in Keys |-> startedBy[k] \cup (IF k \in keys THEN {r} ELSE {})]
    /\ inv' = Append(inv, Invocation(r, Started(chosen), {}))
    /\ UNCHANGED <<flow, row, granted, crashes>>

\* A key already spent: the run is recorded as deduplicated and does nothing.
StartDeduplicated(r, keys) ==
    /\ Unused(r)
    /\ keys \cap claimed # {}
    /\ row' = [row EXCEPT ![r] = [NoRow EXCEPT !.status = "deduplicated"]]
    /\ UNCHANGED <<flow, claimed, inv, granted, startedBy, crashes>>

\* A plausible mistake in Resumed.
ResumedAfresh(s, nodes, verdict, elapsed) ==
    [NewSnapshot(flow) EXCEPT !.approvals =
       [n \in Nodes(flow) |-> IF n \in nodes THEN verdict ELSE s.approvals[n]]]

\* Decisions are merged into the snapshot; a node that waited for one, or whose
\* wait is over, is pending again.
Resumed(s, nodes, verdict, elapsed) ==
    LET known == [n \in Nodes(flow) |-> IF n \in nodes THEN verdict ELSE s.approvals[n]]
    IN  [s EXCEPT !.approvals = known,
                  !.status = [n \in Nodes(flow) |->
                     IF \/ @[n] = "waiting_approval" /\ known[n] # "none"
                        \/ @[n] = "waiting" /\ n \in elapsed
                     THEN "pending" ELSE @[n]]]

CanResume(r) == row[r].status = "paused" /\ row[r].resumable

Resume(r, nodes, verdict, elapsed) ==
    /\ CanResume(r) /\ Len(inv) < MaxInvocations
    /\ inv' = Append(inv, Invocation(r, Resumed(row[r].snap, nodes, verdict, elapsed), row[r].did))
    /\ granted' = granted \cup (IF verdict = "approved" THEN {<<r, n>> : n \in nodes} ELSE {})
    /\ UNCHANGED <<flow, row, claimed, startedBy, crashes>>

-----------------------------------------------------------------------------
(* The main loop *)

\* A plausible mistake in Quiet.
QuietEnough(i) == \E n \in Nodes(flow) : inv[i].at[n] = "rest"

Quiet(i) == \A n \in Nodes(flow) : inv[i].at[n] = "rest"
Paused(s) == \E n \in Nodes(flow) : s.status[n] \in {"waiting", "waiting_approval"}

Selected(v, s, batch) ==
    IF ~v.fatal /\ batch # {}
    THEN [v EXCEPT
           !.snap = [s EXCEPT !.status =
              [n \in Nodes(flow) |-> IF n \in batch THEN "running" ELSE @[n]]],
           !.at = [n \in Nodes(flow) |-> IF n \in batch THEN "queued" ELSE "rest"]]
    ELSE [v EXCEPT
           !.snap = s, !.phase = "closing",
           !.result = IF v.fatal THEN "failed" ELSE IF Paused(s) THEN "paused" ELSE "completed"]

Select(i) ==
    /\ inv[i].phase = "open" /\ Quiet(i)
    /\ \E s \in {Propagated(flow, inv[i].snap)} : \E batch \in {Batch(flow, s)} :
         inv' = [inv EXCEPT ![i] = Selected(@, s, batch)]
    /\ UNCHANGED <<flow, row, claimed, granted, startedBy, crashes>>

\* A plausible mistake in Deadline.
DeadlineBetweenBatches(i) ==
    /\ flow.timed /\ inv[i].phase = "open" /\ Quiet(i)
    /\ inv' = [inv EXCEPT ![i].phase = "closing", ![i].fatal = TRUE, ![i].result = "failed"]
    /\ UNCHANGED <<flow, row, claimed, granted, startedBy, crashes>>

\* The deadline passes at the top of the loop or while a batch is under way:
\* nodes still running are marked failed, but what they do cannot be stopped.
Deadline(i) ==
    /\ flow.timed /\ inv[i].phase = "open"
    /\ inv' = [inv EXCEPT
         ![i].phase = "closing", ![i].fatal = TRUE, ![i].result = "failed",
         ![i].snap.status = [n \in Nodes(flow) |-> IF @[n] = "running" THEN "failed" ELSE @[n]]]
    /\ UNCHANGED <<flow, row, claimed, granted, startedBy, crashes>>

\* The result is returned and the run's row saved.  A snapshot that is too big
\* or held something redacted cannot be resumed from.
Save(i, opaque) ==
    /\ inv[i].phase = "closing"
    /\ row' = [row EXCEPT ![inv[i].run] =
         [status |-> inv[i].result, resumable |-> inv[i].result = "paused" /\ ~opaque,
          snap |-> inv[i].snap, did |-> inv[i].did]]
    /\ inv' = [inv EXCEPT ![i].phase = "ended"]
    /\ UNCHANGED <<flow, claimed, granted, startedBy, crashes>>

-----------------------------------------------------------------------------
(* One node of a batch; after a deadline these still run *)

\* A plausible mistake in Failing.
FailingQuietly(v, n) == [v EXCEPT !.snap.status[n] = "failed", !.at[n] = "rest"]

Failing(v, n) ==
    LET handled == flow.nodes[n].onError = "error_branch" /\ ErrorTargets(flow, n) # {}
    IN  IF flow.nodes[n].onError = "continue"
        THEN [v EXCEPT !.snap.status[n] = "completed", !.at[n] = "rest"]
        ELSE [v EXCEPT !.snap.status[n] = "failed", !.at[n] = "rest", !.fatal = @ \/ ~handled]

Calling(v, n) == [v EXCEPT !.snap.attempts[n] = @ + 1, !.at[n] = "calling"]

\* A plausible mistake in Begun.
BegunUnasked(v, n) ==
    IF v.snap.approvals[n] = "rejected" THEN Failing(v, n) ELSE Calling(v, n)

Begun(v, n) ==
    LET decision == v.snap.approvals[n]
    IN  IF NeedsApproval(flow, n) /\ decision = "none"
        THEN [v EXCEPT !.snap.status[n] = "waiting_approval", !.at[n] = "rest"]
        ELSE IF NeedsApproval(flow, n) /\ decision = "rejected"
        THEN Failing(v, n)
        ELSE Calling(v, n)

Begin(i, n) ==
    /\ inv[i].phase # "dead" /\ inv[i].at[n] = "queued"
    /\ inv' = [inv EXCEPT ![i] = Begun(@, n)]
    /\ UNCHANGED <<flow, row, claimed, granted, startedBy, crashes>>

\* A logic node selects one of its branches; the others none.
Chosen(n) == IF flow.nodes[n].kind = "logic" THEN {{"true"}, {"false"}} ELSE {{}}

Succeeded(v, n, branches) ==
    [v EXCEPT !.snap.status[n] = "completed", !.snap.branch[n] = branches,
              !.at[n] = "rest", !.did = @ \cup {n}]

Succeed(i, n, branches) ==
    /\ inv[i].phase # "dead" /\ inv[i].at[n] = "calling"
    /\ inv' = [inv EXCEPT ![i] = Succeeded(@, n, branches)]
    /\ UNCHANGED <<flow, row, claimed, granted, startedBy, crashes>>

\* A wait node suspends the first time it is called in a run.
Suspend(i, n) ==
    /\ inv[i].phase # "dead" /\ inv[i].at[n] = "calling"
    /\ flow.nodes[n].kind = "wait" /\ inv[i].snap.attempts[n] = 1
    /\ inv' = [inv EXCEPT ![i].snap.status[n] = "waiting", ![i].at[n] = "rest"]
    /\ UNCHANGED <<flow, row, claimed, granted, startedBy, crashes>>

CanRetry(v, n) == v.snap.attempts[n] < flow.nodes[n].tries

\* The handler threw, or the node's own timeoutMs passed.
Throw(i, n) ==
    /\ inv[i].phase # "dead" /\ inv[i].at[n] = "calling"
    /\ flow.nodes[n].kind = "step"
    /\ inv' = [inv EXCEPT ![i] =
         IF CanRetry(@, n) THEN [@ EXCEPT !.at[n] = "backoff"] ELSE Failing(@, n)]
    /\ UNCHANGED <<flow, row, claimed, granted, startedBy, crashes>>

Retry(i, n) ==
    /\ inv[i].phase # "dead" /\ inv[i].at[n] = "backoff"
    /\ inv' = [inv EXCEPT ![i] = Calling(@, n)]
    /\ UNCHANGED <<flow, row, claimed, granted, startedBy, crashes>>

\* The process dies: every invocation is lost, the store stays as it was.
Crash ==
    /\ crashes < MaxCrashes /\ \E i \in DOMAIN inv : Live(i)
    /\ crashes' = crashes + 1
    /\ inv' = [i \in DOMAIN inv |-> [inv[i] EXCEPT !.phase = "dead"]]
    /\ UNCHANGED <<flow, row, claimed, granted, startedBy>>

-----------------------------------------------------------------------------
Asked == {n \in Nodes(flow) : NeedsApproval(flow, n)}
KeySets == {{}} \cup {{k} : k \in Keys}
ChosenSets == {{}} \cup {{n} : n \in Nodes(flow)}
Waiting(r) == {n \in Nodes(flow) : row[r].snap.status[n] = "waiting"}

Node(i) ==
    \E n \in Nodes(flow) :
      \/ Begin(i, n) \/ Suspend(i, n) \/ Throw(i, n) \/ Retry(i, n)
      \/ \E b \in Chosen(n) : Succeed(i, n, b)

Next ==
    \/ \E r \in Runs, keys \in KeySets :
         StartDeduplicated(r, keys) \/ \E c \in ChosenSets : Start(r, keys, c)
    \/ \E r \in Runs, nodes \in SUBSET Asked, v \in {"approved", "rejected"} :
         \E elapsed \in SUBSET Waiting(r) : Resume(r, nodes, v, elapsed)
    \/ \E i \in DOMAIN inv :
         Select(i) \/ Deadline(i) \/ Node(i) \/ \E o \in BOOLEAN : Save(i, o)
    \/ Crash

Spec == Init /\ [][Next]_vars

\* The executor keeps going and its clock runs; a tool may never answer.
Progress(i) ==
    i \in DOMAIN inv /\
      (\/ Select(i) \/ Deadline(i) \/ Save(i, FALSE) \/ Save(i, TRUE)
       \/ \E n \in Nodes(flow) : Begin(i, n) \/ Retry(i, n))

FairSpec == Spec /\ \A i \in 1..MaxInvocations : WF_vars(Progress(i))

=============================================================================
