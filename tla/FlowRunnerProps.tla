--------------------------- MODULE FlowRunnerProps ---------------------------
(* What must hold of persisted flow executions, whatever tools, clocks and   *)
(* crashes do.                                                               *)
EXTENDS FlowRunner

Statuses == {"pending", "running", "waiting", "waiting_approval"} \cup Settled

Snapshots ==
    [status : [Nodes(flow) -> Statuses], branch : [Nodes(flow) -> SUBSET {"true", "false"}],
     approvals : [Nodes(flow) -> Verdicts], attempts : [Nodes(flow) -> Nat]]

Invocations ==
    [run : Runs, phase : {"open", "closing", "ended", "dead"}, snap : Snapshots,
     fatal : BOOLEAN, result : {"none", "paused"} \cup FinalStatus,
     at : [Nodes(flow) -> Stages], did : SUBSET Nodes(flow)]

\* Values the variables range over.
TypeOK ==
    /\ flow \in Flows
    /\ row \in [Runs -> [status : {"absent", "paused"} \cup FinalStatus, resumable : BOOLEAN,
                         snap : Snapshots, did : SUBSET Nodes(flow)]]
    /\ claimed \subseteq Keys
    /\ inv \in Seq(Invocations)
    /\ granted \subseteq Runs \X Nodes(flow)
    /\ startedBy \in [Keys -> SUBSET Runs]
    /\ crashes \in 0..MaxCrashes

\* A node that needs approval is not executed until somebody approved that
\* node of that run: neither a pause saved and resumed, nor a retry, nor a
\* second resume opens another way (flow-runner.ts:14).
Approved ==
    \A i \in DOMAIN inv, n \in Nodes(flow) :
      inv[i].at[n] \in {"calling", "backoff"} /\ NeedsApproval(flow, n)
        => <<inv[i].run, n>> \in granted

\* A node is at work only when everything that leads into it is settled and
\* some of it chose the node: a join never runs ahead of a branch that is
\* still deciding.
WorksOnSettledInput ==
    \A i \in DOMAIN inv, n \in Nodes(flow) :
      inv[i].at[n] # "rest" =>
        /\ \A e \in Into(flow, n) : ~Pending(inv[i].snap, e)
        /\ Into(flow, n) = {} \/ \E e \in Into(flow, n) : Active(flow, inv[i].snap, e)

\* What a node may do it does in its turn: approved, and with its input there.
NodesInTurn == Approved /\ WorksOnSettledInput

\* Along one line of resumes the work of a node is done once: what a pause
\* saved as done is not called again.
DoneOnceInLine ==
    \A i \in DOMAIN inv : \A n \in inv[i].did : inv[i].at[n] = "rest"

\* A paused row describes a run at rest: none of its nodes is running or could
\* run, so resuming it with what it waits for is all it needs.
PausedAtRest ==
    \A r \in Runs : row[r].status = "paused" =>
      /\ Paused(row[r].snap)
      /\ \A n \in Nodes(flow) :
           row[r].snap.status[n] # "running" /\ ~Ready(flow, row[r].snap, n)

\* A run reported as completed has no failure that nothing handled.
CompletedIsClean ==
    \A r \in Runs, n \in Nodes(flow) :
      row[r].status = "completed" /\ row[r].snap.status[n] = "failed" =>
        flow.nodes[n].onError = "error_branch" /\ ErrorTargets(flow, n) # {}

\* A trigger key starts one run at most, before and after restarts
\* (flow-run-persistence.ts:12), and a spent key did start one
\* (flow-runner.ts:148).
KeyStartsOneRun ==
    \A k \in Keys :
      /\ Cardinality(startedBy[k]) <= 1
      /\ k \in claimed <=> startedBy[k] # {}

\* What was done for a key or in a line of resumes is done once.
DoneOnce == DoneOnceInLine /\ KeyStartsOneRun

\* A flow with a time limit always ends, whether or not its tools answer
\* (tests/flow-runner.test.ts:203), unless the process dies.
TimedRunEnds ==
    \A i \in 1..MaxInvocations :
      [](flow.timed /\ i \in DOMAIN inv =>
           <>(i \in DOMAIN inv /\ inv[i].phase \in {"ended", "dead"}))

\* Every node of a run reported as completed was settled.
CompletedSettles ==
    \A r \in Runs, n \in Nodes(flow) :
      row[r].status = "completed" => row[r].snap.status[n] \in Settled

\* A run reported as completed is done: nothing is left open, and no failure
\* was left to nobody.
CompletedIsDone == CompletedSettles /\ CompletedIsClean

\* What the rows say of paused and of completed runs is so.
RowsAgree == TypeOK /\ PausedAtRest /\ CompletedIsDone

\* Claim of tests/flow-run-persistence.test.ts:75,104: a paused run is resumed
\* once, and an approved action is not carried out twice.
ApprovedActionOnce ==
    \A i, j \in DOMAIN inv, n \in Nodes(flow) :
      i # j /\ inv[i].run = inv[j].run /\ n \in inv[i].did /\ NeedsApproval(flow, n)
        => inv[j].at[n] = "rest" \/ n \in inv[j].did

\* Claim of flow-runner.ts:309: at the deadline the flow ends and only the
\* call already under way goes on: no node is tried again.
NoRetryAfterEnd ==
    [][\A i \in DOMAIN inv, n \in Nodes(flow) :
         inv[i].phase # "open" /\ inv[i].at[n] = "backoff" => inv'[i].at[n] = "backoff"]_vars
=============================================================================
