------------------------------ MODULE RunControl ------------------------------
(***************************************************************************)
(* The execution core: TaskRunner (packages/core/src/task-runner.ts), the  *)
(* steps compiled from a plan, the approval queue they wait in, and the    *)
(* runtime's table of live runners, durable run rows and restart recovery  *)
(* (apps/runtime/server.ts).                                               *)
(*                                                                         *)
(* Grain.  The event sink, the store and the quality reviewers do no I/O   *)
(* that waits, so everything an executor does between two real waits       *)
(* (planner, tool, approval, 50 ms pause poll) runs in one turn of the     *)
(* event loop and is one action here; pause, resume, cancel and decisions  *)
(* arrive between those turns.                                             *)
(***************************************************************************)
EXTENDS ApprovalQueue

CONSTANTS MaxSteps,  \* longest plan
          Plans      \* plans prepareSteps may return: sequences of Kinds

\* read: not privileged.  guarded: privileged, no human approval (or one the
\* runtime's policy grants at once because the risk is low).  approval:
\* privileged and decided by the Founder through the queue.
Kinds == {"read", "guarded", "approval"}

ASSUME RunAssumption ==
    /\ MaxSteps \in Nat \ {0}
    /\ Requests = Runs \X (1..MaxSteps)
    /\ RunOf = [q \in Requests |-> q[1]]
    /\ \A p \in Plans : p \in Seq(Kinds) /\ Len(p) \in 1..MaxSteps

VARIABLES
    status,    \* TaskRunner.status; after a restart, the status of the row
    paused,    \* TaskRunner.paused
    aborted,   \* controller.signal.aborted
    pc,        \* where the executor of the run waits
    resumeAt,  \* the checkpoint a held executor polls in
    step,      \* number of the current step, 0 before the first
    plan,      \* steps handed to execute()
    verdict,   \* what evaluateAuthority said of a step's action
    calls,     \* how often the tool of a step was called
    runners,   \* keys of the runtime's runners map
    row        \* status column of the runs table

runVars == <<status, paused, aborted, pc, resumeAt, step, plan, verdict, calls, runners, row>>
vars == <<runVars, queueVars>>

Statuses == {"heard", "running", "waiting_approval", "blocked",
             "paused", "cancelled", "completed", "failed"}
Terminal == {"completed", "cancelled", "failed"}
Waits == {"scheduled", "planning", "held", "approval", "tool"}
PCs == Waits \cup {"none", "ended", "lost"}
Checkpoints == {"begin", "call", "progress", "finishedOk", "finishedBad"}
Verdicts == {"unasked", "allowed", "denied", "unconfirmed"}

Init ==
    /\ status = [r \in Runs |-> "heard"]
    /\ paused = [r \in Runs |-> FALSE]
    /\ aborted = [r \in Runs |-> FALSE]
    /\ pc = [r \in Runs |-> "none"]
    /\ resumeAt = [r \in Runs |-> "begin"]
    /\ step = [r \in Runs |-> 0]
    /\ plan = [r \in Runs |-> <<>>]
    /\ verdict = [q \in Requests |-> "unasked"]
    /\ calls = [q \in Requests |-> 0]
    /\ runners = {}
    /\ row = [r \in Runs |-> "absent"]
    /\ QueueInit

\* The approval request of step k of run r.
Ask(r, k) == <<r, k>>

-----------------------------------------------------------------------------
(* What an executor does in one turn.                                       *)

\* emit() persists the runner's snapshot after every event.
Shows(r, st) ==
    /\ status' = [status EXCEPT ![r] = st]
    /\ row' = [row EXCEPT ![r] = st]

\* Mutant: the final snapshot is not saved.
FinishUnsaved(r, st) ==
    /\ status' = [status EXCEPT ![r] = st]
    /\ UNCHANGED row
    /\ pc' = [pc EXCEPT ![r] = "ended"]
    /\ runners' = IF st \in Terminal \cup {"blocked"} THEN runners \ {r} ELSE runners

\* execute() returned or threw: finishRun() saves the snapshot and forgets the
\* runner only in these four statuses.
Finish(r, st) ==
    /\ Shows(r, st)
    /\ pc' = [pc EXCEPT ![r] = "ended"]
    /\ runners' = IF st \in Terminal \cup {"blocked"} THEN runners \ {r} ELSE runners

\* The catch block of execute(): a cancelled, blocked or paused status swallows
\* the error, anything else becomes a failure.
Throws(r, st) ==
    Finish(r, IF st \in {"cancelled", "blocked", "paused"} THEN st ELSE "failed")

\* block() and the exception every caller of it throws next.
Blocks(r) == Finish(r, "blocked")

\* assertCanExecute() returned a permit: the gateway calls the adapter, or
\* refuses (no such adapter or action, no permit it accepts) and the step throws.
Calls(r, k) ==
    \/ /\ Shows(r, "running")
       /\ calls' = [calls EXCEPT ![Ask(r, k)] = @ + 1]
       /\ pc' = [pc EXCEPT ![r] = "tool"]
       /\ UNCHANGED runners
    \/ /\ Throws(r, "running")
       /\ UNCHANGED calls

AsksFounder(r, k) ==
    /\ Shows(r, "waiting_approval")
    /\ pc' = [pc EXCEPT ![r] = "approval"]
    /\ Request(Ask(r, k))
    /\ UNCHANGED <<calls, runners>>

\* From the checkpoint that opens step k to the first wait inside it.
BeginStep(r, k, p) ==
    /\ step' = [step EXCEPT ![r] = k]
    /\ \/ /\ p[k] = "read"
          /\ Calls(r, k)
          /\ UNCHANGED <<verdict, queueVars>>
       \/ /\ p[k] # "read"
          /\ verdict' = [verdict EXCEPT ![Ask(r, k)] = "allowed"]
          /\ \/ p[k] = "guarded" /\ Calls(r, k) /\ UNCHANGED queueVars
             \/ p[k] = "approval" /\ AsksFounder(r, k)
       \/ /\ p[k] # "read"
          /\ \E v \in {"denied", "unconfirmed"} :
                verdict' = [verdict EXCEPT ![Ask(r, k)] = v]
          /\ Blocks(r)
          /\ UNCHANGED <<calls, queueVars>>

\* The tool's artifact goes through the Delivery Gate; then the step ends and
\* the next one begins, or the run completes.
EndStep(r) ==
    \/ /\ Throws(r, status[r])
       /\ UNCHANGED <<step, verdict, calls, queueVars>>
    \/ /\ step[r] < Len(plan[r])
       /\ BeginStep(r, step[r] + 1, plan[r])
    \/ /\ step[r] = Len(plan[r])
       /\ Finish(r, "completed")
       /\ UNCHANGED <<step, verdict, calls, queueVars>>

\* Mutant: a run held at the end of a step starts that step again.
ProceedsAgain(r, at) ==
    \/ at \in {"begin", "finishedOk"} /\ BeginStep(r, step[r], plan[r])
    \/ at = "call" /\ Calls(r, step[r]) /\ UNCHANGED <<step, verdict, queueVars>>
    \/ /\ at = "progress"
       /\ pc' = [pc EXCEPT ![r] = "tool"]
       /\ UNCHANGED <<status, step, verdict, calls, runners, row, queueVars>>
    \/ /\ at = "finishedBad"
       /\ Throws(r, status[r])
       /\ UNCHANGED <<step, verdict, calls, queueVars>>

Proceeds(r, at) ==
    \/ at = "begin" /\ BeginStep(r, step[r], plan[r])
    \/ at = "call" /\ Calls(r, step[r]) /\ UNCHANGED <<step, verdict, queueVars>>
    \/ /\ at = "progress"
       /\ pc' = [pc EXCEPT ![r] = "tool"]
       /\ UNCHANGED <<status, step, verdict, calls, runners, row, queueVars>>
    \/ at = "finishedOk" /\ EndStep(r)
    \/ /\ at = "finishedBad"
       /\ Throws(r, status[r])
       /\ UNCHANGED <<step, verdict, calls, queueVars>>

\* checkpoint() entered while paused: poll every 50 ms.
Holds(r, at, st) ==
    /\ status' = [status EXCEPT ![r] = st]
    /\ pc' = [pc EXCEPT ![r] = "held"]
    /\ resumeAt' = [resumeAt EXCEPT ![r] = at]
    /\ UNCHANGED <<verdict, calls, runners, row>>
-----------------------------------------------------------------------------
(* Events the executor waits for.                                           *)

\* Mutant: the runner is not put in the table.
StartUnlisted(r) ==
    /\ pc[r] = "none"
    /\ pc' = [pc EXCEPT ![r] = "scheduled"]
    /\ Shows(r, "heard")
    /\ UNCHANGED <<paused, aborted, resumeAt, step, plan, verdict, calls, runners, queueVars>>

StartRun(r) ==
    /\ pc[r] = "none"
    /\ pc' = [pc EXCEPT ![r] = "scheduled"]
    /\ runners' = runners \cup {r}
    /\ Shows(r, "heard")
    /\ UNCHANGED <<paused, aborted, resumeAt, step, plan, verdict, calls, queueVars>>

\* Mutant: the start timer returns early for a cancelled run.
HearUnlessCancelled(r) ==
    /\ pc[r] = "scheduled" /\ ~aborted[r]
    /\ pc' = [pc EXCEPT ![r] = "planning"]
    /\ Shows(r, "heard")
    /\ UNCHANGED <<paused, aborted, resumeAt, step, plan, verdict, calls, runners, queueVars>>

\* heard() after the 25 ms timer: the status is assigned unconditionally.
Hear(r) ==
    /\ pc[r] = "scheduled"
    /\ pc' = [pc EXCEPT ![r] = "planning"]
    /\ Shows(r, "heard")
    /\ UNCHANGED <<paused, aborted, resumeAt, step, plan, verdict, calls, runners, queueVars>>

PlanFails(r) ==
    /\ pc[r] = "planning"
    /\ Blocks(r)
    /\ UNCHANGED <<paused, aborted, resumeAt, step, plan, verdict, calls, queueVars>>

\* execute(): status running is assigned and shown before the first checkpoint.
PlanReady(r) ==
    /\ pc[r] = "planning"
    /\ \E p \in Plans :
         /\ plan' = [plan EXCEPT ![r] = p]
         /\ \/ /\ aborted[r]
               /\ Finish(r, "running")
               /\ UNCHANGED <<resumeAt, step, verdict, calls, queueVars>>
            \/ /\ ~aborted[r] /\ paused[r]
               /\ Shows(r, "running")
               /\ pc' = [pc EXCEPT ![r] = "held"]
               /\ resumeAt' = [resumeAt EXCEPT ![r] = "begin"]
               /\ step' = [step EXCEPT ![r] = 1]
               /\ UNCHANGED <<verdict, calls, runners, queueVars>>
            \/ /\ ~aborted[r] /\ ~paused[r]
               /\ BeginStep(r, 1, p)
               /\ UNCHANGED resumeAt
    /\ UNCHANGED <<paused, aborted>>

\* An adapter that throws skips the gateway's completed event, and with it the
\* checkpoint a result passes through.
ToolThrows(r) ==
    /\ pc[r] = "tool"
    /\ Throws(r, status[r])
    /\ UNCHANGED <<paused, aborted, resumeAt, step, plan, verdict, calls, queueVars>>

\* The adapter reports progress or its result: both pass a checkpoint.
ToolReports(r, at) ==
    /\ pc[r] = "tool"
    /\ \/ /\ aborted[r]
          /\ Throws(r, status[r])
          /\ UNCHANGED <<resumeAt, step, verdict, calls, queueVars>>
       \/ /\ ~aborted[r] /\ paused[r]
          /\ Holds(r, at, status[r])
          /\ UNCHANGED <<step, queueVars>>
       \/ /\ ~aborted[r] /\ ~paused[r]
          /\ Proceeds(r, at)
          /\ UNCHANGED resumeAt
    /\ UNCHANGED <<paused, aborted, plan>>

\* Mutant: the loop does not look at the abort signal.
PollPausedOnly(r) ==
    /\ pc[r] = "held"
    /\ ~paused[r]
    /\ Proceeds(r, resumeAt[r])
    /\ UNCHANGED <<paused, aborted, resumeAt, plan>>

\* The 50 ms poll: leave the loop when cancelled or no longer paused.
Poll(r) ==
    /\ pc[r] = "held"
    /\ \/ /\ aborted[r]
          /\ Throws(r, status[r])
          /\ UNCHANGED <<step, verdict, calls, queueVars>>
       \/ /\ ~aborted[r] /\ ~paused[r]
          /\ Proceeds(r, resumeAt[r])
    /\ UNCHANGED <<paused, aborted, resumeAt, plan>>

\* Mutant: no checkpoint after the approval.
ApproveUnchecked(r) ==
    /\ pc[r] = "approval"
    /\ Decide(Ask(r, step[r]), TRUE)
    /\ Calls(r, step[r])
    /\ UNCHANGED <<resumeAt, verdict, paused, aborted, step, plan>>

\* An approved action makes the run running again, whatever happened to its
\* status while it waited, and then passes one more checkpoint.  A cancelled
\* run is never here: Cancel settles its request in the same turn.
Approve(r) ==
    /\ pc[r] = "approval"
    /\ Decide(Ask(r, step[r]), TRUE)
    /\ \/ /\ paused[r]
          /\ Holds(r, "call", "running")
       \/ /\ ~paused[r]
          /\ Calls(r, step[r])
          /\ UNCHANGED <<resumeAt, verdict>>
    /\ UNCHANGED <<paused, aborted, step, plan>>

Reject(r) ==
    /\ pc[r] = "approval"
    /\ Decide(Ask(r, step[r]), FALSE)
    /\ Blocks(r)
    /\ UNCHANGED <<paused, aborted, resumeAt, step, plan, verdict, calls>>

\* Mutant: an expired request counts as approved.
TimeOutProceeds(r) ==
    /\ pc[r] = "approval"
    /\ Expire(Ask(r, step[r]))
    /\ Calls(r, step[r])
    /\ UNCHANGED <<paused, aborted, resumeAt, step, plan, verdict>>

TimeOut(r) ==
    /\ pc[r] = "approval"
    /\ Expire(Ask(r, step[r]))
    /\ Blocks(r)
    /\ UNCHANGED <<paused, aborted, resumeAt, step, plan, verdict, calls>>
-----------------------------------------------------------------------------
(* controlActiveRun(): HTTP and voice commands on a run in the table.       *)

Pause(r) ==
    /\ r \in runners
    /\ status[r] \notin Terminal
    /\ paused' = [paused EXCEPT ![r] = TRUE]
    /\ Shows(r, "paused")
    /\ UNCHANGED <<aborted, pc, resumeAt, step, plan, verdict, calls, runners, queueVars>>

Resume(r) ==
    /\ r \in runners
    /\ paused[r] /\ status[r] # "cancelled"
    /\ paused' = [paused EXCEPT ![r] = FALSE]
    /\ Shows(r, "running")
    /\ UNCHANGED <<aborted, pc, resumeAt, step, plan, verdict, calls, runners, queueVars>>

\* Mutant: the waiting executor is stopped but its request stays queued.
CancelKeepsRequest(r) ==
    /\ r \in runners
    /\ status[r] \notin Terminal
    /\ paused' = [paused EXCEPT ![r] = FALSE]
    /\ aborted' = [aborted EXCEPT ![r] = TRUE]
    /\ \/ pc[r] = "approval" /\ Blocks(r)
       \/ pc[r] # "approval" /\ Shows(r, "cancelled") /\ UNCHANGED <<pc, runners>>
    /\ UNCHANGED <<resumeAt, step, plan, verdict, calls, queueVars>>

\* cancelRun() resolves the pending approval first; the runner is marked
\* cancelled before the executor sees that resolution and blocks.
Cancel(r) ==
    /\ r \in runners
    /\ status[r] \notin Terminal
    /\ CancelRun(r)
    /\ paused' = [paused EXCEPT ![r] = FALSE]
    /\ aborted' = [aborted EXCEPT ![r] = TRUE]
    /\ \/ pc[r] = "approval" /\ Blocks(r)
       \/ pc[r] # "approval" /\ Shows(r, "cancelled") /\ UNCHANGED <<pc, runners>>
    /\ UNCHANGED <<resumeAt, step, plan, verdict, calls>>

\* Mutant: the interrupted rows are deleted.
RecoveredAbsent(st) ==
    IF st \in {"heard", "running", "waiting_approval"} THEN "absent" ELSE st

\* Mutant: a run waiting for approval is not recognised as interrupted.
RecoveredRunningOnly(st) == IF st \in {"heard", "running"} THEN "blocked" ELSE st
\* markInterruptedRuns(): the rows known to be stale.  'paused' is not one.
Recovered(st) == IF st \in {"heard", "running", "waiting_approval"} THEN "blocked" ELSE st

\* The process dies and starts again: runners, waiters, timers are gone.
Restart ==
    /\ row' = [r \in Runs |-> Recovered(row[r])]
    /\ status' = [r \in Runs |-> IF row[r] = "absent" THEN status[r] ELSE row'[r]]
    /\ pc' = [r \in Runs |-> IF pc[r] \in Waits THEN "lost" ELSE pc[r]]
    /\ runners' = {}
    /\ paused' = [r \in Runs |-> FALSE]
    /\ aborted' = [r \in Runs |-> FALSE]
    /\ arrivals' = <<>> /\ waiters' = {} /\ timers' = {} /\ history' = <<>>
    /\ UNCHANGED <<resumeAt, step, plan, verdict, calls, outcome, receipts, reply>>

Next ==
    \/ \E r \in Runs :
         \/ StartRun(r) \/ Hear(r) \/ PlanFails(r) \/ PlanReady(r)
         \/ ToolThrows(r) \/ (\E at \in {"progress", "finishedOk", "finishedBad"} : ToolReports(r, at))
         \/ Poll(r) \/ Approve(r) \/ Reject(r) \/ TimeOut(r)
         \/ Pause(r) \/ Resume(r) \/ Cancel(r)
    \/ Restart

\* Timers fire; planners, tools and humans promise nothing.
Fairness == \A r \in Runs : WF_vars(Hear(r)) /\ WF_vars(Poll(r)) /\ WF_vars(TimeOut(r))

Spec == Init /\ [][Next]_vars
FairSpec == Spec /\ Fairness
=============================================================================
