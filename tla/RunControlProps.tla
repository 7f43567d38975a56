--------------------------- MODULE RunControlProps ---------------------------
(* What must hold of the execution core, whatever its users and tools do.   *)
EXTENDS RunControl

\* Values the variables range over.
TypeOK ==
    /\ status \in [Runs -> Statuses]
    /\ paused \in [Runs -> BOOLEAN]
    /\ aborted \in [Runs -> BOOLEAN]
    /\ pc \in [Runs -> PCs]
    /\ resumeAt \in [Runs -> Checkpoints]
    /\ step \in [Runs -> 0..MaxSteps]
    /\ plan \in [Runs -> Plans \cup {<<>>}]
    /\ verdict \in [Requests -> Verdicts]
    /\ calls \in [Requests -> Nat]
    /\ runners \subseteq Runs
    /\ row \in [Runs -> Statuses \cup {"absent"}]
    /\ waiters \subseteq Requests
    /\ timers \subseteq Requests
    /\ outcome \in [Requests -> Final \cup {"none"}]

\* A privileged tool call is only ever made with an authority verdict that
\* allowed it, and one that needs the Founder only after the Founder's yes:
\* pausing, resuming, cancelling or timing out never opens another way
\* (docs/founder-approvals.md:7-8).
Authorized ==
    \A r \in Runs, k \in 1..MaxSteps :
      calls[Ask(r, k)] > 0 =>
        /\ plan[r][k] # "read" => verdict[Ask(r, k)] = "allowed"
        /\ plan[r][k] = "approval" => outcome[Ask(r, k)] = "approved"

\* The tool of a step is called at most once, whatever is paused, resumed,
\* cancelled or approved meanwhile.
CalledOnce == \A r \in Runs, k \in 1..MaxSteps : calls[Ask(r, k)] <= 1

\* Every call of a tool was permitted, and made once.
CallsPermitted == Authorized /\ CalledOnce

\* A run waits for the Founder exactly while its request waits in the queue:
\* no request outlives its run, no run waits for a request nobody can decide.
ApprovalHasRun ==
    \A r \in Runs, k \in 1..MaxSteps :
      Ask(r, k) \in waiters <=> pc[r] = "approval" /\ step[r] = k

\* A live executor is in the runners table, so pause and cancel can reach it.
Controllable == \A r \in Runs : pc[r] \in Waits => r \in runners

\* The queue, the table of live runners and the executors agree.
TablesAgree == ApprovalHasRun /\ Controllable

\* What the runs table says of a finished run is what its runner said last, and
\* a row left by a process that died never claims that the run still works
\* (README "interrupted-run recovery").
RowsTellRuns ==
    \A r \in Runs :
      /\ pc[r] \in {"ended", "lost"} => row[r] = status[r]
      /\ pc[r] = "lost" => row[r] \notin {"heard", "running", "waiting_approval"}

\* No tool call starts for a run that was cancelled or is paused, whatever its
\* executor was waiting for when it happened.
CallsNeedGo ==
    [][\A r \in Runs, k \in 1..MaxSteps :
         calls'[Ask(r, k)] > calls[Ask(r, k)] => ~aborted[r] /\ ~paused[r]]_vars

\* An unanswered approval does not hold its run forever: the timer settles it.
ApprovalSettles == \A r \in Runs : pc[r] = "approval" ~> pc[r] # "approval"

\* A cancelled run stops, unless it is inside a planner or tool that never
\* returns (the abort signal is not handed to adapters).
CancelStops ==
    \A r \in Runs : aborted[r] ~> pc[r] \in {"planning", "tool", "ended", "lost"}

\* A run neither waits for the Founder nor outlives its cancellation for ever.
RunsSettle == ApprovalSettles /\ CancelStops

-----------------------------------------------------------------------------
(* The invariant that proves the ones above: what each wait of an executor  *)
(* knows about its step.                                                    *)

\* The step an executor waits in is a step of the plan it was given.
StepInPlan ==
    \A r \in Runs :
      /\ pc[r] \in {"held", "approval", "tool"} => plan[r] \in Plans /\ step[r] \in 1..Len(plan[r])
      /\ pc[r] \in {"none", "scheduled", "planning"} => step[r] = 0

\* The step about to call its tool has not called it.
NotYetCalled(r) == calls[Ask(r, step[r])] = 0

\* Later steps are untouched, and so is a step that is still to begin or to be
\* approved; an approved step that was paused keeps its permit and its yes.
RunInOrder(r) ==
    /\ \A k \in 1..MaxSteps : k > step[r] => calls[Ask(r, k)] = 0
    /\ pc[r] = "approval" =>
          /\ NotYetCalled(r) /\ ~aborted[r]
          /\ verdict[Ask(r, step[r])] = "allowed"
    /\ pc[r] = "held" /\ resumeAt[r] \in {"begin", "call"} => NotYetCalled(r)
    /\ pc[r] = "held" /\ resumeAt[r] = "call" =>
          /\ verdict[Ask(r, step[r])] = "allowed"
          /\ outcome[Ask(r, step[r])] = "approved"

CallsInOrder == \A r \in Runs : RunInOrder(r)

\* Everything at once: inductive, and implied by nothing weaker.
Inductive ==
    /\ TypeOK
    /\ timers = waiters
    /\ ApprovalHasRun
    /\ Controllable
    /\ StepInPlan
    /\ CallsInOrder
    /\ Authorized
    /\ CalledOnce

-----------------------------------------------------------------------------
(* Statements of the repository that the code does not keep.                *)

\* task-runner.ts:325-328 isTerminal(): cancelled is a terminal status.
CancelIsFinal ==
    [][\A r \in Runs : status[r] = "cancelled" => status'[r] = "cancelled"]_vars

\* README.md:15 "A task keeps advancing until completed, explicitly paused,
\* blocked [...] or waiting for approval": a running run has an executor.
RunningAdvances == \A r \in Runs : status[r] = "running" => pc[r] # "ended"

\* docs/intelligence-kernel.md:71 pause/resume: a paused run can be resumed,
\* so its executor is still there.
PausedCanResume ==
    \A r \in Runs : (r \in runners /\ status[r] = "paused") => pc[r] # "ended"

\* docs/founder-approvals.md:7 "la ejecucion queda en waiting_approval" while
\* the Founder has not decided (an explicit pause may cover it).
WaitingIsVisible ==
    \A r \in Runs : pc[r] = "approval" => status[r] \in {"waiting_approval", "paused"}
=============================================================================
