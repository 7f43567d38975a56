---------------------------- MODULE MCFlowRunner ----------------------------
(* Small workflows that between them use every rule of the executor.         *)
EXTENDS FlowRunnerProps, TLC

CONSTANTS r1, r2, k1

Plain(kind) ==
    [kind |-> kind, approval |-> FALSE, tries |-> 1, onError |-> "fail", disabled |-> FALSE]
Edge(a, b, label) == [from |-> a, to |-> b, branch |-> label]

\* a condition whose branches join: one of them retries, the other waits
Diamond ==
    [nodes |-> <<Plain("trigger"), Plain("logic"), [Plain("step") EXCEPT !.tries = 2],
                 Plain("wait"), Plain("step")>>,
     edges |-> {Edge(1, 2, "none"), Edge(2, 3, "true"), Edge(2, 4, "false"),
                Edge(3, 5, "none"), Edge(4, 5, "none")},
     width |-> 2, timed |-> FALSE]

\* two triggers; an approved action and its recovery
Guarded ==
    [nodes |-> <<Plain("trigger"), [Plain("step") EXCEPT !.approval = TRUE, !.onError = "error_branch"],
                 Plain("step"), Plain("trigger")>>,
     edges |-> {Edge(1, 2, "none"), Edge(4, 2, "success"), Edge(2, 3, "error")},
     width |-> 2, timed |-> FALSE]

\* under a deadline, an approval beside a step that retries and then tolerates
\* its failure; both lead to the last step
Timed ==
    [nodes |-> <<Plain("trigger"), Plain("approval"),
                 [Plain("step") EXCEPT !.tries = 2, !.onError = "continue"], Plain("step")>>,
     edges |-> {Edge(1, 2, "none"), Edge(1, 3, "none"), Edge(2, 4, "none"), Edge(3, 4, "none")},
     width |-> 2, timed |-> TRUE]

\* a recovery that leads back: valid, for error connections make no cycle
Loop ==
    [nodes |-> <<Plain("trigger"), Plain("step"), [Plain("step") EXCEPT !.onError = "error_branch"]>>,
     edges |-> {Edge(1, 2, "none"), Edge(2, 3, "none"), Edge(3, 2, "error")},
     width |-> 1, timed |-> FALSE]

\* an ordinary cycle: never run
Cycle ==
    [nodes |-> <<Plain("trigger"), Plain("step"), Plain("step")>>,
     edges |-> {Edge(1, 2, "none"), Edge(2, 3, "none"), Edge(3, 2, "none")},
     width |-> 1, timed |-> FALSE]

MCFlows == {Diamond, Guarded, Timed, Cycle}
MCLoop == {Loop}
MCTimed == {Timed}
MCSymmetry == Permutations(Runs)
=============================================================================
