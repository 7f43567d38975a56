---------------------------- MODULE MCRunControl ----------------------------
(* Two runs whose plans have up to two steps, each kind of step somewhere.  *)
EXTENDS RunControlProps, TLC

CONSTANTS r1, r2

MCRequests == Runs \X (1..MaxSteps)
MCRunOf == [q \in MCRequests |-> q[1]]
MCPlans == {<<"approval", "read">>, <<"guarded">>}
=============================================================================
