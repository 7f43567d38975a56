\* two runs, or a run and its resume; one trigger key, one crash
CONSTANTS
  r1 = r1
  r2 = r2
  k1 = k1
  Runs = {r1, r2}
  Keys = {k1}
  MaxInvocations = 2
  MaxCrashes = 1
  Flows <- MCFlows
SPECIFICATION FairSpec
INVARIANTS RowsAgree NodesInTurn DoneOnce
PROPERTIES TimedRunEnds
CHECK_DEADLOCK FALSE
