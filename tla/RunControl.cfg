\* two runs, plans of up to two steps, a history of one record
CONSTANTS
  r1 = r1
  r2 = r2
  Runs = {r1, r2}
  MaxSteps = 2
  Plans <- MCPlans
  Requests <- MCRequests
  RunOf <- MCRunOf
  HistoryLimit = 1
SPECIFICATION FairSpec
INVARIANTS Inductive CallsPermitted RowsTellRuns
PROPERTIES CallsNeedGo RunsSettle
