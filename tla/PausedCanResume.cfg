\* one run: what the code does against what the repository says
CONSTANTS
  r1 = r1
  r2 = r2
  Runs = {r1}
  MaxSteps = 2
  Plans <- MCPlans
  Requests <- MCRequests
  RunOf <- MCRunOf
  HistoryLimit = 1
SPECIFICATION FairSpec
INVARIANTS PausedCanResume
