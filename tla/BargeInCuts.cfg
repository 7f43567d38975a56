\* as Founder.cfg
CONSTANTS
  q1 = q1
  q2 = q2
  q3 = q3
  r1 = r1
  r2 = r2
  Requests <- MCRequests
  Runs <- MCRuns
  RunOf <- MCRunOf
  HistoryLimit = 2
  a = a
  b = b
  None = None
  Sockets = {a, b}
  MaxGeneration = 3
  MaxChunks = 1
  MaxUtterances = 2
  MaxLinks = 3
  MaxSpeeches = 2
  MaxFrames = 2
  MaxTurns = 2
  MaxEvents = 4
  MaxLosses = 1
  MaxLogins = 2
  MaxPolls = 2
SPECIFICATION MCSpec
PROPERTIES BargeInCuts
CHECK_DEADLOCK FALSE
