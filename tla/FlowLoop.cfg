\* one run of the flow whose recovery leads back
CONSTANTS
  r1 = r1
  r2 = r2
  k1 = k1
  Runs = {r1}
  Keys = {}
  MaxInvocations = 1
  MaxCrashes = 0
  Flows <- MCLoop
SPECIFICATION Spec
INVARIANT CompletedSettles
CHECK_DEADLOCK FALSE
