\* two permissions at most, one restart in two of the scenes
CONSTANTS
  g = g
  t = t
  c1 = c1
  c2 = c2
  p1 = p1
  p2 = p2
  p3 = p3
  k1 = k1
  k2 = k2
  k3 = k3
  Google = {g}
  Threads = {t}
  Consents = {c1, c2}
  Posts = {p1, p2, p3}
  Callers = {k1, k2, k3}
  Of <- MCOf
  w1 = w1
  w2 = w2
  q1 = q1
  q2 = q2
  Accounts <- MCAccounts
  Runs = {w1, w2}
  Asks = {q1, q2}
  MaxReadings = 2
  MaxBackoff = 2
  MaxPending = 2
  MaxGrants = 2
  MaxRestarts = 1
SPECIFICATION MCSpec
INVARIANTS VaultAgrees WatchRunsOnce
PROPERTIES RemovedStaysRemoved LeaseAnswered WatchGoesOn
CHECK_DEADLOCK FALSE
