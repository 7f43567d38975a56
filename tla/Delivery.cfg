\* Deliveries: two requests at a time on a branch of up to four commits, one
\* of them a foreign push, a revision, a custody chain of depth three and a
\* death; coordination: one operator, two scopes, two assignments, a grant, a
\* linked run, a manual handoff, four requests of the Founder and a death;
\* agents: two, two calls of a node whose timer is shorter than theirs; three
\* nodes of a work graph
CONSTANTS
  j1 = j1
  j2 = j2
  j3 = j3
  s1 = s1
  s2 = s2
  o1 = o1
  c1 = c1
  c2 = c2
  g1 = g1
  a1 = a1
  a2 = a2
  r1 = r1
  h1 = h1
  Jobs = {j1, j2, j3}
  Surfaces = {s1, s2}
  SurfaceOf <- MCSurfaceOf
  Explicit = {j3}
  Bound = {s2}
  MaxDepth = 3
  MaxCommits = 4
  MaxPushes = 1
  MaxBundle = 2
  MaxDeaths = 1
  Operators = {o1}
  Scopes = {c1, c2}
  Grants = {g1}
  Assignments = {a1, a2}
  Runs = {r1}
  Handoffs = {h1}
  MaxEdits = 4
  MaxRestarts = 1
  Agents = {1, 2}
  MaxCalls = 2
  NodeLimit = 1
  AgentLimit = 2
  WorkNodes = {1, 2, 3}
  SwarmAgents = {1, 2}
  SwarmWidth = 2
SPECIFICATION MCSpec
INVARIANTS VerifiedIsThere CoordinationHolds AgentWorkHolds
PROPERTIES DeliveriesHold
CHECK_DEADLOCK FALSE
