\* Blueprint: two proposals, three revisions after the seed, a crash and a
\* refused write; assistant: two posts at once, three revisions, two deaths;
\* library: two items in four posts, one torn; projects: two, with two threads
\* and two posts at once, a list of two, a restart; business: two products and
\* three operations; references: three writes of the files or two bindings,
\* with a step back of the clock; mail: two flows, two edits; editor: three
\* nodes, three edits, two steps of history; traces: a run after two
\* others, or two at work after one, two revisions, two hours with one step
\* back, a note a run, a restart
CONSTANTS
  t1 = t1
  t2 = t2
  a1 = a1
  a2 = a2
  b1 = b1
  b2 = b2
  s1 = s1
  i1 = i1
  i2 = i2
  p1 = p1
  p2 = p2
  h1 = h1
  h2 = h2
  x1 = x1
  q1 = q1
  q2 = q2
  r1 = r1
  r2 = r2
  e1 = e1
  e2 = e2
  c1 = c1
  c2 = c2
  u1 = u1
  u2 = u2
  d1 = d1
  d2 = d2
  f1 = f1
  f2 = f2
  k1 = k1
  k2 = k2
  Tools = {t1, t2}
  Proposals = {b1, b2}
  MaxRevision = 4
  MaxCrashes = 1
  MaxFailures = 1
  Posts = {q1, q2}
  Surfaces = {s1}
  MaxProfiles = 3
  MaxDeaths = 2
  Items = {i1, i2}
  MaxPosts = 4
  MaxTornItems = 1
  Projects = {p1, p2}
  Threads = {h1, h2}
  Resources = {x1}
  Requests = {q1, q2}
  ThreadRuns = {r1}
  ListLimit = 2
  MaxRestarts = 1
  Products = {p1, p2}
  Entries = {e1, e2}
  Channels = {c1, c2}
  Accounts = {a1}
  Currencies = {u1, u2}
  Amounts = {1, 2}
  Times = {1, 2}
  Sources = {s1}
  MaxOperations = 3
  References = {r1, r2}
  Urls = {1, 2}
  Entities = {1, 2}
  MaxTime = 3
  ChronologyLimit = 4
  MaxFileEdits = 3
  MaxBinds = 2
  MaxRecorded = 1
  MaxSteps = 1
  Drafts = {d1, d2}
  Flows = {f1, f2}
  AccountOf <- MCAccountOf
  Minors = {a2}
  Managed = {}
  Peoples = {{"x"}, {"x", "y"}}
  Texts = {"t1", "t2"}
  Others = {"attachment"}
  MaxDraftEdits = 2
  MaxNodes = 3
  MaxHistory = 2
  MaxCommits = 3
  Imports <- MCImports
  StartDraft <- MCStart
  Refused <- MCRefused
  TracedRuns = {1, 2, 3}
  Strict = TRUE
  Recent = 1
  Baseline = 2
  MinSamples = 2
  Threshold = 15
  MaxActive = 2
  MaxHour = 2
  MaxSetBacks = 1
  MaxNotes = 1
  MaxTraceRestarts = 1
  Subjects = {x1}
  Scripts = {k1, k2}
  Photos = {p1}
  HintLife = 2
  EmbedLimit = 1
  BufferLimit = 2
  MaxMoment = 5
  MaxLed = 1
  MaxSpoken = 3
  MaxHouseRestarts = 1
SPECIFICATION MCSpec
INVARIANTS GovernanceAgrees SurfacesServed RecordsAgree ProjectsAgree InForceIsLast SentAsApproved DraftsHold TraceAgrees RecognitionAgrees
PROPERTIES RevisionsHold
CHECK_DEADLOCK FALSE
