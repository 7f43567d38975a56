# Janus Core: specification and verification

TLA+ modules, TLC configurations and TLAPS proofs for Janus Core, kept beside
the code they describe. Paths are relative to the repository.

Janus Core is one Node process (`apps/runtime/server.ts`) over one SQLite file
(`packages/core/src/sqlite-store.ts`). Clients speak HTTP, server-sent events
and a voice WebSocket to it; it plans a command, runs the plan's tool calls
through a gateway that asks an authority and, for what is sensitive, the
Founder. There is one event loop, so JavaScript between two `await`s is atomic;
everything interesting happens *at* the awaits, at timers, and when the process
dies between two SQLite statements.

1. [Inventory](#1-inventory)
2. [Modules](#2-modules)
3. [What is checked](#3-what-is-checked)
4. [What is proved](#4-what-is-proved)
5. [Where the code and its statements differ](#5-where-the-code-and-its-statements-differ)
6. [What is not modelled](#6-what-is-not-modelled)
7. [Plan](#7-plan)

## 1. Inventory

### Execution core

| component | state | operations | what makes it correct |
|---|---|---|---|
| `ApprovalQueue` (`core/approval-queue.ts`) | waiting requests with a promise and a timer each, a bounded history | request, decide, expire, cancelRun, list | one verdict per request; the verdict is audited once and is the one the waiting run got; an unanswered request settles |
| `TaskRunner` (`core/task-runner.ts`) with `compile-plan.ts` and `tool-gateway.ts` | status, step, paused/cancelled flags, a 50 ms pause poll | heard, plan, execute step, pause, resume, cancel, fail | no call without its permission; at most one call per step; none for a cancelled or paused run; a run that cannot go on says so |
| run control (`server.ts` 2195-2834) | table of live runners, run rows, run → blueprint | start, control, finish, `markInterruptedRuns` at start | the table reaches every live executor; rows tell the truth after a restart |

The runner calls the queue and *waits*; the Founder's decision, the timer and a
spoken or clicked cancel settle the wait from elsewhere. Hard: the three race;
a control changes the status while an executor is suspended somewhere else; the
process dies with rows half way.

### Automation

| component | state | operations | what makes it correct |
|---|---|---|---|
| flow runner (`automation/flow-runner.ts`, `flow-run-persistence.ts`, `workflow.ts`, `execution.ts`) | per run a snapshot of node states, retries, the saved row, claimed keys | start, run a batch, retry, wait, approve, suspend, resume, deadline, save | nodes run on settled inputs, approved ones after an approval, none twice along a line of resumes; a key starts one run |
| trigger dispatcher (`automation/trigger-dispatcher.ts`, `cron.ts`) | bindings, due slots, in-flight marks, durable cursors, durable offline queue | register, tick, fireEvent, webhook, dispatch, flushOffline | each firing runs its workflow once; runs of a schedule do not overlap; queued firings are kept and drained |
| definitions, expressions, code nodes | none | parse, validate, evaluate | validation accepts what the runner can execute |

The dispatcher starts the flow runner; both write the store. Hard: joins and
error branches settle in different passes; a batch fails while a sibling still
runs; repeated deliveries, missed slots, two flushes at once, restarts. The
dispatcher and the flow engine are not started by `server.ts` yet
(`docs/flow-triggers.md`); they are modelled as the classes behave.

### Voice

| component | state | operations | what makes it correct |
|---|---|---|---|
| transport (`voice/websocket-transport.ts`) | sockets, the registered one, a replacement under way | hello, audio, control, close | a new connection is answered; the old one is released |
| duplex engine (`voice/duplex-engine.ts`) | transcription loop, speech generation counter | push audio, transcribe, speak, interrupt | an interrupted speech is silent; the loop stays alive |
| session (`voice/session.ts`) | phase, microphone, active run | transcript, control, run event | the phase belongs to the active run; the end of an older run does not take the newer one |

Hard: three services answer late and in any order (speech to text, speaker
recognition, synthesis); two engines share a session during a reconnection.

### Authority

`security/authority-auth.ts` keeps principals, login challenges and sessions;
`founder-biometric.ts` keeps face keys, step-up challenges and one-use proofs;
the endpoints under `/api/auth` use both. Credentials and keys are durable, the
rest dies with the process. Correct: a challenge gives one session or proof, a
proof one request; a revocation ends what the key gave; the last face key stays;
a key id never returns. Hard: a request is authorized when its head arrives and
carried out when its body does; commands hold a proof through an approval.

`credential-vault.ts`, `google-oauth.ts`, `threads-token.ts` and
`credential-provider.ts` hold third-party credentials: one encrypted file,
single-use consents, one renewal per service at a time. Correct: a credential
that was removed stays removed; nothing of a foreign account is stored; every
call that asks for a token gets an answer. Hard: a renewal reads the entry,
awaits the other end and patches what is stored by then; several calls share it.

The social watch (`core/social-watch.ts`, `social-watch-scheduler.ts`) reads the
accounts with these credentials. A timer and the Founder's requests share one
run, which may throw. Correct: one run at a time, and always a next one.

### Governed records and deliveries

| component | state | operations | what makes it correct |
|---|---|---|---|
| Blueprint governance (`core/runtime-blueprint-governance.ts`, `blueprint-tool-sync.ts`) | revisions, proposals; the active one in memory | propose, approve, reject, apply, tool sync, rollback, start | one active revision; history is never rewritten; what starts to govern is verified |
| assistant control plane (`core/assistant-control-plane.ts`) | profile revisions, surfaces that track or pin one | revise, move a surface, seed | a surface resolves to a revision that is there |
| assistant delivery (`core/assistant-config-publisher.ts`, `assistant-release-target.ts`, `published-release.ts`, `assistant-consumer-ack.ts`, `adapters/github-adapter.ts`) | delivery rows; a branch that people push to as well | publish, read back, acknowledge, verify | what a verified row says is in the branch; rows follow each other on it; a row moves forward |
| operator coordination (`core/operator-coordination.ts`) | operators, scopes, grants, assignments, handoffs | enrol, grant, revoke, assign, hand over, linked runs | nobody reaches what was not granted; a finished run hands off |

Hard: several SQLite writes without a transaction; rows read before a body, a
branch or a consumer is awaited, and written after; answers of GitHub that are
lost after the commit was made.

### Records of runs, projects and the Founder

| component | state | operations | what makes it correct |
|---|---|---|---|
| decision traces and outcome learning (`core/decision-receipt.ts`, `runtime-decision-trace.ts`, `outcome-learning.ts`, `runtime-outcome-learning.ts`) | receipts, each naming the hash of the last; observations; drift proposals | start, plan, end, learn, propose | a run's receipts are one chain of one revision; its outcome is told once; one open proposal per revision |
| projects (`core/project-context.ts`) | projects, threads, resources, checkpoints, the threads of runs | post, start and finish a run in a thread | what belongs to a project stays in it; each run leaves one checkpoint in its thread |
| library (`core/reusable-library.ts`) | revisions of items with dependencies | post an item | an accepted revision can always be resolved |
| business operations (`core/business-operations.ts`) | ledger, health, channels, requirements | five posts, a snapshot | the snapshot tells what was acknowledged |
| references and identities (`core/founder-reference-library.ts`, `founder-social-identity-binding.ts`, `continuity.ts`) | two files, the chronology | start, bind | what was said last is in force |
| mail (`adapters/google-workspace-write-adapter.ts`, template `correo-enviar-aprobado`) | drafts at Gmail, the preview a flow holds | see, approve, check, send | what goes out is what was approved, once |

Hard: records of one instant, listings with a limit, a clock that is set back, a
finish that throws half way and is repeated, drafts edited behind the program.

### Agents, the editor and the household

| component | state | operations | what makes it correct |
|---|---|---|---|
| flow agent adapter (`orchestrator/flow-agent-adapter.ts`), swarm (`agent-swarm.ts`, `work-graph.ts`, `compiler.ts`) | calls under way with their timers; finished work | route, produce, verify, hand on; next batch | what a node takes was verified by another agent; a batch is never empty while work is left |
| flow editor (`apps/flow-editor/src/model.ts`, `browser.ts`) | the draft, undo and redo, the copy in the device | edit, connect, undo, load, keep | editing leads to no draft the engine refuses |
| page (`apps/pwa/app.js`, `pcm-tts-player.js`, `founder-session.js`) | sockets, audio context, microphone tracks, chunks to play; the run shown; the Founder's session, a poll and its timer | start and stop listening, play, interrupt; follow and control a run; sign in and out, poll | the microphone is open only while the button says so; the controls are those of the run shown; the Founder goes on being shown what waits |
| household recognition (`modules/face-id`, `modules/speaker-id`) | one encrypted file written by several processes; a face hint; the audio buffer | consent, enrol, withdraw, identify, hear | no template without consent; a withdrawn face stops leading; an utterance is named by its own audio |

### The rest

Continuity beyond the chronology, quality policies and planners are computations
over text and rows inside one turn. Other adapters are stateless translations of
a call into an HTTP request. Companion, wisdom and school modules and the iOS
bridge are at the edges. `PROJECT.json` lists every component with what
is and is not modelled, and every hazard with its line and its properties.

## 2. Modules

| module | models | state ↔ code |
|---|---|---|
| `ApprovalPromise` | what the queue promises: asked once, settled at most once, verdict final, settles eventually | abstract `verdict` per request |
| `ApprovalQueue` | `approval-queue.ts`, whole class | `arrivals`, `waiters`, `timers` = the map and its timers; `history` = the bounded list; `receipts` = calls of the audit callback |
| `RunControl` | the queue under the TaskRunner, the compiled steps, the gateway, the server's table of runners and rows | `pc` = the await an executor is suspended in, `resumeAt` = the checkpoint that called the pause poll, `calls` counts tool calls (history) |
| `FlowGraph` | the graph rules of `workflow.ts`: readiness, joins, skips, activation | operators over a flow record |
| `FlowRunner` | `runWorkflow`, `runWorkflowPersisted`, `resumeWorkflowRun` | `inv` = invocations with their snapshot and the stage of each node; `row` = the saved run; `claimed` = reserved keys |
| `TriggerDispatcher` | the dispatcher class | `running` = awaited dispatches and who awaits them; `flushing` = what each call of `flushOffline` listed; `cursor`, `queue`, `claimed` durable; `forgotten` = history of marks that were deleted under a run |
| `VoiceSession` | transport, engines and session together | `task` = the transcription loop, `heard` = an utterance under recognition, `generation`/`speech` = synthesis |
| `FounderAuthority` | both authentication services and the requests that use them | sets of challenges, sessions, proofs with the ticks they have left; `requests` = authorized, body awaited |
| `BlueprintGovernance` | revisions, proposals, tool sync, rollback, start | `rows`, `proposals` durable; `current` = the revision in memory; `todo` = SQLite writes still to be made |
| `AssistantControl` | profile revisions and surfaces | `posts` = what each request has read; `unsaved` = writes still to be made |
| `AssistantDelivery` | publication, read-back, custody and acknowledgement | `branch` = its commits; `job` = where a request stands between two answers; `rows` durable |
| `OperatorCoordination` | operators, scopes, grants, assignments, handoffs | `request` = the row a handoff read before its body; `given` and `used` = history of what was granted and reached |
| `Credentials` | vault, consents, renewals, leases | `vault` durable; `renewal` = the one a service shares; `alive` = permissions still good at the other end |
| `SocialWatch` | the scheduler and the run it shares | `armed`, `ticking` = its timer and its tick; `asks` = requests that wait for a run |
| `AgentWork` | a node handed to agents; a work graph given to a swarm | `call` = calls with agent and timer; `finished`, `atWork` = nodes of the graph |
| `RunTrace` | receipts, pins, outcome, observation and proposal of a run | `trace`, `learnt`, `drifts` durable; `pins` = `runBlueprints` |
| `ProjectRecords` | projects, threads, resources, checkpoints | `post` = what a request has read; `link` = `runProjects` |
| `ReusableLibrary` | items and their selections | `library` = rows by item and revision |
| `BusinessOperations` | the operations tables and the snapshot | one variable per table; `acknowledged` = history of the answers |
| `FounderRecords` | the reference files, bindings, what is in force | `chronology` durable; `careless`, `slipped` = history of stamps and instants that did not grow |
| `MailDrafts` | a draft, its preview, its approval, its sending | `draft` at Gmail; `flow` = each flow's preview and last reading |
| `FlowEditor` | the draft of the editor | `past`, `future` = undo and redo; `stored` = the copy in the device; `Refused` = the texts `parseDraft` does not take |
| `FounderPage` | the voice button, speech, the run shown, the panel of approvals | `starting` = the await `startPcmVoice` is in; `stops` = calls of `stopPcmVoice` that wait for the audio context; `polling` = requests under way with the session each carries |
| `HouseholdRecognition` | consent, templates, photos, audio | `vault` = the file, `script` = the copy a process writes back; `audio` = the utterance of each chunk |

`RunControlProps`, `FlowRunnerProps`, `TriggerProps` and `AuthorityProps` state
what must hold (the other modules state it at their end). Seven modules prove it:
`RunControlProofs` (the queue, the execution core, the traces of runs),
`FlowRunnerProofs`, `TriggerProofs`, `AuthorityProofs` (with the social watch and
the credentials), `FounderProofs` (the voice session and the page),
`DeliveryProofs` (with the coordination and the agents) and `RecordProofs` (the
Blueprint, mail, projects, the control plane, recognition, references, the
editor, the library, the operations), from the facts in `NumberLemmas` on
numbers, induction along them, and sums over finite sets. The `MC*` modules give
constants to TLC and compose components that share nothing, one per behaviour.

`RunControl` extends `ApprovalQueue` (its actions are the
queue's actions conjoined with the runner's), and `ApprovalQueue` instantiates
`ApprovalPromise` with a refinement mapping.

**Grain.** What an executor does between two real waits is one action. In
`RunControl` the waits are planner, tool, approval and the pause poll; in
`FlowRunner` a tool, a backoff, a wait node; in `VoiceSession` the three speech
services; in `FounderAuthority`, `AssistantControl`, `ProjectRecords` and
`OperatorCoordination` the request body; in `AssistantDelivery`, `Credentials`
and `MailDrafts` the answer of the other end; in `HouseholdRecognition` the
embedder, the recogniser and the file; in `FounderPage` whatever a callback of
the page awaits. Where a death may fall between two SQLite
statements and leave something that is read again (`BlueprintGovernance`,
`AssistantControl`, `ReusableLibrary`, `RunTrace`) each is an action or has a
torn variant.

**Operators named "a plausible mistake in X"** are variants of X with one fault.
No specification uses them; each shows that some property notices that fault.

## 3. What is checked

Run with `tlc -config <cfg> <module>`. All passing runs explore every state.

| run | module, cfg | properties | distinct states |
|---|---|---|---|
| run_control | `MCRunControl`, `RunControl.cfg` | Inductive, CallsPermitted, RowsTellRuns, CallsNeedGo, RunsSettle | 123,875 |
| flow_runner | `MCFlowRunner`, `FlowRunner.cfg` | RowsAgree, NodesInTurn, DoneOnce, TimedRunEnds | 199,497 |
| trigger_dispatcher | `MCTrigger`, `TriggerDispatcher.cfg` | MemoryAgrees, FiringsHold, QueueHolds | 269,474 |
| founder_page | `MCFounder`, `Founder.cfg` | QueueTypeOK, AnsweredOnce, KeepsPromise, SessionAgrees, LateChangesNothing, HelloAnswered, PageAgrees | 257,598 |
| founder_authority | `AuthorityProps`, `FounderAuthority.cfg` | TokensAgree, FaceKeysKept | 1,575,126 |
| credentials | `MCCredentials`, `Credentials.cfg` | VaultAgrees, WatchRunsOnce, RemovedStaysRemoved, LeaseAnswered, WatchGoesOn | 163,698 |
| assistant_delivery | `MCDelivery`, `Delivery.cfg` | VerifiedIsThere, DeliveriesHold, CoordinationHolds, AgentWorkHolds | 806,447 |
| records | `MCRecords`, `Records.cfg` | GovernanceAgrees, SurfacesServed, RecordsAgree, ProjectsAgree, InForceIsLast, SentAsApproved, DraftsHold, TraceAgrees, RecognitionAgrees, RevisionsHold | 990,862 |
| paused_can_resume | `MCRunControl`, `PausedCanResume.cfg` | refutes PausedCanResume | |
| flow_loop | `MCFlowRunner`, `FlowLoop.cfg` | refutes CompletedSettles | |
| offline_firing_queued | `MCTrigger`, `OfflineFiringQueued.cfg` | refutes OfflineFiringQueued | |
| barge_in_cuts | `MCFounder`, `BargeInCuts.cfg` | refutes BargeInCuts | |

Most properties are conjunctions of named parts; the comment of each part names
the code it is about.

### What each run shows, and its bounds

**founder_page.** What the Founder meets, six independent parts:

- The queue: three requests, two of one run, so that a cancellation settles two
  at once while another waits. History of two: the third decision evicts the
  first, which is all an eviction can do. `KeepsPromise` is the refinement,
  liveness included.
- A voice session: two connections, two utterances, three speeches per engine of
  one chunk: enough for a reconnection while speaking, an interruption of an
  older speech, and an older run that ends under a newer one.
- The voice button: three sockets, so that the late close event of a first one
  meets the start of a third; or two after the recognizer of the browser.
- Speech: one socket, two speeches of two chunks. An older speech may still be
  told to be interrupted while a newer one plays.
- The run shown: two commands whose answers may come in either order, four events
  each, one loss of the stream. Events stay below the 500 that a new stream
  replays, and end a run at most once.
- The panel: two sign-ins, two requests of each at once, so that two polls
  overlap with an expiry, a sign-out and the next sign-in.

**run_control.** Two runs; plans with an approval followed by a read, and with a
guarded step: every kind of step, and a step after an approval. A planner may
fail, tools fail or never return, controls arrive at any time, one restart. Two
runs are enough for what they share (queue, history, table); a plan of two steps
is enough for "the next step". `CallsPermitted` and `CallsNeedGo` need five or
more steps of three actors to go wrong.

**flow_runner.** One of four workflows per behaviour: a condition with a join, a
retry and a wait; an approved action with a recovery and two triggers; parallel
steps under a deadline; a cycle. Two invocations (two runs, or a run and its
resume), one key, one crash. `NodesInTurn` says a node works only when approved
and when all that leads into it is settled; `DoneOnce` that a line of resumes
repeats nothing and a key starts one run.

**trigger_dispatcher.** One of three installations per behaviour, each with a
start that throws and a crash: one schedule in two revisions over four instants
with missed slots; an event with an id, one without, and a repeated webhook
delivery; two events of one id at two nodes, in two revisions, with two flushes
that overlap. A workflow is registered and unregistered at any time, also under
its own runs. What the code then gives away is said in the properties: a run
whose mark a registration deleted may be joined by another (`forgotten`), an
event without an id has no key, and a queued event leaves the queue when it ran,
when it is too old or no longer bound, when its start threw and the failure was
audited (`trigger-dispatcher.ts:435`), or when a flush is at a record of its id
that another flush has done with. `SchedulesNeverOverlap`,
`EventStartsOnce` and `QueuedEventRun` state what the repository says without
these exceptions; section 5 tells how TLC refutes them.

**founder_authority.** The Founder, one delegate, two face keys, three ids, two
requests at once, one command, versions up to two. Ids are recycled once nothing
holds them. Time is relative: each thing carries the ticks it has left.
`Symmetry` permutes the face keys, which no operation tells apart; the run has
only invariants and action properties.

**credentials.** One of four scenes of the vault, or the watch, per behaviour:
two consents for one mailbox and a lease; a consent, two leases and a revocation
of the mailbox; a Threads token stored, replaced and removed; one lease of each
service. At most two permissions, and a restart in two of the scenes. Two callers
are enough for a shared renewal and one permission after another for a renewal
that returns to a changed entry. The watch has two accounts, two runs, two
requests of the Founder and a back-off of two.

**assistant_delivery.** Deliveries: three jobs of which two are at work at a
time, a branch of at most four commits of which one is a foreign push, one
revision of the bundle, a custody chain of depth three, one death; an answer may
be lost after the commit was made. Coordination: one operator, two scopes, two
assignments, a grant, a linked run, a manual handoff, four requests of the
Founder, one death. Agents: two agents and two calls of a node whose own timer is
shorter than theirs, so that it gives up before they answer; every work graph of
three nodes with errors, disabled nodes and two roles, staffed with one or two
agents.

**records.** Ten independent parts, one per behaviour:

- Blueprint: two proposals, three revisions after the seed, two tools of which
  each start registers any subset, a crash and a refused write anywhere.
- Assistant: two posts at once, three revisions, two deaths.
- Library: two items in four posts, one of them torn by a death. Two items that
  name each other are enough for every cycle and every missing revision.
- Projects: two, with two threads and two posts at once, a run, a listing cut at
  two, a restart.
- Business: two products, two channels, two currencies, three operations.
- References: three writes of the two files between starts, or two bindings while
  the clock moves, with one step back of it.
- Mail: two flows on the same or on different drafts, two edits behind them.
- Editor: drafts of up to three nodes, three edits, two steps of history, and
  files the engine takes and files it does not. The page opens with a new draft;
  a draft whose name, settings or parameters were edited is one it does not read
  back, and one more such edit makes it readable again.
- Traces: a run after two others, or two at work after one; two revisions, two
  hours with one step back, a note per run, a finish that throws, a restart.
- Household: one subject, two scripts on the file, one photo, a hint that lives
  two moments, an embedder that takes one, a buffer of two, five moments, three
  utterances, a restart.

The parts share no state, so a variable `part` (or `scene`) is chosen initially
and never changed, and their states add rather than multiply.

`CHECK_DEADLOCK FALSE` is set where the bounds or the code let the system stop:
no utterance, id, revision, edit or invocation is left, or the process does not
start again.

### Fairness

Fairness is given to the program's own steps and never to people.

- Approval timers fire (`setTimeout` of each request).
- An executor that was started runs, and the pause poll looks again every 50 ms.
  Planner and tools get none: nothing in the code bounds them, so `RunsSettle`
  allows a run to stay inside one.
- Flow runner: an invocation whose next step needs no tool answer takes it; the
  deadline and the backoff are timers.
- Dispatcher: dispatched runs end, also the one each flush waits for while
  others come and go (strong fairness); the loops over bindings and over queued
  records go on; and a flush is started again and again while connected (strong
  fairness, for the connection may come and go). Who calls `flushOffline` is not
  in the repository yet; `QueueDrains` is what it gives when somebody does.
- Credentials: a lease that was asked for goes on and a renewal times out or
  stores what it got (both are the program's own steps and timers); the other end
  owes no answer.
- Social watch: the timer fires, and a run plans, reads and reports.
- Voice: speech to text and synthesis answer or time out (30 s and 120 s in the
  gateways); speaker recognition answers.

## 4. What is proved

Seven modules of proofs, each along inductive invariants, over the lemmas of
`NumberLemmas`. That of `RunControl` is also an invariant of its run. Of every
passing run, all that is safety is proved, in one case under a condition the
theorem states (`LoopFree`).

`RunControlProofs`, the queue (any requests, runs, history limit):

- `AuditTrail`: `QueueSpec => []AnsweredOnce`. The invariant `QueueInv` adds the
  types of `waiters`, `outcome` and `receipts`: "a waiting request has no
  outcome yet" is what makes "one final receipt" inductive.
- `QueueTypes` (`QueueTypeOK`). The bound of the history is that of a filtered
  sequence: what a filter keeps is no longer than what it is given.
- `QueueRefinesPromise`: `QueueSpec => Promise!Spec`; each step settles the
  requests of one abstract step with one verdict, or stutters.

`RunControlProofs`, the execution core (any runs, plans, step bound, history
limit):

- `Invariance`: `Spec => []Inductive`. `Authorized` and `CalledOnce` are not
  inductive: a held executor may be about to call. `CallsInOrder` says what each
  wait knows (the step it waits in is not called yet, later ones are untouched,
  an approved and then held step keeps its permit and its yes), `TablesAgree`
  ties waits to the queue, `timers = waiters` makes an expiry find its waiter.
- `AuthorityFirst` (`CallsPermitted`), `QueueAndRunsAgree`, `TypeCorrect`: its
  conjuncts.
- `NoCallWithoutGo` (`CallsNeedGo`): a call is made in a turn that found the run
  neither cancelled nor paused (lemma `CallStep`).
- `RowsAreTrue` (`RowsTellRuns`): what the table says of a run that has ended,
  or whose process died, follows from what its status can be at each wait.

`RunControlProofs`, traces and learning (any runs, revisions, hours, windows,
thresholds):

- `TracesHold` (`TraceAgrees`). The invariant `TraceInv` follows each run: its
  receipts are in the order of writing unless the clock was set back under it,
  and of the revision it is pinned to until it is finished; outcome and
  resolution are there once and not before their time; what is learnt tells how
  it went. A revision has one open proposal at most, of one of its observations.
  The order of receipts and the last observation are stated by comparing, not by
  sorting; of finitely many observations of a revision one is the last.

`FlowRunnerProofs` (any workflows, runs, trigger keys, invocations, crashes):

- The skips of `Propagated` come to rest: each pass that skips something leaves
  fewer nodes pending, so one pass per node is enough (`PropagatedRests`); and a
  ready node makes a batch (`BatchStarts`).
- The invariant `RunnerInv` says of each invocation (`Orderly`) that its
  snapshot grants no approval nobody gave, that a node at work was enabled and
  stands on settled input *from nodes that are not at work themselves* (this is
  what keeps the input settled), that what it did is completed, and what it has
  come to when it closes; and of each row (`Truthful`) the same of its snapshot.
- `WorkIsInTurn` (`NodesInTurn`) and `WorkIsOnce` (`DoneOnce`).
- `RowsAreSo`: `TypeOK`, `PausedAtRest` and `CompletedIsClean` hold always;
  `RowsAgree`, which adds that every node of a completed run is settled, holds
  for workflows in which no connection of whatever kind leads back (`LoopFree`).
  The hypothesis is needed: run `flow_loop` refutes it for a valid workflow
  whose error connection leads back.

`TriggerProofs` (any installations: triggers, revisions, slots, events,
deliveries, flushes, crashes):

- `FiresOnce` (`FiringsHold`): what was run under a name has its key spent, or is
  a slot of a schedule that its cursor has passed; what is due lies past the
  cursor. A firing without a name claims nothing and is outside; once queued it
  has the id that was drawn for it, and the theorem is about it again.
- `MemoryIsTrue` (`MemoryAgrees`), with registration at any time: every mark is
  of a run, every run of a schedule is marked or was forgotten, and only of what
  was forgotten do two runs overlap.
- `NoFiringIsLost`: `QueuedEventKept`, the safety half of `QueueHolds`, with any
  number of overlapping flushes. Ids tell the queued apart; with one flush, what
  it has still to do is queued, so that what it removes is the record at hand,
  which ran or had a reason to go; with several, what is removed in its place is
  of the same id (`FlushInv`). These exceptions are in the property; section 5
  tells how the last of them comes about.

`AuthorityProofs` (any principals, face keys, lifetimes, ids):

- `HeldOnce` (`TokensAgree`). Besides the types, what was authorized and waits
  for its body holds a proof nobody else has, and what a revocation cut is past.
- `KeysAreKept` (`FaceKeysKept`): the check of the last key and its revocation
  are one turn, whatever was authorized before.

`AuthorityProofs`, the social watch (any accounts, runs, requests, back-off) and
the credentials (any services, callers, consents, renewals, deaths):

- `OneRunAtATime` (`WatchRunsOnce`). The invariant is the shape of a run at each
  stage and, where a scheduler works, that at most one run is not at rest: a
  request or the timer that finds one shares it, and its end arms the timer once.
- `VaultHolds` (`VaultAgrees`). `VaultAgrees` does not say what is still to be
  stored: `CredentialInv` adds that what a handler or a renewal carries is of a
  registered account, and that a lease under way has seen what it read and what
  is stored now.
- `RemovalHolds` (`RemovedStaysRemoved`): a renewal stores only over the entry it
  began with, so one that was removed meanwhile stays removed.

`FounderProofs` (any sockets, speeches, chunks, utterances; any numbers of
commands, events, losses, sessions and polls):

- `SessionHolds` (`SessionAgrees`). It is inductive with two additions: a speech
  not begun has no state, and what is muted is older than the current generation.
- `LateIsLate` (`LateChangesNothing`): a run leaves `activeRun` only by its own
  end, and a muted speech sends no chunk.
- `PageHolds` (`PageAgrees`), in three parts. The microphone: the stream is open
  from its grant to the end of what started it, and one start at most is failing.
  The run shown: what the controls say is a fact on the events received so far
  (`ShowsRun`: a pause that is shown was told, and not taken back since). The
  panel: while signed in and visible, a poll, a timer or a refresh will ask again.

`DeliveryProofs` (any operators, scopes, grants, assignments, runs; any jobs,
surfaces, bundles, depth of the chain, pushes, deaths; any agents, calls,
workflows):

- `WorkWasGiven` (`CoordinationHolds`). Besides the grants in force, who owns an
  assignment was given it; and what a request read before its body, or a linked
  run holds, was given as well. The second half is what stale rows need.
- `VerifiedIsPublished` (`VerifiedIsThere`). The invariant follows a commit from
  the put that made it to the row: what a job knows at each stage is of commits
  that are on the branch, and commits are never rewritten.
- `DeliveriesFollow` (`DeliveriesHold`). The lineage is a recursive function:
  that it exists for every depth, and that each of its heads is joined to the
  anchor by verified deliveries, goes up along the depth (`LineageExists`,
  `LineageKeeps`).

- `AgentsHold` (`TakenIsVerified`, `ToldOnce`): a call is told when it is over and
  not before, its verifier is another agent, and a node that is done has taken
  its last call.
- `SwarmHolds` (`SwarmGoesOn`, `SwarmIsStaffed`). The staffing is a fold over the
  nodes: what it has given after each node (`StaffedFor`) goes up along them. What
  is at work is no more than the width and depends on nothing that is left; a
  valid workflow has no cycle, so a node without open dependencies is there.
- `WorkHolds` (`AgentWorkHolds`): all of this together.

`RecordProofs`, the Blueprint (any tools, proposals, bound on revisions, deaths,
failures):

- `HistoryHolds` (`RevisionsHold`). What a request has checked is long past when
  its last write is made, so the invariant lists what each kind of request may
  still have to write (`Pending`, eleven patterns) with what each write needs:
  the draft that will be put in force is in its row as it was verified, or its
  row is the next one; the proposal that will be marked moves forward. A write
  turns one pattern into another (`WriteKeeps`), a request establishes one
  (`RequestsHold`), a refusal or a death leaves none.
- `LineHolds` (`GovernanceAgrees`). Where no write was refused, a request has yet
  to retire the revision in force, has retired it and not activated the next one,
  or has activated it (`Untouched`, `Between`, `Replaced`): the active rows are
  the one in memory, none, and the new one, the last of one line.

`RecordProofs`, the other records (any mailboxes, flows, edits; projects, threads,
runs, limits; surfaces, posts; people, photos, utterances; references, stamps,
clocks; nodes and histories; items and dependencies; products, currencies,
amounts; deaths):

- `MailHolds` (`SentAsApproved`): what a flow has read is what the draft says
  unless the draft was edited since, and the record of a message keeps which.
- `ProjectsHold` (`ProjectsAgree`): a run that works is linked to the thread it
  began in, and a checkpoint of it is there only when it has begun; what
  keeps a second one out is the listing, the first checkpoints of the project.
- `ControlHolds` (`SurfacesServed`). As for the Blueprint, the invariant lists
  what may still have to be written (`Heading`, `Historying`, `Binding`,
  `Ending`): what is served last is that every surface has its row.
- `RecognitionHolds` (`RecognitionAgrees`). A photo at work may name only whom the
  file allowed when it was asked, so a hint is never of a consent that has been
  gone for longer than an embedding and a hint last; the audio kept is of one
  utterance, unless those it mixes are set aside.
- `ReferencesHold` (`InForceIsLast`): what is in force of a reference carries the
  last stamp, and of a binding the last instant, where stamps and instants grow.
- `EditorHolds` (`DraftsHold`). Every edit of a sound draft makes a sound one.
  The order a workflow needs is a matter of paths: a set that is closed under the
  connections and leaves the node out shows that there is none, so nothing has to
  be said about paths one by one. A file may bring a draft with a cycle through a
  node that is switched off; switched on, it is wrong, so the property is of
  drafts that no such file has reached. Which texts are refused is a parameter:
  while the saved draft is one of them, nothing was edited since the page opened.
- `LibraryHolds` (`SelectionsResolve`): what a selection visits is the least
  complete set; a cycle that a new revision closes would go through it, and what
  it visits was looked at when it was posted.
- `BusinessHolds` (`SnapshotTellsAcknowledged`): an entry adds its amount to the
  total of its kind, and sums over finite sets do not depend on the order.
- `ListingsHold` (`RecordsAgree`): the last two together.

Assumptions are the `ASSUME`s of the modules: requests belong to runs; limits,
windows and thresholds are numbers; plans are sequences of step kinds no longer
than the bound; runs and references that are numbered or summed over are
finitely many; workflows and imported files are what their types say; special
values such as "none" are no run, no operator and no thread. TLC evaluates them
in each run.

Only model-checked: all liveness (`KeepsPromise`'s
fairness, `RunsSettle`, `TimedRunEnds`, `QueueDrains`, `HelloAnswered`,
`LeaseAnswered`, `WatchGoesOn`). Liveness under fairness and `ENABLED` are outside
what the prover can do here. So are the library's induction theorems, which take
an operator; induction over natural numbers is done over sets instead, from the
first element of a set (`NumberLemmas`), and reaches the functions that are
defined along numbers (`Propagated`, `Lineage`), folds along a sequence
(`Swarm`) and sums over finite sets. No module declares a `RECURSIVE` operator.

## 5. Where the code and its statements differ

Kept as runs that TLC refutes (`PROJECT.json`, `findings`):

- `paused_can_resume`: a tool that fails while its run is paused ends the
  executor; `resume` then shows *running* with nobody executing.
- `flow_loop`: an error connection that leads back passes validation and its
  run is reported completed with nodes still pending.
- `offline_firing_queued`: the queue id lacks the workflow; the second workflow
  with that node id loses its firing.
- `barge_in_cuts`: the page stops to regard a speech as active when its last
  chunk was sent, with chunks still scheduled; who speaks then interrupts nothing
  (`README.md:63`).

Stated in the modules, refuted by TLC when checked, and kept without a run.

Runs, flows and triggers:

- `SecondDecisionConflicts`: after eviction a second decision answers 404, not
  409 (`docs/founder-approvals.md:8`).
- `CancelIsFinal`, `RunningAdvances`, `WaitingIsVisible`: `heard()` and
  `execute()` overwrite a status set before them; a resume overwrites
  `waiting_approval`.
- `ApprovedActionOnce`: two resumes that both read the paused row.
- `NoRetryAfterEnd`: a node goes on retrying after the deadline
  (`flow-runner.ts:255`).
- `SchedulesNeverOverlap`: registering a revision again deletes the mark of its
  run (`trigger-dispatcher.ts:262`), and the next slot starts a second one, though
  two runs of a trigger are never to overlap (`docs/flow-triggers.md:8`).
- `EventStartsOnce`: `event.id` is optional, and without it no key is claimed
  (`trigger-dispatcher.ts:336`, `flow-runner.ts:154`). A call that awaits a run
  while its workflow is registered again visits the binding again and runs it
  twice, though every firing is said to carry its key (`trigger-dispatcher.ts:12`).
- `QueuedEventRun`: a flush removes by id, and the id lacks the revision. While
  one flush waits for the run of a record, a revision is registered, another flush
  drops the records of the old one, and an event is queued under the same id; the
  first flush goes on with what it had listed and removes the new record unrun
  (`trigger-dispatcher.ts:394`, `docs/flow-triggers.md:10`).
- Of the queue, not stated as properties: a queued slot of a schedule is dropped
  when a run of it is in flight (`trigger-dispatcher.ts:401`); a flush goes on
  when the connection drops (`trigger-dispatcher.ts:384`); and a queued record
  whose start throws is removed all the same (`trigger-dispatcher.ts:400`, `435`),
  so that the failure is audited and counted and nothing tries it again.
- The compiled work graph drops error connections (`compiler.ts:51`), so the
  handler of an error is ready from the start; and a full swarm gives a node to
  an agent of another role (`agent-swarm.ts:66`). `AgentWorkHolds` is stated
  accordingly.

Voice, authority and credentials:

- `StaysAttached`: a spoken control for a run that is blocked makes the
  transcription loop end; the open connection is deaf
  (`docs/ADR-001-observable-voice-execution.md`).
- `OneLiveEngine`, `ClosedIsReleased`: a client that leaves while its hello
  waits for the engine it replaces.
- The page, not stated as properties: a socket that closes between its greeting
  and the end of the start leaves the button listening on it; the late close
  event of a replaced socket stops the newer voice (`app.js:421`); a chunk that
  waits for a suspended player is played after the interruption
  (`pcm-tts-player.js:47` reads the generation after the await); once the stream
  is available, pausing leaves the recognizer of the browser on
  (`app.js:747`); a late refusal of an older session signs out the newer one
  (`app.js:894`); a reconnection replays the first 500 events of a run only.
- `RotationNeedsProof`: with the bootstrap switch on, several first-key
  requests accepted together.
- `LostMeansRefused` (`credential-vault.ts:27`): a renewal that was refused marks
  a newer permission lost. `RetriedNext` (`google-oauth.ts:426`): a passing
  failure dates the entry as renewed, and a Threads token without a date of its
  own is not tried again for thirty days. `CacheFollowsVault`
  (`server.ts:364`): two refreshes of the copy may end in the wrong order.
- `NeverTwo` (`server.ts:4618`): without a scheduler two requests run two
  watches.

Deliveries, coordination and records:

- `ForeignBreaksChain` (`docs/assistant-release-target-manifest.md:48`): a
  foreign commit between the second reading of the head and the put stays under
  a verified delivery.
- `EveryEndHandsOff` (`docs/operator-coordination.md:11`): a run that a restart
  interrupts leaves no handoff.
- `OneActiveAtStart`: a death between the two writes of an application leaves no
  active Blueprint and `resolveActiveRuntimeBlueprint` throws at every start.
  With a refused write of the proposal after them, memory and store name
  different revisions until the next restart, and a second application makes two
  revisions active.
- `TracksLast` after a death between two writes: the start-up seeds revision 1 as
  current again and later posts overwrite revisions 2, 3, ...
  `ProfileAppendOnly`, and with it `PinnedStays`: two posts that read the same
  revision both write the next one (`docs/assistant-control-plane.md:48`).
- `HistoryStays` (`docs/lego-library-projects.md:39`): a death between the two
  writes of a revision leaves the item without a current one, and the next post
  begins at the first revision again.
- `StartsNeverCollide` (`README.md:158`): two versions of a reference with one
  stamp are ordered by their hash.
- `WholeMailApproved` (`docs/mail-send-approval.md:6`): an HTML version or an
  attachment is neither shown nor compared.
- A draft that the editor saved may be one that it refuses when the page is
  opened again: longer than `MAX_DRAFT_BYTES` (`model.ts:697`), or with a
  forbidden key inside a JSON parameter (`model.ts:700`), which `paramChange`
  takes (`browser.ts:877`). Another draft opens, nobody is told, and the first
  edit replaces the saved one. No document promises that it is recovered
  (`apps/flow-editor/README.md:51` calls the copy a convenience), so `DraftsHold`
  states it.
- `NeverWithout` (`packages/modules/speaker-id/README.md:17`): a script writes
  back the file it read before a withdrawal.
- The chain of receipts is ordered by the clock: set back, the next receipt names
  one that is not the last (`README.md:132` states the chain of every run).
- A drift proposal that was rejected may be proposed again under its revision,
  and an observation is lost when finishing throws between the outcome and it.
- An utterance is named by the next one's audio when that began before the first
  was handled. In the strict mode a face that matches nobody restricts nothing,
  for only a match is kept (`server.ts:5410`), though decision 5 of
  `docs/ADR-011-household-recognition.md` restricts it.

## 6. What is not modelled

Signatures, hashes and encryption are ideal. Wording, formatting and the content
of tool results are abstracted to what the control flow tells apart. Token
accounting, the delivery gate, conversation archives and intermediate text of a
run are left out of `RunControl`. The calendar of `cron.ts` is a set of
instants in `TriggerDispatcher`. Data expressions of flows are replaced by the
port a node takes. SQLite statements are atomic and durable when they return.

Left aside as whole components, with the reason in `PROJECT.json`: expressions
and code nodes, speech gateways, authentication of requests by a configured
token, effort, progress, expertise and delivery policies, classification and
memory of continuity, the capability registry and provider tables, the job
engine (nothing that runs starts a job), planners, the choice and the budget of a
model, companion, home scenes, wisdom, interpreter and school modules, the iOS
bridge, scripts and configuration. They are pure computations over text, tables
filled at start, or adapters without state; what interacts with the modelled
components does so as a choice of theirs (a planner gives any plan, a speech
service answers late or never). Of the page, the box of new tools, the notice of
interpretations, installing and caching are left out.

## 7. Plan

What is left, in order of importance:

1. An abstract append-only store that the library, the projects, the operations
   and the Blueprint are shown to implement where they do.
2. Pure algorithms as operators against a reference definition: the calendar of
   `cron.ts`, the delivery gate, effort and progress policies, token accounting.
3. Continuity beyond the chronology, and the budgeted model gateway.
