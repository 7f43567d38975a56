------------------------------- MODULE AgentWork -------------------------------
(* Work that is handed to agents.  A node of a flow asks the agent adapter   *)
(* (packages/orchestrator/src/flow-agent-adapter.ts), which routes it to an  *)
(* agent and its result to a verifier, while the timer of the node and those *)
(* of the agents run (packages/automation/src/flow-runner.ts: withTimeout).  *)
(* A workflow that is compiled to a work graph (compiler.ts) is given to a   *)
(* swarm in batches (work-graph.ts, agent-swarm.ts).                         *)
EXTENDS Integers, Sequences, FiniteSets

CONSTANTS
  Agents,       \* integers, in the order of routing among agents that cover a
                \* request (preferred capabilities, closest fit, id)
  MaxCalls,     \* retry.maxAttempts of the node
  NodeLimit, AgentLimit,  \* timeoutMs of a node that has one, and of the adapter
  WorkNodes,    \* 1..n, in the order of the workflow
  SwarmAgents,  \* choices of maxAgents
  SwarmWidth    \* maxConcurrency, as asked for

\* No id is 0; a swarm has an agent and one place at least (agent-swarm.ts:
\* Math.max(1, ...)), and a workflow finitely many nodes.
ASSUME AgentAssumption ==
    /\ Agents \subseteq Nat \ {0} /\ MaxCalls \in Nat /\ NodeLimit \in Nat /\ AgentLimit \in Nat
    /\ WorkNodes \subseteq Nat /\ IsFiniteSet(WorkNodes)
    /\ SwarmAgents \subseteq Nat \ {0} /\ SwarmWidth \in Nat \ {0}

VARIABLES
  team,      \* the agents that verify, are local, have the capabilities
  ask,       \* what the node asks for, and the policy of the adapter
  node,      \* the node in its run: the call it awaits, its timer, its output
  call,      \* calls of the adapter, with their agents and timers
  told,      \* history: the handoffs told of a call
  graph,     \* the workflow: its connections, the kind of each node, the disabled ones
  workers,   \* maxAgents
  finished, atWork  \* nodes of the work graph

agentVars == <<team, ask, node, call, told>>
swarmVars == <<graph, workers, finished, atWork>>

NoCall == [at |-> "none", producer |-> 0, verifier |-> 0, left |-> 0]
NewNodeRun == [at |-> "ready", tries |-> 0, left |-> 0, output |-> 0]

-----------------------------------------------------------------------------
(* One call of the adapter *)

\* routeExecutor: the first that is local where that is asked for
Routed(pool) ==
    LET eligible == IF ask.requireLocal THEN pool \cap team.local ELSE pool
        first    == IF ask.preferLocal /\ eligible \cap team.local # {} THEN eligible \cap team.local ELSE eligible
    IN  IF first = {} THEN 0 ELSE CHOOSE a \in first : \A b \in first : a <= b

\* A plausible mistake in Verifier.
VerifierAtHand(producer) == Routed(team.verifiers)

Verifier(producer) == Routed(team.verifiers \ {producer})

NeedsVerification ==
    ask.policy = "always" \/ (ask.policy = "auto" /\ (ask.risk \in {"medium", "high"} \/ ~ask.reversible))

\* finish: a rejection is thrown, and caught by what tells failures.
\* A plausible mistake in Tells.
TellsEach(statuses) == statuses

Tells(statuses) == <<Head(statuses)>>

\* A plausible mistake in Awaits.
AwaitsAny(i) == node.at \in {"waiting", "ready"}

Awaits(i) == node.at = "waiting" /\ node.tries = i

\* The node takes the answer that it awaits, or tries again.
Resolved(i) == IF Awaits(i) THEN [node EXCEPT !.at = "done", !.output = i] ELSE node
Refused == [node EXCEPT !.at = IF node.tries < MaxCalls THEN "ready" ELSE "failed"]
Thrown(i) == IF Awaits(i) THEN Refused ELSE node

Ends(i, statuses) ==
    /\ call' = [call EXCEPT ![i].at = "over"]
    /\ told' = [told EXCEPT ![i] = Tells(statuses)]
    /\ UNCHANGED <<team, ask>>

Call ==
    LET i == node.tries + 1
        producer == Routed(team.able)
        begun == [node EXCEPT !.at = "waiting", !.tries = i, !.left = NodeLimit]
    IN
    /\ node.at = "ready" /\ node.tries < MaxCalls
    /\ IF producer = 0
       THEN /\ call' = [call EXCEPT ![i].at = "over"] /\ told' = [told EXCEPT ![i] = Tells(<<"failed">>)]
            /\ node' = [begun EXCEPT !.at = IF i < MaxCalls THEN "ready" ELSE "failed"]
       ELSE /\ call' = [call EXCEPT ![i] = [NoCall EXCEPT !.at = "producing", !.producer = producer, !.left = AgentLimit]]
            /\ node' = begun /\ UNCHANGED told
    /\ UNCHANGED <<team, ask>>

Produced(i) ==
    LET verifier == Verifier(call[i].producer) IN
    /\ call[i].at = "producing"
    /\ IF ~NeedsVerification THEN Ends(i, <<"unverified">>) /\ node' = Resolved(i)
       ELSE IF verifier = 0 THEN Ends(i, <<"rejected", "failed">>) /\ node' = Thrown(i)
       ELSE /\ call' = [call EXCEPT ![i].at = "verifying", ![i].verifier = verifier, ![i].left = AgentLimit]
            /\ UNCHANGED <<team, ask, node, told>>

\* The agent fails, gives too much, or does not answer in time.
AgentFails(i) ==
    /\ call[i].at \in {"producing", "verifying"}
    /\ Ends(i, <<"failed">>) /\ node' = Thrown(i)

\* Only { ok: true } accepts.
Judged(i, ok) ==
    /\ call[i].at = "verifying"
    /\ IF ok THEN Ends(i, <<"accepted">>) /\ node' = Resolved(i)
       ELSE Ends(i, <<"rejected", "failed">>) /\ node' = Thrown(i)

\* The node gives up a call, which goes on.
NodeTimesOut ==
    /\ node.at = "waiting" /\ ask.timed /\ node.left = 0
    /\ node' = Refused /\ UNCHANGED <<team, ask, call, told>>

AgentTick ==
    LET working == {i \in 1..MaxCalls : call[i].at \in {"producing", "verifying"}} IN
    /\ working # {} /\ \A i \in working : call[i].left > 0
    /\ node.at = "waiting" /\ ask.timed => node.left > 0
    /\ call' = [i \in 1..MaxCalls |-> IF i \in working THEN [call[i] EXCEPT !.left = @ - 1] ELSE call[i]]
    /\ node' = IF node.at = "waiting" /\ ask.timed THEN [node EXCEPT !.left = @ - 1] ELSE node
    /\ UNCHANGED <<team, ask, told>>

AgentNext ==
    \/ Call \/ NodeTimesOut \/ AgentTick
    \/ \E i \in 1..MaxCalls : Produced(i) \/ AgentFails(i) \/ \E ok \in BOOLEAN : Judged(i, ok)

Asked(risk, reversible, requireLocal, preferLocal, policy, timed) ==
    [risk |-> risk, reversible |-> reversible, requireLocal |-> requireLocal,
     preferLocal |-> preferLocal, policy |-> policy, timed |-> timed]

AgentInit ==
    /\ team \in [verifiers : SUBSET Agents, local : SUBSET Agents, able : SUBSET Agents]
    /\ ask \in {Asked(r[1], r[2], l[1], l[2], policy, timed) :
                  r \in {<<"low", TRUE>>, <<"medium", TRUE>>, <<"low", FALSE>>},
                  l \in {<<TRUE, FALSE>>, <<FALSE, TRUE>>, <<FALSE, FALSE>>},
                  policy \in {"auto", "never", "always"}, timed \in BOOLEAN}
    /\ node = NewNodeRun
    /\ call = [i \in 1..MaxCalls |-> NoCall] /\ told = [i \in 1..MaxCalls |-> <<>>]

-----------------------------------------------------------------------------
(* The work graph of a workflow, and its swarm *)

\* A plausible mistake in DependsOn.
DependsOnAll(n) == {e.from : e \in {d \in graph.edges : d.to = n}} \ graph.disabled

\* compileNode
DependsOn(n) ==
    {e.from : e \in {d \in graph.edges : d.to = n /\ d.branch # "error"}} \ graph.disabled

Compiled == WorkNodes \ graph.disabled

\* buildAgentSwarm: the agents made so far, and the agent of each node
Load(given, a) == Cardinality({i \in DOMAIN given : given[i] = a})
LeastLoaded(given, pool) ==
    CHOOSE a \in pool : \A b \in pool : Load(given, a) < Load(given, b) \/ (Load(given, a) = Load(given, b) /\ a <= b)

Staffed(swarm, role) ==
    LET pool == {a \in DOMAIN swarm.roles : swarm.roles[a] = role}
        busy == pool = {} \/ Load(swarm.given, LeastLoaded(swarm.given, pool)) > 0
    IN  IF busy /\ Len(swarm.roles) < workers
        THEN [roles |-> Append(swarm.roles, role), given |-> Append(swarm.given, Len(swarm.roles) + 1)]
        ELSE [swarm EXCEPT !.given =
               Append(@, LeastLoaded(@, IF pool = {} THEN DOMAIN swarm.roles ELSE pool))]

Roles == [i \in 1..Cardinality(Compiled) |->
            graph.kind[CHOOSE n \in Compiled : Cardinality({m \in Compiled : m <= n}) = i]]
Swarm ==
    LET after[k \in 0..Cardinality(Compiled)] ==
          IF k = 0 THEN [roles |-> <<>>, given |-> <<>>] ELSE Staffed(after[k - 1], Roles[k])
    IN  after[Cardinality(Compiled)]

\* nextSwarmBatch
Width == IF workers < SwarmWidth THEN workers ELSE SwarmWidth
ReadyWork == {n \in Compiled \ (finished \cup atWork) : DependsOn(n) \subseteq finished}
NextBatch ==
    LET room == Width - Cardinality(atWork)
    IN  {n \in ReadyWork : Cardinality({m \in ReadyWork : m <= n}) <= room}

Hand ==
    /\ NextBatch # {} /\ atWork' = atWork \cup NextBatch
    /\ UNCHANGED <<graph, workers, finished>>

FinishWork(n) ==
    /\ n \in atWork /\ atWork' = atWork \ {n} /\ finished' = finished \cup {n}
    /\ UNCHANGED <<graph, workers>>

SwarmNext == Hand \/ \E n \in WorkNodes : FinishWork(n)

\* validateAutomationWorkflow: no cycle of enabled nodes but through errors
ValidWorkflow(edges, disabled) ==
    \A S \in SUBSET (WorkNodes \ disabled) :
      S # {} => \E n \in S : \A e \in edges : e.to = n => e.branch = "error" \/ e.from \notin S

SwarmInit ==
    /\ \E main \in SUBSET {e \in WorkNodes \X WorkNodes : e[1] # e[2]},
          errors \in SUBSET {<<1, 2>>, <<2, 1>>}, disabled \in {{}, {2}} :
         LET edges == {[from |-> e[1], to |-> e[2], branch |-> "main"] : e \in main}
                        \cup {[from |-> e[1], to |-> e[2], branch |-> "error"] : e \in errors}
         IN  /\ ValidWorkflow(edges, disabled)
             /\ graph \in [edges : {edges}, disabled : {disabled}, kind : [WorkNodes -> {"analyst", "verifier"}]]
    /\ workers \in SwarmAgents /\ finished = {} /\ atWork = {}

-----------------------------------------------------------------------------
(* Properties *)

\* What a node takes is the answer to its last call, and where verification is
\* due another agent has accepted it; nothing leaves the machine of a node that
\* requires that, not even for verification (docs/flow-agents.md:8).
TakenIsVerified ==
    /\ node.at = "done" =>
         /\ node.output = node.tries /\ told[node.output] \in {<<"accepted">>, <<"unverified">>}
         /\ NeedsVerification => told[node.output] = <<"accepted">>
    /\ \A i \in 1..MaxCalls :
         /\ told[i] = <<"accepted">> =>
              call[i].verifier \in team.verifiers /\ call[i].verifier # call[i].producer
         /\ ask.requireLocal => {call[i].producer, call[i].verifier} \subseteq team.local \cup {0}

\* Each call is told once, when it is over, whether its node waited or not.
ToldOnce == \A i \in 1..MaxCalls : Len(told[i]) = IF call[i].at = "over" THEN 1 ELSE 0

\* A workflow that may run becomes a work graph that is never stuck: while work
\* is left, something is ready or at work; and no node is at work before what
\* it depends on, nor more nodes than the swarm is wide.
SwarmGoesOn ==
    /\ atWork = {} /\ finished # Compiled => NextBatch # {}
    /\ Cardinality(atWork) <= Width
    /\ \A e \in graph.edges :
         e.branch # "error" /\ e.from \notin graph.disabled /\ e.to \in atWork => e.from \in finished

\* Nobody works for another role while the swarm has, or has room for, an agent
\* of the role, and no agent is kept that has nothing to do.
SwarmIsStaffed ==
    /\ Len(Swarm.roles) <= workers
    /\ \A i \in DOMAIN Roles :
         Swarm.roles[Swarm.given[i]] = Roles[i]
           \/ (Len(Swarm.roles) = workers /\ \A j \in 1..i : Swarm.roles[Swarm.given[j]] # Roles[i])
    /\ \A a \in DOMAIN Swarm.roles : Load(Swarm.given, a) > 0

\* What agents do for a flow is verified, told and in order
\* (flow-agent-adapter.ts: run; agent-swarm.ts: nextSwarmBatch).
AgentWorkHolds == TakenIsVerified /\ ToldOnce /\ SwarmGoesOn /\ SwarmIsStaffed
=============================================================================
