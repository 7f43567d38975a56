------------------------------ MODULE MCDelivery ------------------------------
(* Three components that share no row, so that a behaviour exercises one.    *)
(* Deliveries: two requests for two surfaces, the second of which binds a    *)
(* deployment; and two for one surface that is revised meanwhile, the second *)
(* of which names the branch itself.                                         *)
(* Coordination: from an empty store, and from one in which an operator has  *)
(* two assignments in a scope that was granted.                              *)
(* Agents: every team of two and every request of a node, and every valid    *)
(* workflow of three nodes for a swarm.                                      *)
EXTENDS AssistantDelivery, OperatorCoordination, AgentWork, TLC

CONSTANTS j1, j2, j3, s1, s2, o1, c1, c2, g1, a1, a2, r1, h1
VARIABLE part

MCSurfaceOf == (j1 :> s1) @@ (j2 :> s2) @@ (j3 :> s1)

Publishing(jobs, current, dead) ==
    /\ branch = <<Commit("people", [s \in Surfaces |-> 0], {})>>
    /\ bundle = [s \in Surfaces |-> IF s = s1 THEN current ELSE MaxBundle]
    /\ job = [j \in Jobs |-> IF j \in jobs THEN NewJob ELSE OverJob]
    /\ rows = [j \in Jobs |-> NoRow] /\ probe = [j \in Jobs |-> NoRow] /\ deaths = dead

AtWork ==
    /\ operator = [p \in Operators |-> "active"]
    /\ scope = [s \in Scopes |-> "founder"]
    /\ grant = [g \in Grants |-> [principal |-> o1, scope |-> c1, may |-> Permissions, revoked |-> FALSE]]
    /\ assignment = [a \in Assignments |->
         [NoAssignment EXCEPT !.status = "queued", !.assignee = o1, !.scopes = {c1}]]
    /\ handoff = {} /\ request = [h \in Handoffs |-> NoRequest] /\ linked = [r \in Runs |-> NotLinked]
    /\ edits = MaxEdits - 1 /\ restarts = 0 /\ used = {}
    /\ given = {<<o1, c1, p>> : p \in Permissions}

NoWork ==
    /\ graph = [edges |-> {}, disabled |-> WorkNodes, kind |-> [n \in WorkNodes |-> "analyst"]]
    /\ workers = 1 /\ finished = {} /\ atWork = {}

NoAgents ==
    /\ team = [verifiers |-> {}, local |-> {}, able |-> {}]
    /\ ask = Asked("low", TRUE, FALSE, FALSE, "auto", FALSE)
    /\ node = NewNodeRun /\ call = [i \in 1..MaxCalls |-> NoCall] /\ told = [i \in 1..MaxCalls |-> <<>>]

MCInit ==
    \/ /\ part = "delivery" /\ CoordinationInit /\ NoAgents /\ NoWork
       /\ Publishing({j1, j2}, MaxBundle, 0) \/ Publishing({j1, j3}, 1, MaxDeaths)
    \/ part = "coordination" /\ Publishing({}, 1, 0) /\ NoAgents /\ NoWork /\ (CoordinationInit \/ AtWork)
    \/ part = "agents" /\ Publishing({}, 1, 0) /\ CoordinationInit /\ AgentInit /\ NoWork
    \/ part = "swarm" /\ Publishing({}, 1, 0) /\ CoordinationInit /\ NoAgents /\ SwarmInit

MCNext ==
    /\ UNCHANGED part
    /\ \/ part = "delivery" /\ DeliveryNext /\ UNCHANGED <<coordinationVars, agentVars, swarmVars>>
       \/ part = "coordination" /\ CoordinationNext /\ UNCHANGED <<deliveryVars, agentVars, swarmVars>>
       \/ part = "agents" /\ AgentNext /\ UNCHANGED <<deliveryVars, coordinationVars, swarmVars>>
       \/ part = "swarm" /\ SwarmNext /\ UNCHANGED <<deliveryVars, coordinationVars, agentVars>>

MCSpec == MCInit /\ [][MCNext]_<<part, deliveryVars, coordinationVars, agentVars, swarmVars>>
=============================================================================
