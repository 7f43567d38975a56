--------------------------- MODULE DeliveryProofs ----------------------------
(* What operators may do and what their runs leave behind, for any           *)
(* operators, scopes, grants, assignments, runs and requests; what a         *)
(* delivery says of its branch, for any jobs, surfaces, bundles and pushes;  *)
(* and what agents do for a node and for a workflow, for any agents, calls   *)
(* and nodes.                                                                *)
EXTENDS OperatorCoordination, AssistantDelivery, AgentWork, NumberLemmas, FiniteSetTheorems, TLAPS

-----------------------------------------------------------------------------
(* Coordination *)

AssignmentRows ==
    [status : Statuses, assignee : Principals, scopes : (SUBSET Scopes) \ {{}},
     next : BOOLEAN, last : Runs \cup {"none"}]
GrantRows == [principal : Operators, scope : Scopes, may : SUBSET Permissions, revoked : BOOLEAN]
Waits == [state : {"awaits"}, by : Principals, of : Assignments, row : AssignmentRows]
RunStates == {"none", "runs", "completed", "blocked", "cancelled", "interrupted"}

CoordinationTypes ==
    /\ operator \in [Operators -> {"none", "active", "revoked"}]
    /\ scope \in [Scopes -> Principals \cup {"none"}]
    /\ grant \in [Grants -> GrantRows \cup {NoGrant}]
    /\ assignment \in [Assignments -> AssignmentRows \cup {NoAssignment}]
    /\ request \in [Handoffs -> Waits \cup {NoRequest, [NoRequest EXCEPT !.state = "over"]}]
    /\ linked \in [Runs -> [state : RunStates, of : Assignments \cup {"none"},
                            by : Principals \cup {"none"}, scopes : SUBSET Scopes]]

\* A grant in force was given, and its operator can sign in.
GrantsLive ==
    \A g \in Grants : grant[g] # NoGrant /\ ~grant[g].revoked =>
        /\ Live(grant[g].principal)
        /\ \A permission \in grant[g].may : <<grant[g].principal, grant[g].scope, permission>> \in given

\* An owner was given everything on the scope.
OwnersGiven ==
    \A s \in Scopes : scope[s] \in Operators =>
        \A permission \in Permissions : <<scope[s], s, permission>> \in given

\* What a request or a run is going to use was given when it was let in, and
\* nothing that was given is forgotten.
HeldGiven ==
    /\ \A h \in Handoffs : request[h].state = "awaits" =>
         Needs(request[h].by, request[h].row.scopes, "handoff") \subseteq given
    /\ \A r \in Runs : linked[r].state = "runs" =>
         /\ Needs(linked[r].by, linked[r].scopes, "write_work") \subseteq given
         /\ linked[r].of \in Assignments /\ assignment[linked[r].of] # NoAssignment
    /\ used \subseteq given

CoordinationInv ==
    CoordinationTypes /\ GrantsLive /\ OwnersGiven /\ HeldGiven /\ RunsHandOff

\* Who may work on an assignment was given that on each of its scopes
\* (operator-coordination.ts: canAccessCoordinationScope).
LEMMA MayWorkGiven ==
    ASSUME CoordinationInv, NEW p \in Principals, NEW row, row.scopes \subseteq Scopes,
           NEW permission \in Permissions, MayWork(p, row, permission)
    PROVE  Needs(p, row.scopes, permission) \subseteq given
<1>. SUFFICES ASSUME NEW s \in row.scopes, p \in Operators
              PROVE  <<p, s, permission>> \in given
  BY DEF Needs
<1>1. p # "founder" /\ s \in Scopes
  BY CoordinationAssumption
<1>2. MayOn(p, s, permission)
  BY <1>1 DEF MayWork
<1>3. CASE scope[s] = p
  BY <1>1, <1>3 DEF CoordinationInv, OwnersGiven
<1>4. ASSUME NEW g \in Grants, ~grant[g].revoked, grant[g].principal = p,
             grant[g].scope = s, permission \in grant[g].may
      PROVE  <<p, s, permission>> \in given
  <2>1. grant[g] # NoGrant
    BY <1>4 DEF NoGrant
  <2>. QED  BY <1>4, <2>1 DEF CoordinationInv, GrantsLive
<1>. QED  BY <1>2, <1>3, <1>4 DEF MayOn

LEMMA CoordinationInvInit == CoordinationInit => CoordinationInv
<1>. SUFFICES ASSUME CoordinationInit PROVE CoordinationInv
  OBVIOUS
<1>. USE DEF CoordinationInit
<1>1. CoordinationTypes
  BY DEF CoordinationTypes, NotLinked, RunStates
<1>2. GrantsLive
  BY DEF GrantsLive
<1>3. OwnersGiven
  BY CoordinationAssumption DEF OwnersGiven
<1>4. HeldGiven
  BY DEF HeldGiven, NoRequest, NotLinked
<1>5. RunsHandOff
  BY DEF RunsHandOff, NotLinked
<1>. QED  BY <1>1, <1>2, <1>3, <1>4, <1>5 DEF CoordinationInv

LEMMA CoordinationInvKept ==
    CoordinationInv /\ [CoordinationNext]_coordinationVars => CoordinationInv'
<1>. SUFFICES ASSUME CoordinationInv, [CoordinationNext]_coordinationVars PROVE CoordinationInv'
  OBVIOUS
<1>. USE CoordinationAssumption DEF CoordinationInv
<1>1. ASSUME NEW p \in Operators, Delegate(p) PROVE CoordinationInv'
  <2>. USE <1>1 DEF Delegate
  <2>1. CoordinationTypes'
    BY DEF CoordinationTypes
  <2>2. GrantsLive'
    BY DEF CoordinationTypes, GrantsLive, Live
  <2>3. OwnersGiven' /\ HeldGiven' /\ RunsHandOff'
    BY DEF OwnersGiven, HeldGiven, RunsHandOff
  <2>. QED  BY <2>1, <2>2, <2>3
<1>2. ASSUME NEW p \in Operators, Revoke(p) PROVE CoordinationInv'
  <2>. USE <1>2 DEF Revoke
  <2>1. ASSUME NEW g \in Grants
        PROVE  \/ grant'[g] = grant[g] /\ grant[g].principal # p
               \/ /\ grant[g] \in GrantRows /\ grant'[g] = [grant[g] EXCEPT !.revoked = TRUE]
    BY DEF CoordinationTypes, NoGrant
  <2>2. CoordinationTypes'
    BY <2>1, Zenon DEF CoordinationTypes, GrantRows
  <2>3. GrantsLive'
    <3>1. ASSUME NEW g \in Grants, grant'[g] # NoGrant, ~grant'[g].revoked
          PROVE  grant'[g] = grant[g] /\ grant[g].principal # p /\ grant[g].principal \in Operators
      BY <2>1, <3>1 DEF CoordinationTypes, GrantRows
    <3>. QED  BY <3>1 DEF GrantsLive, Live, CoordinationTypes
  <2>4. OwnersGiven' /\ HeldGiven' /\ RunsHandOff'
    BY DEF OwnersGiven, HeldGiven, RunsHandOff
  <2>. QED  BY <2>2, <2>3, <2>4
<1>3. ASSUME NEW s \in Scopes, NEW p \in Principals, SaveScope(s, p) PROVE CoordinationInv'
  <2>. USE <1>3 DEF SaveScope
  <2>1. CoordinationTypes'
    BY DEF CoordinationTypes
  <2>2. given \subseteq given'
    OBVIOUS
  <2>3. GrantsLive'
    BY <2>2 DEF GrantsLive, Live
  <2>4. OwnersGiven'
    BY <2>2 DEF OwnersGiven, CoordinationTypes
  <2>5. HeldGiven'
    BY <2>2 DEF HeldGiven
  <2>6. RunsHandOff'
    BY DEF RunsHandOff
  <2>. QED  BY <2>1, <2>3, <2>4, <2>5, <2>6
<1>4. ASSUME NEW g \in Grants, NEW p \in Operators, NEW s \in Scopes, NEW may \in SUBSET Permissions,
             SaveGrant(g, p, s, may)
      PROVE  CoordinationInv'
  <2>. USE <1>4 DEF SaveGrant
  <2>1. Granted(p, s, may) \in GrantRows
    BY DEF Granted, GrantRows
  <2>2. CoordinationTypes'
    BY <2>1 DEF CoordinationTypes
  <2>3. given \subseteq given'
    OBVIOUS
  <2>4. GrantsLive'
    <3>1. grant'[g] = Granted(p, s, may) /\ \A h \in Grants \ {g} : grant'[h] = grant[h]
      BY DEF CoordinationTypes
    <3>2. Live(p)' /\ \A permission \in may : <<p, s, permission>> \in given'
      BY DEF Live
    <3>. QED  BY <2>3, <3>1, <3>2 DEF GrantsLive, Live, Granted
  <2>5. OwnersGiven' /\ HeldGiven'
    BY <2>3 DEF OwnersGiven, HeldGiven
  <2>6. RunsHandOff'
    BY DEF RunsHandOff
  <2>. QED  BY <2>2, <2>4, <2>5, <2>6
<1>5. ASSUME NEW g \in Grants, RevokeGrant(g) PROVE CoordinationInv'
  <2>. USE <1>5 DEF RevokeGrant
  <2>1. grant[g] \in GrantRows
    BY DEF CoordinationTypes
  <2>2. CoordinationTypes'
    BY <2>1 DEF CoordinationTypes, GrantRows
  <2>3. grant'[g].revoked /\ \A h \in Grants \ {g} : grant'[h] = grant[h]
    BY <2>1 DEF CoordinationTypes, GrantRows
  <2>4. GrantsLive'
    BY <2>3 DEF GrantsLive, Live
  <2>5. OwnersGiven' /\ HeldGiven' /\ RunsHandOff'
    BY DEF OwnersGiven, HeldGiven, RunsHandOff
  <2>. QED  BY <2>2, <2>4, <2>5
<1>6. ASSUME NEW a \in Assignments, NEW row \in AssignmentRows, SaveAssignment(a, row),
             UNCHANGED <<operator, scope, grant, given>>
      PROVE  /\ assignment' \in [Assignments -> AssignmentRows \cup {NoAssignment}]
             /\ \A b \in Assignments : assignment[b] # NoAssignment => assignment'[b] # NoAssignment
             /\ GrantsLive' /\ OwnersGiven'
  <2>1. row # NoAssignment
    BY DEF AssignmentRows, NoAssignment, Statuses
  <2>2. \A b \in Assignments : assignment'[b] = IF b = a THEN row ELSE assignment[b]
    BY <1>6 DEF SaveAssignment, CoordinationTypes
  <2>. QED  BY <1>6, <2>1, <2>2 DEF SaveAssignment, CoordinationTypes, GrantsLive, OwnersGiven, Live
<1>7. ASSUME NEW a \in Assignments, NEW p \in Principals, NEW scopes \in (SUBSET Scopes) \ {{}},
             NEW next \in BOOLEAN, Assign(a, p, scopes, next)
      PROVE  CoordinationInv'
  <2>. USE <1>7 DEF Assign
  <2>1. Assigned(p, scopes, next) \in AssignmentRows
    BY DEF Assigned, AssignmentRows, Statuses
  <2>2. CoordinationTypes' /\ GrantsLive' /\ OwnersGiven'
    BY <1>6, <2>1 DEF CoordinationTypes
  <2>3. HeldGiven'
    BY <1>6, <2>1 DEF HeldGiven
  <2>4. RunsHandOff'
    BY DEF RunsHandOff
  <2>. QED  BY <2>2, <2>3, <2>4
<1>8. ASSUME NEW h \in Handoffs, NEW p \in Principals, NEW a \in Assignments, Ask(h, p, a)
      PROVE  CoordinationInv'
  <2>. USE <1>8 DEF Ask
  <2>. DEFINE q == [state |-> "awaits", by |-> p, of |-> a, row |-> assignment[a]]
  <2>1. assignment[a] \in AssignmentRows
    BY DEF CoordinationTypes
  <2>2. q \in Waits
    BY <2>1 DEF Waits
  <2>3. CoordinationTypes'
    BY <2>2 DEF CoordinationTypes
  <2>4. Needs(p, assignment[a].scopes, "handoff") \subseteq given
    BY <2>1, MayWorkGiven DEF AssignmentRows, Permissions
  <2>5. \A k \in Handoffs : request'[k] = IF k = h THEN q ELSE request[k]
    BY DEF CoordinationTypes
  <2>6. HeldGiven'
    BY <2>4, <2>5 DEF HeldGiven
  <2>7. GrantsLive' /\ OwnersGiven' /\ RunsHandOff'
    BY DEF GrantsLive, OwnersGiven, RunsHandOff, Live
  <2>. QED  BY <2>3, <2>6, <2>7
<1>9. ASSUME NEW h \in Handoffs, NEW r \in Runs \cup {"none"}, NEW complete \in BOOLEAN,
             HandOver(h, r, complete)
      PROVE  CoordinationInv'
  <2>. DEFINE q == request[h]
              row == [q.row EXCEPT !.status = IF complete THEN "completed" ELSE "active"]
              over == [NoRequest EXCEPT !.state = "over"]
  <2>1. q \in Waits
    BY <1>9 DEF HandOver, CoordinationTypes, NoRequest
  <2>2. row \in AssignmentRows
    BY <2>1 DEF Waits, AssignmentRows, Statuses
  <2>3. /\ SaveAssignment(q.of, row) /\ AppendHandoff(Handoff(q.of, q.by, r))
        /\ request' = [request EXCEPT ![h] = over] /\ used' = used \cup Needs(q.by, q.row.scopes, "handoff")
        /\ q.state = "awaits" /\ UNCHANGED <<operator, scope, grant, linked, edits, restarts, given>>
    BY <1>9 DEF HandOver
  <2>4. q.of \in Assignments
    BY <2>1 DEF Waits
  <2>. HIDE DEF row
  <2>5. CoordinationTypes' /\ GrantsLive' /\ OwnersGiven'
    BY <1>6, <2>2, <2>3, <2>4 DEF CoordinationTypes
  <2>6. \A k \in Handoffs : request'[k] = IF k = h THEN over ELSE request[k]
    BY <2>3 DEF CoordinationTypes
  <2>7. HeldGiven'
    <3>1. used' \subseteq given'
      BY <2>3 DEF HeldGiven
    <3>2. over.state # "awaits"
      BY DEF NoRequest
    <3>. QED  BY <1>6, <2>2, <2>3, <2>4, <2>6, <3>1, <3>2 DEF HeldGiven
  <2>8. RunsHandOff'
    BY <2>3 DEF RunsHandOff, AppendHandoff
  <2>. QED  BY <2>5, <2>7, <2>8
<1>10. ASSUME NEW r \in Runs, NEW p \in Principals, NEW a \in Assignments, StartLinked(r, p, a)
       PROVE  CoordinationInv'
  <2>. DEFINE l == [state |-> "runs", of |-> a, by |-> p, scopes |-> assignment[a].scopes]
              row == [assignment[a] EXCEPT !.status = "active", !.last = r]
  <2>. USE <1>10 DEF StartLinked
  <2>1. assignment[a] \in AssignmentRows
    BY DEF CoordinationTypes
  <2>2. row \in AssignmentRows /\ assignment[a].scopes \subseteq Scopes
    BY <2>1 DEF AssignmentRows, Statuses
  <2>3. CoordinationTypes' /\ GrantsLive' /\ OwnersGiven'
    BY <1>6, <2>2 DEF CoordinationTypes, RunStates
  <2>4. Needs(p, assignment[a].scopes, "write_work") \subseteq given
    BY <2>2, MayWorkGiven DEF Permissions
  <2>5. \A k \in Runs : linked'[k] = IF k = r THEN l ELSE linked[k]
    BY DEF CoordinationTypes
  <2>6. HeldGiven'
    <3>1. \A b \in Assignments : assignment[b] # NoAssignment => assignment'[b] # NoAssignment
      BY <1>6, <2>2
    <3>. QED  BY <2>4, <2>5, <3>1 DEF HeldGiven
  <2>7. RunsHandOff'
    BY <2>5 DEF RunsHandOff
  <2>. QED  BY <2>3, <2>6, <2>7
<1>11. ASSUME NEW r \in Runs, NEW outcome \in {"completed", "blocked", "cancelled"}, FinishLinked(r, outcome)
       PROVE  CoordinationInv'
  <2>. DEFINE l == linked[r]
              ended == [NotLinked EXCEPT !.state = outcome, !.of = l.of]
              row == [assignment[l.of] EXCEPT !.status = After(outcome, assignment[l.of].next), !.last = r]
  <2>1. /\ l.state = "runs" /\ linked' = [linked EXCEPT ![r] = ended]
        /\ UNCHANGED <<operator, scope, grant, request, edits, restarts, given>>
    BY <1>11 DEF FinishLinked
  <2>2. l.of \in Assignments /\ assignment[l.of] \in AssignmentRows
    BY <2>1 DEF HeldGiven, CoordinationTypes
  <2>3. \A k \in Runs : linked'[k] = IF k = r THEN ended ELSE linked[k]
    BY <2>1 DEF CoordinationTypes
  <2>4. /\ ended.state = outcome /\ ended.of = l.of
        /\ ended \in [state : RunStates, of : Assignments \cup {"none"},
                       by : Principals \cup {"none"}, scopes : SUBSET Scopes]
    BY <2>2 DEF NotLinked, RunStates
  <2>5. linked' \in [Runs -> [state : RunStates, of : Assignments \cup {"none"},
                              by : Principals \cup {"none"}, scopes : SUBSET Scopes]]
    BY <2>1, <2>4 DEF CoordinationTypes
  <2>. HIDE DEF ended
  <2>6. CASE HandedOff(r) /\ UNCHANGED <<handoff, assignment, used>>
    <3>1. CoordinationTypes'
      BY <2>1, <2>5, <2>6 DEF CoordinationTypes
    <3>2. GrantsLive' /\ OwnersGiven'
      BY <2>1 DEF GrantsLive, OwnersGiven, Live
    <3>3. HeldGiven'
      BY <2>1, <2>3, <2>4, <2>6 DEF HeldGiven
    <3>4. RunsHandOff'
      BY <2>3, <2>4, <2>6 DEF RunsHandOff, HandedOff
    <3>. QED  BY <3>1, <3>2, <3>3, <3>4
  <2>7. CASE /\ AppendHandoff(Handoff(l.of, l.by, r))
             /\ used' = used \cup Needs(l.by, l.scopes, "write_work")
             /\ SaveAssignment(l.of, row)
    <3>1. After(outcome, assignment[l.of].next) \in Statuses
      BY DEF After, Statuses
    <3>2. row \in AssignmentRows
      BY <2>2, <3>1 DEF AssignmentRows
    <3>. HIDE DEF row
    <3>3. CoordinationTypes' /\ GrantsLive' /\ OwnersGiven'
      BY <1>6, <2>1, <2>2, <2>5, <2>7, <3>2 DEF CoordinationTypes
    <3>4. HeldGiven'
      <4>1. used' \subseteq given'
        BY <2>1, <2>7 DEF HeldGiven
      <4>2. \A b \in Assignments : assignment[b] # NoAssignment => assignment'[b] # NoAssignment
        BY <1>6, <2>1, <2>2, <2>7, <3>2
      <4>. QED  BY <2>1, <2>3, <2>4, <4>1, <4>2 DEF HeldGiven
    <3>5. RunsHandOff'
      <4>1. handoff' = handoff \cup {[of |-> l.of, by |-> l.by, run |-> r]}
        BY <2>7 DEF AppendHandoff, Handoff
      <4>2. ASSUME NEW k \in Runs, linked'[k].state \notin {"none", "runs", "interrupted"}
            PROVE  \E x \in handoff' : x.run = k /\ x.of = linked'[k].of
        <5>1. CASE k = r
          <6>1. [of |-> l.of, by |-> l.by, run |-> r] \in handoff'
            BY <4>1
          <6>. QED  BY <2>3, <2>4, <5>1, <6>1
        <5>2. CASE k # r
          BY <2>3, <4>1, <4>2, <5>2 DEF RunsHandOff
        <5>. QED  BY <5>1, <5>2
      <4>. QED  BY <4>2 DEF RunsHandOff
    <3>. QED  BY <3>3, <3>4, <3>5
  <2>. QED  BY <1>11, <2>6, <2>7 DEF FinishLinked
<1>12. CASE Interrupt
  <2>. USE <1>12 DEF Interrupt
  <2>1. ASSUME NEW r \in Runs
        PROVE  \/ linked'[r] = linked[r] /\ linked[r].state # "runs"
               \/ /\ linked'[r].state = "interrupted"
                  /\ linked'[r] \in [state : RunStates, of : Assignments \cup {"none"},
                                      by : Principals \cup {"none"}, scopes : SUBSET Scopes]
    BY DEF CoordinationTypes, NotLinked, RunStates
  <2>2. \A h \in Handoffs : request'[h] = NoRequest \/ request'[h] = [NoRequest EXCEPT !.state = "over"]
    OBVIOUS
  <2>3. CoordinationTypes'
    BY <2>1, <2>2 DEF CoordinationTypes
  <2>4. HeldGiven'
    BY <2>1, <2>2 DEF HeldGiven, NoRequest
  <2>5. RunsHandOff'
    BY <2>1, ZenonT(60) DEF RunsHandOff
  <2>6. GrantsLive' /\ OwnersGiven'
    BY DEF GrantsLive, OwnersGiven, Live
  <2>. QED  BY <2>3, <2>4, <2>5, <2>6
<1>13. CASE UNCHANGED coordinationVars
  BY <1>13 DEF coordinationVars, CoordinationTypes, GrantsLive, OwnersGiven, HeldGiven, RunsHandOff, Live
<1>. QED
  BY <1>1, <1>2, <1>3, <1>4, <1>5, <1>7, <1>8, <1>9, <1>10, <1>11, <1>12, <1>13 DEF CoordinationNext

LEMMA CoordinationInvImplies == CoordinationInv => CoordinationHolds
<1>. SUFFICES ASSUME CoordinationInv PROVE CoordinationHolds
  OBVIOUS
<1>1. CoordinationTypeOK
  <2>1. scope \in [Scopes -> Principals \cup {"none"}]
    BY DEF CoordinationInv, CoordinationTypes
  <2>2. ASSUME NEW g \in Grants, grant[g] # NoGrant
        PROVE  grant[g] \in [principal : Principals, scope : Scopes, may : SUBSET Permissions, revoked : BOOLEAN]
    BY <2>2 DEF CoordinationInv, CoordinationTypes, GrantRows, Principals
  <2>3. ASSUME NEW a \in Assignments, assignment[a] # NoAssignment
        PROVE  /\ assignment[a].status \in Statuses /\ assignment[a].assignee \in Principals
               /\ assignment[a].scopes # {} /\ assignment[a].last \in Runs \cup {"none"}
    BY <2>3 DEF CoordinationInv, CoordinationTypes, AssignmentRows
  <2>. QED  BY <2>1, <2>2, <2>3 DEF CoordinationTypeOK
<1>2. \A g \in Grants : grant[g] # NoGrant /\ ~grant[g].revoked => Live(grant[g].principal)
  BY DEF CoordinationInv, GrantsLive
<1>3. used \subseteq given
  BY DEF CoordinationInv, HeldGiven
<1>4. RunsHandOff
  BY DEF CoordinationInv
<1>. QED  BY <1>1, <1>2, <1>3, <1>4 DEF CoordinationHolds, AccessWasGiven

\* Nobody is let in without having been given it, no revoked operator keeps a
\* grant, and every run that ended in the process handed its work off, for any
\* operators, scopes and assignments (server.ts: the coordination handlers).
THEOREM WorkWasGiven == CoordinationSpec => []CoordinationHolds
<1>1. CoordinationInit => CoordinationInv
  BY CoordinationInvInit
<1>2. CoordinationInv /\ [CoordinationNext]_coordinationVars => CoordinationInv'
  BY CoordinationInvKept
<1>3. CoordinationInv => CoordinationHolds
  BY CoordinationInvImplies
<1>. QED  BY <1>1, <1>2, <1>3, PTL DEF CoordinationSpec

-----------------------------------------------------------------------------
(* Lineages *)

\* The heads from an anchor on exist ...
LEMMA LineageExists ==
    ASSUME NEW anchor, NEW n \in Nat
    PROVE  \E f : f = [k \in 0..n |-> IF k = 0 THEN anchor ELSE Successor(f[k - 1])]
<1> DEFINE T == {m \in Nat : \E f : f = [k \in 0..m |-> IF k = 0 THEN anchor ELSE Successor(f[k - 1])]}
<1>1. 0 \in T
  <2> DEFINE f == [k \in 0..0 |-> anchor]
  <2>1. f = [k \in 0..0 |-> IF k = 0 THEN anchor ELSE Successor(f[k - 1])]
    OBVIOUS
  <2> HIDE DEF f
  <2> QED BY <2>1
<1>2. ASSUME NEW m \in 1..n, m - 1 \in T PROVE m \in T
  <2>1. PICK f : f = [k \in 0..(m - 1) |-> IF k = 0 THEN anchor ELSE Successor(f[k - 1])]
    BY <1>2
  <2> DEFINE g == [k \in 0..m |-> IF k = m THEN Successor(f[m - 1]) ELSE f[k]]
  <2>2. ASSUME NEW k \in 0..m
        PROVE  g[k] = IF k = 0 THEN anchor ELSE Successor(g[k - 1])
    <3>1. CASE k = m
      <4>1. k - 1 \in 0..m /\ k - 1 # m /\ k # 0
        BY <3>1
      <4> QED BY <3>1, <4>1
    <3>2. CASE k # m
      <4>1. k \in 0..(m - 1) /\ g[k] = f[k]
        BY <3>2
      <4>2. f[k] = IF k = 0 THEN anchor ELSE Successor(f[k - 1])
        BY <2>1, <4>1
      <4>3. CASE k = 0
        BY <4>1, <4>2, <4>3
      <4>4. CASE k # 0
        <5>1. k - 1 \in 0..m /\ k - 1 # m
          BY <4>4, <4>1
        <5>2. g[k - 1] = f[k - 1]
          BY <5>1
        <5> QED BY <4>1, <4>2, <4>4, <5>2
      <4> QED BY <4>3, <4>4
    <3> QED BY <3>1, <3>2
  <2>3. g = [k \in 0..m |-> g[k]]
    OBVIOUS
  <2> HIDE DEF g
  <2>4. g = [k \in 0..m |-> IF k = 0 THEN anchor ELSE Successor(g[k - 1])]
    BY <2>2, <2>3
  <2> QED BY <2>4
<1>3. 0..n \subseteq T
  <2> HIDE DEF T
  <2> QED BY <1>1, <1>2, UpTo
<1>4. n \in T
  BY <1>3
<1> QED BY <1>4

\* ... and all have what the anchor has and each head passes on.
LEMMA LineageKeeps ==
    ASSUME NEW Good, NEW anchor \in Good, \A x \in Good : Successor(x) \in Good
    PROVE  Lineage(anchor) \subseteq Good
<1> DEFINE Is(f) == f = [k \in 0..MaxDepth |-> IF k = 0 THEN anchor ELSE Successor(f[k - 1])]
           at == CHOOSE f : Is(f)
<1>0. MaxDepth \in Nat
  BY DeliveryAssumption
<1>1. Is(at)
  BY <1>0, LineageExists
<1>2. Lineage(anchor) = {at[k] : k \in 1..MaxDepth}
  BY DEF Lineage
<1> HIDE DEF at
<1> DEFINE T == {k \in 0..MaxDepth : at[k] \in Good}
<1>3. 0 \in T
  BY <1>0, <1>1
<1>4. ASSUME NEW k \in 1..MaxDepth, k - 1 \in T PROVE k \in T
  <2>1. k \in 0..MaxDepth /\ k # 0
    BY <1>0
  <2>2. at[k] = Successor(at[k - 1])
    BY <1>1, <2>1
  <2> QED BY <1>4, <2>1, <2>2
<1>5. 0..MaxDepth \subseteq T
  <2> HIDE DEF T
  <2> QED BY <1>0, <1>3, <1>4, UpTo
<1> QED BY <1>0, <1>2, <1>5

-----------------------------------------------------------------------------
(* What deliveries keep *)

Stages == {"new", "manifest", "branch", "deploy", "govern", "head", "file", "recheck", "put", "readBack", "over"}
JobRows ==
    [stage : Stages, bundle : 0..MaxBundle, anchor : 0..MaxCommits, expected : 0..MaxCommits,
     blob : 0..MaxBundle, commit : 0..MaxCommits]
DeliveryRows ==
    [status : {"desired", "failed", "published_verified", "applied"},
     bundle : 1..MaxBundle, expected : 1..MaxCommits, commit : 0..MaxCommits]
Commits == [by : Jobs \cup {"people"}, files : [Surfaces -> 0..MaxBundle], during : SUBSET Jobs]

DeliveryTypes ==
    /\ branch \in Seq(Commits) /\ Tip \in 1..MaxCommits
    /\ bundle \in [Surfaces -> 1..MaxBundle]
    /\ job \in [Jobs -> JobRows]
    /\ rows \in [Jobs -> DeliveryRows \cup {NoRow}]
    /\ probe \in [Jobs -> DeliveryRows \cup {NoRow}]

\* A request made the step from one head to another: the commit is its own,
\* and what is between was pushed while it had looked for the last time.
Wrote(j, from, to) ==
    /\ to \in 1..Tip
    /\ to # from => /\ to > from /\ branch[to].by = j
                    /\ \A c \in (from + 1)..(to - 1) : j \in branch[c].during

Unrecorded == {"new", "manifest", "branch", "deploy", "govern"}
Recorded == {"head", "file", "recheck", "put", "readBack"}

\* Where a request is tells what its row is, and what it has seen.
JobFollows(j) ==
    /\ job[j].stage \in {"manifest", "branch", "deploy", "govern"} \cup Recorded => job[j].bundle >= 1
    /\ job[j].stage \in {"deploy", "govern"} \cup Recorded => job[j].expected \in 1..Tip
    /\ job[j].stage \in Unrecorded => rows[j] = NoRow
    /\ job[j].stage \in Recorded => rows[j] = Desired(job[j].bundle, job[j].expected)
    /\ job[j].stage = "readBack" => Wrote(j, job[j].expected, job[j].commit)
    /\ job[j].stage = "put" =>
         \A c \in (job[j].expected + 1)..Tip : j \in branch[c].during

\* A verified delivery names what is there.
RowFollows(j) ==
    rows[j].status \in Verified =>
        /\ Wrote(j, rows[j].expected, rows[j].commit)
        /\ branch[rows[j].commit].files[SurfaceOf[j]] = rows[j].bundle

\* What a consumer is asked about stays as it was read.
ProbeFollows(j) ==
    probe[j].status \in Verified =>
        /\ rows[j].status \in Verified /\ rows[j].bundle = probe[j].bundle
        /\ rows[j].expected = probe[j].expected /\ rows[j].commit = probe[j].commit

DeliveryInv ==
    DeliveryTypes /\ \A j \in Jobs : JobFollows(j) /\ RowFollows(j) /\ ProbeFollows(j)

\* Only one request moves, and the branch does not.
LEMMA OneJobMoves ==
    ASSUME DeliveryInv, NEW i \in Jobs, UNCHANGED <<branch, bundle>>,
           job' = [job EXCEPT ![i] = job'[i]], job'[i] \in JobRows,
           rows' = [rows EXCEPT ![i] = rows'[i]], rows'[i] \in DeliveryRows \cup {NoRow},
           probe' = [probe EXCEPT ![i] = probe'[i]], probe'[i] \in DeliveryRows \cup {NoRow},
           JobFollows(i)', RowFollows(i)', ProbeFollows(i)'
    PROVE  DeliveryInv'
<1>1. DeliveryTypes'
  BY DEF DeliveryInv, DeliveryTypes, Tip
<1> SUFFICES ASSUME NEW j \in Jobs \ {i}
             PROVE  JobFollows(j)' /\ RowFollows(j)' /\ ProbeFollows(j)'
  BY <1>1 DEF DeliveryInv
<1>2. JobFollows(j) /\ RowFollows(j) /\ ProbeFollows(j)
  BY DEF DeliveryInv
<1>3. job'[j] = job[j] /\ rows'[j] = rows[j] /\ probe'[j] = probe[j] /\ branch' = branch
  BY DEF DeliveryInv, DeliveryTypes
<1> QED BY <1>2, <1>3 DEF JobFollows, RowFollows, ProbeFollows, Wrote, Tip

\* A commit is added, and the requests that are past their last look are in
\* it, but for the one that writes.
LEMMA BranchGrows ==
    ASSUME DeliveryInv, NEW commit \in Commits, Tip < MaxCommits, branch' = Append(branch, commit),
           NEW writer, Blind \ {writer} \subseteq commit.during,
           NEW j \in Jobs, j # writer, job'[j] = job[j], rows'[j] = rows[j], probe'[j] = probe[j]
    PROVE  JobFollows(j)' /\ RowFollows(j)' /\ ProbeFollows(j)'
<1>1. /\ Tip' = Tip + 1 /\ Tip \in Nat
      /\ \A n \in 1..Tip : branch'[n] = branch[n]
      /\ branch'[Tip + 1] = commit
  BY DEF DeliveryInv, DeliveryTypes, Tip
<1>2. job[j] \in JobRows /\ rows[j] \in DeliveryRows \cup {NoRow}
  BY DEF DeliveryInv, DeliveryTypes
<1>3. ASSUME NEW from \in 0..MaxCommits, NEW to \in 0..MaxCommits, Wrote(j, from, to)
      PROVE  /\ to \in 1..Tip' /\ branch'[to] = branch[to]
             /\ to # from => /\ to > from /\ branch'[to].by = j
                             /\ \A c \in (from + 1)..(to - 1) : j \in branch'[c].during
  <2>1. to \in 1..Tip
    BY <1>3 DEF Wrote
  <2>2. \A c \in (from + 1)..(to - 1) : c \in 1..Tip
    BY <1>1, <2>1
  <2>3. /\ to # from => to > from /\ branch[to].by = j
        /\ to # from => \A c \in (from + 1)..(to - 1) : j \in branch[c].during
    BY <1>3 DEF Wrote
  <2>4. to \in 1..Tip' /\ branch'[to] = branch[to]
    <3>1. branch'[to] = branch[to]
      BY <1>1, <2>1
    <3>2. Tip' = Tip + 1 /\ Tip \in Nat
      BY <1>1
    <3> QED BY <2>1, <3>1, <3>2
  <2>5. ASSUME to # from, NEW c \in (from + 1)..(to - 1) PROVE j \in branch'[c].during
    <3>1. branch'[c] = branch[c]
      BY <1>1, <2>2
    <3> QED BY <2>3, <2>5, <3>1
  <2> QED BY <2>3, <2>4, <2>5
<1>4. JobFollows(j)'
  <2>1. JobFollows(j)
    BY DEF DeliveryInv
  <2>2. job[j].stage = "readBack" => Wrote(j, job[j].expected, job[j].commit)'
    <3>1. job[j].expected \in 0..MaxCommits /\ job[j].commit \in 0..MaxCommits
      BY <1>2 DEF JobRows
    <3>2. job[j].stage = "readBack" => Wrote(j, job[j].expected, job[j].commit)
      BY <2>1 DEF JobFollows
    <3> DEFINE from == job[j].expected
               to == job[j].commit
    <3>3. from = job'[j].expected /\ to = job'[j].commit /\ (job'[j].stage = "readBack" => job[j].stage = "readBack")
      OBVIOUS
    <3>4. job[j].stage = "readBack" =>
             /\ to \in 1..Tip' /\ branch'[to] = branch[to]
             /\ to # from => /\ to > from /\ branch'[to].by = j
                             /\ \A c \in (from + 1)..(to - 1) : j \in branch'[c].during
      BY <1>3, <3>1, <3>2
    <3> QED BY <3>3, <3>4 DEF Wrote
  <2>3. job[j].stage = "put" =>
          \A c \in (job[j].expected + 1)..Tip' : j \in branch'[c].during
    <3> SUFFICES ASSUME job[j].stage = "put", NEW c \in (job[j].expected + 1)..(Tip + 1)
                 PROVE  j \in branch'[c].during
      BY <1>1
    <3>1. CASE c = Tip + 1
      BY <1>1, <3>1 DEF Blind
    <3>2. CASE c # Tip + 1
      <4>1. c \in (job[j].expected + 1)..Tip /\ c \in 1..Tip
        BY <1>1, <1>2, <3>2 DEF JobRows
      <4> QED BY <1>1, <2>1, <4>1 DEF JobFollows
    <3> QED BY <3>1, <3>2
  <2>4. job[j].stage \in {"deploy", "govern"} \cup Recorded => job[j].expected \in 1..Tip'
    BY <1>1, <2>1 DEF JobFollows
  <2> QED BY <2>1, <2>2, <2>3, <2>4 DEF JobFollows
<1>5. RowFollows(j)'
  <2> SUFFICES ASSUME rows[j].status \in Verified
               PROVE  /\ Wrote(j, rows[j].expected, rows[j].commit)'
                      /\ branch'[rows[j].commit].files[SurfaceOf[j]] = rows[j].bundle
    BY DEF RowFollows
  <2>1. rows[j] \in DeliveryRows
    BY <1>2 DEF NoRow, Verified
  <2>2. RowFollows(j)
    BY DEF DeliveryInv
  <2>3. rows[j].expected \in 0..MaxCommits /\ rows[j].commit \in 0..MaxCommits
    BY <2>1 DEF DeliveryRows
  <2>4. Wrote(j, rows[j].expected, rows[j].commit)
    BY <2>2 DEF RowFollows
  <2> DEFINE from == rows[j].expected
             to == rows[j].commit
  <2>5. /\ to \in 1..Tip' /\ branch'[to] = branch[to]
        /\ to # from => /\ to > from /\ branch'[to].by = j
                        /\ \A c \in (from + 1)..(to - 1) : j \in branch'[c].during
    BY <1>3, <2>3, <2>4
  <2>6. Wrote(j, from, to)'
    BY <2>5 DEF Wrote
  <2> QED BY <2>2, <2>5, <2>6 DEF RowFollows
<1>6. ProbeFollows(j)'
  BY DEF DeliveryInv, ProbeFollows
<1> QED BY <1>4, <1>5, <1>6

LEMMA JobFacts ==
    ASSUME DeliveryInv, NEW j \in Jobs
    PROVE  /\ job[j] \in JobRows /\ rows[j] \in DeliveryRows \cup {NoRow}
           /\ probe[j] \in DeliveryRows \cup {NoRow}
           /\ JobFollows(j) /\ RowFollows(j) /\ ProbeFollows(j)
           /\ Tip \in 1..MaxCommits /\ branch \in Seq(Commits) /\ SurfaceOf[j] \in Surfaces
           /\ bundle[SurfaceOf[j]] \in 1..MaxBundle
           /\ job = [job EXCEPT ![j] = job[j]] /\ rows = [rows EXCEPT ![j] = rows[j]]
           /\ probe = [probe EXCEPT ![j] = probe[j]]
           /\ MaxBundle \in Nat /\ MaxCommits \in Nat
BY DeliveryAssumption DEF DeliveryInv, DeliveryTypes

\* A request that is over has no say; its row may have failed.
LEMMA FailingKeeps ==
    ASSUME DeliveryInv, NEW j \in Jobs, Fails(j), UNCHANGED <<branch, bundle, probe>>
    PROVE  DeliveryInv'
<1> USE JobFacts
<1>1. /\ job' = [job EXCEPT ![j] = job'[j]] /\ job'[j] = OverJob
      /\ rows' = [rows EXCEPT ![j] = rows'[j]]
      /\ rows'[j] = IF rows[j].status = "desired" THEN Failed(rows[j]) ELSE rows[j]
  BY DEF Fails, Over, Save, DeliveryInv, DeliveryTypes
<1>2. OverJob \in JobRows /\ OverJob.stage = "over"
  BY DEF OverJob, NewJob, JobRows, Stages
<1>3. rows'[j] \in DeliveryRows \cup {NoRow}
  <2>1. CASE rows[j].status = "desired"
    <3>1. rows[j] \in DeliveryRows
      BY <2>1 DEF NoRow
    <3> QED BY <1>1, <2>1, <3>1 DEF DeliveryRows, Failed
  <2>2. CASE rows[j].status # "desired"
    BY <1>1, <2>2
  <2> QED BY <2>1, <2>2
<1>4. JobFollows(j)'
  BY <1>1, <1>2 DEF JobFollows, Recorded, Unrecorded
<1>5. rows'[j].status \in Verified => rows'[j] = rows[j]
  BY <1>1 DEF Failed, Verified, DeliveryRows, NoRow
<1>6. RowFollows(j)'
  BY <1>5 DEF RowFollows, Wrote, Tip
<1>7. ProbeFollows(j)'
  BY <1>1 DEF ProbeFollows, Verified
<1> QED BY <1>1, <1>2, <1>3, <1>4, <1>6, <1>7, OneJobMoves

\* A step that only a request makes, before its row is there or after.
LEMMA StageKeeps ==
    ASSUME DeliveryInv, NEW j \in Jobs, NEW w \in JobRows, job' = [job EXCEPT ![j] = w],
           UNCHANGED <<branch, bundle, rows, probe>>, JobFollows(j)'
    PROVE  DeliveryInv'
<1> USE JobFacts
<1>1. job'[j] = w
  BY DEF DeliveryInv, DeliveryTypes
<1>2. RowFollows(j)' /\ ProbeFollows(j)'
  BY DEF RowFollows, ProbeFollows, Wrote, Tip
<1> QED BY <1>1, <1>2, OneJobMoves

\* Up to the decision no row is written ...
LEMMA ReadingKeeps ==
    ASSUME DeliveryInv, NEW j \in Jobs, NEW n \in 0..MaxCommits,
           Publish(j) \/ ReadManifest(j, n) \/ ReadBranch(j) \/ ReadDeploy(j, n)
    PROVE  DeliveryInv'
<1> USE JobFacts DEF JobFollows, Recorded, Unrecorded
<1>0. OverJob \in JobRows /\ OverJob.stage = "over"
  BY DEF OverJob, NewJob, JobRows, Stages
<1>1. CASE Publish(j)
  <2> DEFINE w == [job[j] EXCEPT !.stage = IF j \in Explicit THEN "branch" ELSE "manifest",
                                 !.bundle = bundle[SurfaceOf[j]]]
  <2>1. w \in JobRows /\ w.stage \in {"branch", "manifest"} /\ w.bundle >= 1
    <3>1. bundle[SurfaceOf[j]] \in 0..MaxBundle /\ bundle[SurfaceOf[j]] >= 1
      OBVIOUS
    <3>2. (IF j \in Explicit THEN "branch" ELSE "manifest") \in Stages
      BY DEF Stages
    <3>3. job[j] \in JobRows
      OBVIOUS
    <3>4. PICK x : x = IF j \in Explicit THEN "branch" ELSE "manifest"
      OBVIOUS
    <3>5. w = [job[j] EXCEPT !.stage = x, !.bundle = bundle[SurfaceOf[j]]]
      BY <3>4
    <3>6. x \in Stages /\ x \in {"branch", "manifest"}
      BY <3>2, <3>4
    <3> QED BY ONLY <3>1, <3>3, <3>5, <3>6 DEF JobRows
  <2>2. job' = [job EXCEPT ![j] = w] /\ job'[j] = w
    BY <1>1 DEF Publish, BundleOf, DeliveryInv, DeliveryTypes
  <2>3. UNCHANGED <<branch, bundle, rows, probe>> /\ job[j].stage = "new"
    BY <1>1 DEF Publish
  <2> HIDE DEF w
  <2>4. JobFollows(j)'
    BY <2>1, <2>2, <2>3
  <2> QED BY <2>1, <2>2, <2>3, <2>4, StageKeeps
<1>2. CASE ReadManifest(j, n) \/ ReadDeploy(j, n)
  <2> DEFINE w == IF n \in 1..Tip THEN [job[j] EXCEPT !.stage = IF job[j].stage = "manifest" THEN "branch" ELSE "govern",
                                                      !.anchor = n]
                  ELSE OverJob
  <2>1. w \in JobRows /\ (w.stage = "over" \/
           (w.bundle = job[j].bundle /\ w.expected = job[j].expected
            /\ w.stage = IF job[j].stage = "manifest" THEN "branch" ELSE "govern"))
    BY <1>0 DEF JobRows, Stages
  <2>2. job' = [job EXCEPT ![j] = w] /\ job'[j] = w
    BY <1>2, ZenonT(60) DEF ReadManifest, ReadDeploy, Declared, Deployed, Over, DeliveryInv, DeliveryTypes
  <2>3. UNCHANGED <<branch, bundle, rows, probe>> /\ job[j].stage \in {"manifest", "deploy"}
    BY <1>2 DEF ReadManifest, ReadDeploy
  <2> HIDE DEF w
  <2>4. JobFollows(j)'
    BY <2>1, <2>2, <2>3 DEF Tip
  <2> QED BY <2>1, <2>2, <2>3, <2>4, StageKeeps
<1>3. CASE ReadBranch(j)
  <2> DEFINE w == [job[j] EXCEPT !.expected = Tip,
                                 !.stage = IF j \notin Explicit /\ SurfaceOf[j] \in Bound
                                           THEN "deploy" ELSE "govern"]
  <2>1. /\ w \in JobRows /\ w.stage \in {"deploy", "govern"}
        /\ w.bundle = job[j].bundle /\ w.expected = Tip
    <3>1. Tip \in 0..MaxCommits
      OBVIOUS
    <3>2. (IF j \notin Explicit /\ SurfaceOf[j] \in Bound THEN "deploy" ELSE "govern") \in Stages
      BY DEF Stages
    <3> QED BY <3>1, <3>2 DEF JobRows
  <2>2. job' = [job EXCEPT ![j] = w] /\ job'[j] = w
    BY <1>3 DEF ReadBranch, DeliveryInv, DeliveryTypes
  <2>3. UNCHANGED <<branch, bundle, rows, probe>> /\ job[j].stage = "branch"
    BY <1>3 DEF ReadBranch
  <2> HIDE DEF w
  <2>4. JobFollows(j)'
    BY <2>1, <2>2, <2>3 DEF Tip
  <2> QED BY <2>1, <2>2, <2>3, <2>4, StageKeeps
<1> QED BY <1>1, <1>2, <1>3

\* ... it is written as desired ...
LEMMA GovernKeeps ==
    ASSUME DeliveryInv, NEW j \in Jobs, Govern(j)
    PROVE  DeliveryInv'
<1> USE JobFacts DEF JobFollows, Recorded, Unrecorded
<1>0. OverJob \in JobRows /\ OverJob.stage = "over"
  BY DEF OverJob, NewJob, JobRows, Stages
<1>1. CASE j \in Explicit \/ Custody(job[j].anchor, job[j].expected)
  <2> DEFINE w == [job[j] EXCEPT !.stage = "head", !.anchor = 0]
             r == Desired(job[j].bundle, job[j].expected)
  <2>1. /\ w \in JobRows /\ w.stage = "head"
        /\ w.bundle = job[j].bundle /\ w.expected = job[j].expected
    <3>1. job[j] \in JobRows /\ 0 \in 0..MaxCommits
      OBVIOUS
    <3> QED BY ONLY <3>1 DEF JobRows, Stages
  <2>2. job[j].stage = "govern" /\ UNCHANGED <<branch, bundle, probe>> /\ rows[j] = NoRow
    BY DEF Govern
  <2>3. r \in DeliveryRows /\ r.status = "desired"
    <3>1. job[j].bundle \in 1..MaxBundle /\ job[j].expected \in 1..MaxCommits /\ 0 \in 0..MaxCommits
      BY <2>2 DEF JobRows
    <3> QED BY ONLY <3>1 DEF DeliveryRows, Desired
  <2>4. /\ job' = [job EXCEPT ![j] = job'[j]] /\ job'[j] = w
        /\ rows' = [rows EXCEPT ![j] = rows'[j]] /\ rows'[j] = r
    <3>1. job' = [job EXCEPT ![j].stage = "head", ![j].anchor = 0] /\ rows' = [rows EXCEPT ![j] = r]
      BY <1>1 DEF Govern, Save
    <3>2. j \in Jobs /\ job \in [Jobs -> JobRows] /\ DOMAIN rows = Jobs
      BY DEF DeliveryInv, DeliveryTypes
    <3>3. job' = [job EXCEPT ![j] = w] /\ job'[j] = w
      BY ONLY <3>1, <3>2
    <3>4. rows'[j] = r
      BY ONLY <3>1, <3>2
    <3> HIDE DEF w, r
    <3> QED BY ONLY <3>1, <3>3, <3>4
  <2>5. JobFollows(j)'
    <3> HIDE DEF w
    <3> QED BY <2>1, <2>2, <2>4 DEF Tip
  <2>6. RowFollows(j)' /\ ProbeFollows(j)'
    <3> HIDE DEF r
    <3> QED BY <2>2, <2>3, <2>4 DEF RowFollows, ProbeFollows, Verified, NoRow
  <2> HIDE DEF w, r
  <2> QED BY <2>1, <2>2, <2>3, <2>4, <2>5, <2>6, OneJobMoves
<1>2. CASE ~(j \in Explicit \/ Custody(job[j].anchor, job[j].expected))
  <2>1. job' = [job EXCEPT ![j] = OverJob] /\ UNCHANGED <<branch, bundle, rows, probe>>
    BY <1>2 DEF Govern, Over
  <2>2. JobFollows(j)'
    <3>1. job'[j] = OverJob
      BY <2>1 DEF DeliveryInv, DeliveryTypes
    <3> QED BY <1>0, <3>1
  <2> QED BY <1>0, <2>1, <2>2, StageKeeps
<1> QED BY <1>1, <1>2

\* ... and while the head and the file are looked at ...
LEMMA LookingKeeps ==
    ASSUME DeliveryInv, NEW j \in Jobs, CheckHead(j) \/ ReadFile(j) \/ Recheck(j)
    PROVE  DeliveryInv'
<1> USE JobFacts DEF JobFollows, Recorded, Unrecorded
<1>0. UNCHANGED <<branch, bundle, probe>>
  BY DEF CheckHead, ReadFile, Recheck
<1>1. CASE (CheckHead(j) \/ Recheck(j)) /\ Tip = job[j].expected
  <2> DEFINE w == [job[j] EXCEPT !.stage = IF job[j].stage = "head" THEN "file" ELSE "put"]
  <2>1. /\ w \in JobRows /\ w.stage \in {"file", "put"} /\ w.bundle = job[j].bundle
        /\ w.expected = job[j].expected
    BY DEF JobRows, Stages
  <2>2. job' = [job EXCEPT ![j] = w] /\ UNCHANGED rows /\ job[j].stage \in {"head", "recheck"}
    BY <1>1 DEF CheckHead, Recheck, Goes
  <2>3. job'[j] = w
    BY <2>2 DEF DeliveryInv, DeliveryTypes
  <2>4. \A c \in (job[j].expected + 1)..Tip : FALSE
    BY <1>1
  <2> HIDE DEF w
  <2>5. JobFollows(j)'
    BY <1>0, <2>1, <2>2, <2>3, <2>4 DEF Tip
  <2> QED BY <1>0, <2>1, <2>2, <2>5, StageKeeps
<1>2. CASE (CheckHead(j) \/ Recheck(j)) /\ Tip # job[j].expected
  <2>1. Fails(j)
    BY <1>2 DEF CheckHead, Recheck
  <2> QED BY <1>0, <2>1, FailingKeeps
<1>3. CASE ReadFile(j)
  <2> DEFINE found == branch[Tip].files[SurfaceOf[j]]
             w == IF found = job[j].bundle
                  THEN [job[j] EXCEPT !.stage = "readBack", !.commit = job[j].expected]
                  ELSE [job[j] EXCEPT !.stage = "recheck", !.blob = found]
  <2>1. branch[Tip] \in Commits /\ found \in 0..MaxBundle
    <3>1. branch[Tip] \in Commits
      BY DEF Tip
    <3> QED BY <3>1 DEF Commits
  <2>2. /\ w \in JobRows /\ w.stage \in {"readBack", "recheck"} /\ w.bundle = job[j].bundle
        /\ w.expected = job[j].expected /\ (w.stage = "readBack" => w.commit = job[j].expected)
    <3> HIDE DEF found
    <3> QED BY <2>1 DEF JobRows, Stages
  <2>3. job' = [job EXCEPT ![j] = w] /\ UNCHANGED rows /\ job[j].stage = "file"
    BY <1>3, ZenonT(60) DEF ReadFile
  <2>4. job'[j] = w
    BY <2>3 DEF DeliveryInv, DeliveryTypes
  <2> HIDE DEF w
  <2>5. /\ job[j].bundle >= 1 /\ job[j].expected \in 1..Tip
        /\ rows[j] = Desired(job[j].bundle, job[j].expected)
    BY <2>3
  <2>6. Tip' = Tip
    BY <1>0 DEF Tip
  <2>7. w.stage = "readBack" => Wrote(j, job[j].expected, job[j].commit)'
    BY <2>2, <2>4, <2>5, <2>6 DEF Wrote
  <2>8. JobFollows(j)'
    BY <2>2, <2>3, <2>4, <2>5, <2>6, <2>7
  <2> QED BY <1>0, <2>2, <2>3, <2>8, StageKeeps
<1> QED BY <1>1, <1>2, <1>3

\* ... until the file of the commit is read, or the row is acknowledged.
LEMMA VerifyingKeeps ==
    ASSUME DeliveryInv, NEW j \in Jobs, NEW n \in 0..MaxBundle,
           ReadBack(j) \/ Acknowledge(j, n) \/ Probe(j) \/ Probed(j, n)
    PROVE  DeliveryInv'
<1> USE JobFacts
<1>1. CASE ReadBack(j)
  <2>0. UNCHANGED <<branch, bundle, probe>> /\ job[j].stage = "readBack"
        /\ rows[j] = Desired(job[j].bundle, job[j].expected)
        /\ Wrote(j, job[j].expected, job[j].commit)
    BY <1>1 DEF ReadBack, JobFollows, Recorded
  <2>1. CASE Holds(job[j].commit, SurfaceOf[j], job[j].bundle)
    <3> DEFINE r == Published(rows[j], job[j].commit)
    <3>1. /\ job' = [job EXCEPT ![j] = job'[j]] /\ job'[j] = OverJob
          /\ rows' = [rows EXCEPT ![j] = rows'[j]] /\ rows'[j] = r
      <4>1. job' = [job EXCEPT ![j] = OverJob] /\ rows' = [rows EXCEPT ![j] = r]
        BY <1>1, <2>1 DEF ReadBack, Over, Save
      <4>2. j \in Jobs /\ DOMAIN job = Jobs /\ DOMAIN rows = Jobs
        BY DEF DeliveryInv, DeliveryTypes
      <4> HIDE DEF r
      <4> QED BY ONLY <4>1, <4>2
    <3>2. OverJob \in JobRows /\ OverJob.stage = "over"
      BY DEF OverJob, NewJob, JobRows, Stages
    <3>3. rows[j] \in DeliveryRows /\ job[j].commit \in 0..MaxCommits
      BY <2>0 DEF Desired, NoRow, JobRows
    <3>4. /\ r \in DeliveryRows /\ r.expected = job[j].expected /\ r.commit = job[j].commit
          /\ r.bundle = job[j].bundle
      <4>1. r \in DeliveryRows
        BY ONLY <3>3 DEF DeliveryRows, Published
      <4>2. rows[j].expected = job[j].expected /\ rows[j].bundle = job[j].bundle
        BY <2>0 DEF Desired
      <4>3. r.expected = rows[j].expected /\ r.bundle = rows[j].bundle /\ r.commit = job[j].commit
        BY ONLY <3>3 DEF DeliveryRows, Published
      <4> QED BY <4>1, <4>2, <4>3
    <3> HIDE DEF r
    <3>5. JobFollows(j)'
      BY <3>1, <3>2 DEF JobFollows, Recorded, Unrecorded
    <3>6. RowFollows(j)'
      BY <2>0, <2>1, <3>1, <3>4 DEF RowFollows, Wrote, Tip, Holds
    <3>7. ProbeFollows(j)'
      BY <2>0 DEF ProbeFollows, Verified, Desired
    <3> QED BY <2>0, <3>1, <3>2, <3>4, <3>5, <3>6, <3>7, OneJobMoves
  <2>2. CASE ~Holds(job[j].commit, SurfaceOf[j], job[j].bundle)
    <3>1. Fails(j)
      BY <1>1, <2>2 DEF ReadBack
    <3> QED BY <2>0, <3>1, FailingKeeps
  <2> QED BY <2>1, <2>2
<1>2. CASE Probe(j)
  <2>1. /\ UNCHANGED <<branch, bundle, job, rows>> /\ probe' = [probe EXCEPT ![j] = probe'[j]]
        /\ probe'[j] = rows[j]
    BY <1>2 DEF Probe, DeliveryInv, DeliveryTypes
  <2>2. JobFollows(j)' /\ RowFollows(j)'
    BY <2>1 DEF JobFollows, RowFollows, Wrote, Tip
  <2>3. ProbeFollows(j)'
    BY <2>1 DEF ProbeFollows
  <2> QED BY <2>1, <2>2, <2>3, OneJobMoves
<1>3. CASE Acknowledge(j, n) \/ (Probed(j, n) /\ Evaluated(probe[j], n))
  <2>1. rows[j].status \in Verified /\ rows[j] \in DeliveryRows
    BY <1>3 DEF Acknowledge, Evaluated, ProbeFollows, Verified, NoRow
  <2>2. job[j].stage \notin Unrecorded \cup Recorded
    <3>1. NoRow.status \notin Verified /\ Desired(job[j].bundle, job[j].expected).status \notin Verified
      BY DEF Verified, NoRow, Desired
    <3> QED BY <2>1, <3>1 DEF JobFollows
  <2>3. /\ UNCHANGED <<branch, bundle, job>>
        /\ rows' = [rows EXCEPT ![j] = rows'[j]]
        /\ rows'[j] = Applied(rows[j]) \/ (Evaluated(probe[j], n) /\ rows'[j] = Applied(probe[j]))
        /\ probe' = [probe EXCEPT ![j] = probe'[j]] /\ probe'[j] \in {probe[j], NoRow}
    BY <1>3 DEF Acknowledge, Probed, Save, DeliveryInv, DeliveryTypes
  <2>4. /\ rows'[j] \in DeliveryRows /\ rows'[j].status = "applied" /\ rows'[j].bundle = rows[j].bundle
        /\ rows'[j].expected = rows[j].expected /\ rows'[j].commit = rows[j].commit
    <3>1. CASE rows'[j] = Applied(rows[j])
      BY <2>1, <3>1 DEF Applied, DeliveryRows
    <3>2. CASE Evaluated(probe[j], n) /\ rows'[j] = Applied(probe[j])
      <4>1. probe[j].status \in Verified /\ probe[j] \in DeliveryRows
        BY <3>2 DEF Evaluated, Verified, NoRow
      <4> QED BY <3>2, <4>1 DEF Applied, DeliveryRows, ProbeFollows
    <3> QED BY <2>3, <3>1, <3>2
  <2>5. JobFollows(j)'
    BY <2>2, <2>3 DEF JobFollows, Unrecorded, Recorded
  <2>6. RowFollows(j)'
    BY <2>1, <2>3, <2>4 DEF RowFollows, Wrote, Tip
  <2>7. ProbeFollows(j)'
    BY <2>3, <2>4 DEF ProbeFollows, Verified, NoRow
  <2> QED BY <2>3, <2>4, <2>5, <2>6, <2>7, OneJobMoves
<1>4. CASE Probed(j, n) /\ ~Evaluated(probe[j], n)
  <2>1. /\ UNCHANGED <<branch, bundle, job, rows>> /\ probe' = [probe EXCEPT ![j] = probe'[j]]
        /\ probe'[j] = NoRow
    BY <1>4 DEF Probed, DeliveryInv, DeliveryTypes
  <2>2. JobFollows(j)' /\ RowFollows(j)'
    BY <2>1 DEF JobFollows, RowFollows, Wrote, Tip
  <2>3. ProbeFollows(j)'
    BY <2>1 DEF ProbeFollows, Verified, NoRow
  <2> QED BY <2>1, <2>2, <2>3, OneJobMoves
<1> QED BY <1>1, <1>2, <1>3, <1>4

\* GitHub writes on whatever head there is.
LEMMA PutKeeps ==
    ASSUME DeliveryInv, NEW j \in Jobs, NEW answered, Put(j, answered)
    PROVE  DeliveryInv'
<1> USE JobFacts
<1>1. job[j].stage = "put" /\ Tip < MaxCommits /\ UNCHANGED <<bundle, probe>>
  BY DEF Put
<1>2. CASE branch' = branch
  <2>1. branch # Append(branch, Commit(j, [branch[Tip].files EXCEPT ![SurfaceOf[j]] = job[j].bundle], Blind \ {j}))
    <3> DEFINE c == Commit(j, [branch[Tip].files EXCEPT ![SurfaceOf[j]] = job[j].bundle], Blind \ {j})
    <3>1. Len(Append(branch, c)) = Len(branch) + 1 /\ Len(branch) \in Nat
      <4> HIDE DEF c
      <4> QED OBVIOUS
    <3> QED BY <3>1
  <2>2. Fails(j)
    BY <1>2, <2>1 DEF Put
  <2> QED BY <1>1, <1>2, <2>2, FailingKeeps
<1>3. CASE branch' # branch
  <2> DEFINE s == SurfaceOf[j]
             c == Commit(j, [branch[Tip].files EXCEPT ![s] = job[j].bundle], Blind \ {j})
             w == [job[j] EXCEPT !.stage = "readBack", !.commit = Tip + 1]
  <2>1. /\ branch' = Append(branch, c)
        /\ \/ job' = [job EXCEPT ![j] = w] /\ UNCHANGED rows
           \/ Fails(j)
    BY <1>3 DEF Put
  <2>2. branch[Tip] \in Commits
    BY DEF Tip
  <2>3. c \in Commits /\ c.during = Blind \ {j} /\ c.by = j /\ c.files[s] = job[j].bundle
    <3>1. job[j].bundle \in 0..MaxBundle
      BY DEF JobRows
    <3>2. Blind \ {j} \in SUBSET Jobs
      BY DEF Blind
    <3> HIDE DEF Blind
    <3> QED BY <2>2, <3>1, <3>2 DEF Commits, Commit
  <2> HIDE DEF c
  <2>4. /\ Tip' = Tip + 1 /\ Tip \in Nat
        /\ \A n \in 1..Tip : branch'[n] = branch[n]
        /\ branch'[Tip + 1] = c
        /\ branch' \in Seq(Commits)
    BY <2>1, <2>3 DEF Tip
  <2>5. Tip + 1 \in 1..MaxCommits
    BY <1>1, <2>4
  <2>6. /\ w \in JobRows /\ w.stage = "readBack" /\ w.commit = Tip + 1
        /\ w.expected = job[j].expected /\ w.bundle = job[j].bundle
    <3>1. Tip + 1 \in 0..MaxCommits
      BY <2>5
    <3> QED BY <3>1 DEF JobRows, Stages
  <2> HIDE DEF w
  <2>7. /\ job' \in [Jobs -> JobRows] /\ rows' \in [Jobs -> DeliveryRows \cup {NoRow}]
        /\ \A i \in Jobs \ {j} : job'[i] = job[i] /\ rows'[i] = rows[i] /\ probe'[i] = probe[i]
        /\ \/ job'[j] = w /\ rows'[j] = rows[j]
           \/ job'[j] = OverJob /\ rows'[j] \in {rows[j], Failed(rows[j])}
              /\ (rows[j].status # "desired" => rows'[j] = rows[j])
    <3>1. CASE job' = [job EXCEPT ![j] = w] /\ UNCHANGED rows
      BY <1>1, <2>6, <3>1 DEF DeliveryInv, DeliveryTypes
    <3>2. CASE Fails(j)
      <4>1. OverJob \in JobRows
        BY DEF OverJob, NewJob, JobRows, Stages
      <4>2. rows[j].status = "desired" => Failed(rows[j]) \in DeliveryRows
        <5>1. rows[j].status = "desired" => rows[j] \in DeliveryRows
          BY DEF NoRow
        <5> QED BY <5>1 DEF Failed, DeliveryRows
      <4> QED BY <1>1, <3>2, <4>1, <4>2 DEF Fails, Over, Save, DeliveryInv, DeliveryTypes
    <3> QED BY <2>1, <3>1, <3>2
  <2>8. ASSUME NEW i \in Jobs \ {j} PROVE JobFollows(i)' /\ RowFollows(i)' /\ ProbeFollows(i)'
    <3>1. i \in Jobs /\ i # j /\ job'[i] = job[i] /\ rows'[i] = rows[i] /\ probe'[i] = probe[i]
      BY <2>7
    <3> QED BY <1>1, <2>1, <2>3, <3>1, BranchGrows
  <2>9. /\ job[j].bundle >= 1 /\ job[j].expected \in 1..Tip
        /\ rows[j] = Desired(job[j].bundle, job[j].expected)
        /\ \A n \in (job[j].expected + 1)..Tip : j \in branch[n].during
    BY <1>1 DEF JobFollows, Recorded
  <2>10. JobFollows(j)'
    <3>1. CASE job'[j] = OverJob
      BY <3>1 DEF JobFollows, OverJob, NewJob, Recorded, Unrecorded
    <3>2. CASE job'[j] = w /\ rows'[j] = rows[j]
      <4>1. Wrote(j, job[j].expected, job[j].commit)'
        <5>1. job'[j].expected = job[j].expected /\ job'[j].commit = Tip + 1
          BY <2>6, <3>2
        <5>2. \A n \in (job[j].expected + 1)..(Tip + 1 - 1) : n \in 1..Tip /\ n \in (job[j].expected + 1)..Tip
          BY <2>4, <2>9
        <5>3. \A n \in (job[j].expected + 1)..(Tip + 1 - 1) : j \in branch'[n].during
          BY <2>4, <2>9, <5>2
        <5>4. Tip + 1 > job[j].expected /\ Tip + 1 \in 1..Tip' /\ branch'[Tip + 1].by = j
          BY <2>3, <2>4, <2>9
        <5> QED BY <5>1, <5>3, <5>4 DEF Wrote
      <4>2. job'[j].expected \in 1..Tip'
        BY <2>4, <2>6, <2>9, <3>2
      <4> QED BY <2>6, <2>9, <3>2, <4>1, <4>2 DEF JobFollows, Recorded, Unrecorded
    <3> QED BY <2>7, <3>1, <3>2
  <2>11. rows[j].status \notin Verified /\ rows'[j].status \notin Verified
    <3>1. rows[j].status = "desired"
      BY <2>9 DEF Desired
    <3>2. Failed(rows[j]).status = "failed"
      BY <2>9 DEF Desired, Failed
    <3> QED BY <2>7, <3>1, <3>2 DEF Verified
  <2>12. RowFollows(j)' /\ ProbeFollows(j)'
    BY <1>1, <2>11 DEF RowFollows, ProbeFollows
  <2>13. DeliveryTypes'
    BY <1>1, <2>4, <2>5, <2>7 DEF DeliveryInv, DeliveryTypes
  <2> QED BY <2>8, <2>10, <2>12, <2>13 DEF DeliveryInv
<1> QED BY <1>2, <1>3

LEMMA OthersKeep ==
    ASSUME DeliveryInv,
           (\E s \in Surfaces : Revise(s) \/ \E f \in 0..MaxBundle : Push(s, f)) \/ Dies
    PROVE  DeliveryInv'
<1>1. ASSUME NEW s \in Surfaces, Revise(s) PROVE DeliveryInv'
  <2>1. DeliveryTypes'
    BY <1>1, DeliveryAssumption DEF Revise, DeliveryInv, DeliveryTypes, Tip
  <2> QED BY <1>1, <2>1 DEF Revise, DeliveryInv, JobFollows, RowFollows, ProbeFollows, Wrote, Tip
<1>2. ASSUME NEW s \in Surfaces, NEW f \in 0..MaxBundle, Push(s, f) PROVE DeliveryInv'
  <2> DEFINE c == Commit("people", [branch[Tip].files EXCEPT ![s] = f], Blind)
  <2>1. Tip < MaxCommits /\ branch' = Append(branch, c) /\ UNCHANGED <<bundle, job, rows, probe>>
    BY <1>2 DEF Push
  <2>2. branch[Tip] \in Commits
    BY DEF DeliveryInv, DeliveryTypes, Tip
  <2>3. c \in Commits /\ c.during = Blind
    <3>1. Blind \in SUBSET Jobs
      BY DEF Blind
    <3> HIDE DEF Blind
    <3> QED BY <2>2, <3>1 DEF Commits, Commit
  <2> HIDE DEF c
  <2>4. ASSUME NEW j \in Jobs PROVE JobFollows(j)' /\ RowFollows(j)' /\ ProbeFollows(j)'
    <3> DEFINE writer == CHOOSE x : x \notin Jobs
    <3>1. writer # j
      BY NoSetContainsEverything
    <3> HIDE DEF writer
    <3> QED BY <2>1, <2>3, <3>1, BranchGrows
  <2>5. DeliveryTypes'
    <3>1. branch \in Seq(Commits) /\ Tip \in 1..MaxCommits /\ MaxCommits \in Nat
      BY DeliveryAssumption DEF DeliveryInv, DeliveryTypes
    <3>2. branch' \in Seq(Commits) /\ Tip' = Tip + 1
      BY <2>1, <2>3, <3>1 DEF Tip
    <3>3. Tip' \in 1..MaxCommits
      BY <2>1, <3>1, <3>2
    <3> QED BY <2>1, <3>2, <3>3 DEF DeliveryInv, DeliveryTypes
  <2> QED BY <2>4, <2>5 DEF DeliveryInv
<1>3. CASE Dies
  <2>1. DeliveryTypes'
    <3>1. NewJob \in JobRows /\ OverJob \in JobRows
      BY DeliveryAssumption DEF OverJob, NewJob, JobRows, Stages
    <3> QED BY <1>3, <3>1 DEF Dies, DeliveryInv, DeliveryTypes, Tip
  <2>2. ASSUME NEW j \in Jobs PROVE JobFollows(j)' /\ RowFollows(j)' /\ ProbeFollows(j)'
    <3>1. /\ job'[j] = IF job[j].stage = "new" THEN NewJob ELSE OverJob
          /\ rows' = rows /\ branch' = branch /\ probe'[j] = NoRow
      BY <1>3 DEF Dies
    <3>2. JobFollows(j) /\ RowFollows(j)
      BY DEF DeliveryInv
    <3>3. JobFollows(j)'
      BY <3>1, <3>2 DEF JobFollows, OverJob, NewJob, Recorded, Unrecorded
    <3>4. RowFollows(j)'
      BY <3>1, <3>2 DEF RowFollows, Wrote, Tip
    <3>5. ProbeFollows(j)'
      BY <3>1 DEF ProbeFollows, NoRow, Verified
    <3> QED BY <3>3, <3>4, <3>5
  <2> QED BY <2>1, <2>2 DEF DeliveryInv
<1> QED BY <1>1, <1>2, <1>3

LEMMA DeliveryInvInit == DeliveryInit => DeliveryInv
<1> SUFFICES ASSUME DeliveryInit PROVE DeliveryInv
  OBVIOUS
<1>1. NewJob \in JobRows /\ NewJob.stage = "new"
  BY DeliveryAssumption DEF NewJob, JobRows, Stages
<1>2. DeliveryTypes
  <2>1. Commit("people", [s \in Surfaces |-> 0], {}) \in Commits
    BY DeliveryAssumption DEF Commit, Commits
  <2>2. branch \in Seq(Commits) /\ Tip = 1
    <3> DEFINE c == Commit("people", [s \in Surfaces |-> 0], {})
    <3>1. branch = <<c>>
      BY DEF DeliveryInit
    <3>2. c \in Commits
      BY <2>1
    <3> HIDE DEF c
    <3>3. <<c>> \in Seq(Commits) /\ Len(<<c>>) = 1
      BY <3>2
    <3> QED BY <3>1, <3>3 DEF Tip
  <2>3. Tip \in 1..MaxCommits /\ 1 \in 1..MaxBundle
    BY <2>2, DeliveryAssumption
  <2> QED BY <1>1, <2>2, <2>3 DEF DeliveryInit, DeliveryTypes
<1>3. ASSUME NEW j \in Jobs PROVE JobFollows(j) /\ RowFollows(j) /\ ProbeFollows(j)
  <2>1. job[j] = NewJob /\ rows[j] = NoRow /\ probe[j] = NoRow
    BY DEF DeliveryInit
  <2>2. NoRow.status \notin Verified
    BY DEF NoRow, Verified
  <2> QED BY <1>1, <2>1, <2>2 DEF JobFollows, RowFollows, ProbeFollows, Recorded, Unrecorded
<1> QED BY <1>2, <1>3 DEF DeliveryInv

LEMMA DeliveryInvKept == DeliveryInv /\ [DeliveryNext]_deliveryVars => DeliveryInv'
<1> SUFFICES ASSUME DeliveryInv, [DeliveryNext]_deliveryVars PROVE DeliveryInv'
  OBVIOUS
<1>1. CASE UNCHANGED deliveryVars
  BY <1>1 DEF deliveryVars, DeliveryInv, DeliveryTypes, JobFollows, RowFollows, ProbeFollows, Wrote, Tip
<1>2. ASSUME NEW j \in Jobs, Breaks(j) PROVE DeliveryInv'
  BY <1>2, FailingKeeps DEF Breaks
<1> QED
  BY <1>1, <1>2, ReadingKeeps, GovernKeeps, LookingKeeps, VerifyingKeeps, PutKeeps, OthersKeep,
     DeliveryAssumption DEF DeliveryNext

\* A delivery that is reported as verified names a commit in which its surface
\* has that bundle, for any requests, surfaces and pushes (server.ts: publish).
THEOREM VerifiedIsPublished == DeliverySpec => []VerifiedIsThere
<1>1. DeliveryInv => VerifiedIsThere
  BY DEF DeliveryInv, DeliveryTypes, DeliveryRows, Commits, RowFollows, Wrote, VerifiedIsThere, DeliveryTypeOK
<1> QED BY <1>1, DeliveryInvInit, DeliveryInvKept, PTL DEF DeliverySpec

\* What the head a publication found adds to the head it trusts lies in
\* deliveries that were verified.
Accounted(c) ==
    (\E k \in Jobs : rows[k].status \in Verified /\ rows[k].commit = c) \/ branch[c].during # {}

\* A verified delivery passes that on from head to head.
LEMMA SuccessorIsAccounted ==
    ASSUME DeliveryInv, NEW anchor \in Nat, NEW x \in Nat, x >= anchor,
           \A c \in (anchor + 1)..x : Accounted(c)
    PROVE  Successor(x) \in Nat /\ Successor(x) >= anchor
           /\ \A c \in (anchor + 1)..Successor(x) : Accounted(c)
<1>1. CASE \E l \in Links : l[1] = x
  <2>1. PICK l \in Links : l[1] = x /\ Successor(x) = l[2]
    BY <1>1 DEF Successor
  <2>2. PICK k \in Jobs : /\ rows[k].status \in Verified /\ rows[k].expected # rows[k].commit
                          /\ l = <<rows[k].expected, rows[k].commit>>
    BY <2>1 DEF Links
  <2>3. rows[k] \in DeliveryRows /\ Wrote(k, x, Successor(x)) /\ rows[k].commit = Successor(x) /\ Successor(x) # x
    BY <2>1, <2>2 DEF DeliveryInv, DeliveryTypes, RowFollows, Verified, NoRow
  <2>4. Successor(x) \in Nat /\ Successor(x) > x
    BY <2>3 DEF Wrote, DeliveryRows
  <2>5. ASSUME NEW c \in (anchor + 1)..Successor(x) PROVE Accounted(c)
    <3>1. CASE c <= x
      BY <3>1
    <3>2. CASE c = Successor(x)
      BY <2>2, <2>3, <3>2 DEF Accounted
    <3>3. CASE c > x /\ c # Successor(x)
      <4>1. c \in (x + 1)..(Successor(x) - 1)
        BY <2>4, <3>3
      <4> QED BY <2>3, <4>1 DEF Wrote, Accounted
    <3> QED BY <2>4, <3>1, <3>2, <3>3
  <2> QED BY <2>4, <2>5
<1>2. CASE ~ \E l \in Links : l[1] = x
  BY <1>2 DEF Successor
<1> QED BY <1>1, <1>2

LEMMA CustodyIsAccounted ==
    ASSUME DeliveryInv, NEW anchor \in Nat, NEW observed, Custody(anchor, observed)
    PROVE  \A c \in (anchor + 1)..observed : Accounted(c)
<1> DEFINE Good == {x \in Nat : x >= anchor /\ \A c \in (anchor + 1)..x : Accounted(c)}
<1>1. anchor \in Good
  OBVIOUS
<1>2. \A x \in Good : Successor(x) \in Good
  BY SuccessorIsAccounted
<1>3. observed \in Good
  <2> HIDE DEF Good
  <2> QED BY <1>1, <1>2, LineageKeeps DEF Custody
<1> QED BY <1>3

\* Only the decision lets a publication go on to the head.
LEMMA OnlyGovernGoesOn ==
    ASSUME DeliveryInv, DeliveryNext, NEW j \in Jobs,
           job[j].stage = "govern", job'[j].stage = "head"
    PROVE  Govern(j)
<1> USE JobFacts
<1>0. OverJob.stage = "over" /\ NewJob.stage = "new"
  BY DEF OverJob, NewJob
<1> SUFFICES ASSUME ~Govern(j) PROVE FALSE
  OBVIOUS
<1>1. ASSUME NEW i \in Jobs, i # j,
             \/ Publish(i) \/ ReadBranch(i) \/ Govern(i)
             \/ \E n \in 0..MaxCommits : ReadManifest(i, n) \/ ReadDeploy(i, n)
             \/ Breaks(i) \/ CheckHead(i) \/ ReadFile(i) \/ Recheck(i) \/ ReadBack(i)
             \/ \E answered \in BOOLEAN : Put(i, answered)
      PROVE  job'[j] = job[j]
  <2> USE <1>1 DEF DeliveryInv, DeliveryTypes
  <2>1. ASSUME Fails(i) \/ Over(i) PROVE job'[j] = job[j]
    BY <2>1 DEF Fails, Over
  <2>2. CASE Publish(i) \/ ReadBranch(i) \/ Breaks(i) \/ ReadFile(i)
    BY <2>1, <2>2 DEF Publish, ReadBranch, Breaks, ReadFile
  <2>3. CASE \E n \in 0..MaxCommits : ReadManifest(i, n) \/ ReadDeploy(i, n)
    BY <2>1, <2>3 DEF ReadManifest, ReadDeploy
  <2>4. CASE CheckHead(i) \/ Recheck(i) \/ Govern(i) \/ ReadBack(i)
    BY <2>1, <2>4 DEF CheckHead, Recheck, Govern, ReadBack, Goes
  <2>5. CASE \E answered \in BOOLEAN : Put(i, answered)
    BY <2>1, <2>5 DEF Put
  <2> QED BY <2>2, <2>3, <2>4, <2>5
<1>2. CASE Publish(j) \/ ReadBranch(j) \/ CheckHead(j) \/ ReadFile(j) \/ Recheck(j) \/ ReadBack(j)
           \/ \E answered \in BOOLEAN : Put(j, answered)
  BY <1>2 DEF Publish, ReadBranch, CheckHead, ReadFile, Recheck, ReadBack, Put
<1>3. ASSUME NEW n \in 0..MaxCommits, ReadManifest(j, n) \/ ReadDeploy(j, n) PROVE FALSE
  BY <1>3 DEF ReadManifest, ReadDeploy
<1>4. CASE Breaks(j)
  <2>1. job'[j] = OverJob
    BY <1>4 DEF Breaks, Fails, Over, DeliveryInv, DeliveryTypes
  <2> QED BY <1>0, <2>1
<1>5. ASSUME NEW i \in Jobs, Probe(i) \/ \E n \in 0..MaxBundle : Acknowledge(i, n) \/ Probed(i, n)
      PROVE  job' = job
  BY <1>5 DEF Probe, Acknowledge, Probed
<1>6. ASSUME NEW s \in Surfaces, Revise(s) \/ \E f \in 0..MaxBundle : Push(s, f) PROVE job' = job
  BY <1>6 DEF Revise, Push
<1>7. CASE Dies
  BY <1>0, <1>7 DEF Dies
<1> QED BY <1>1, <1>2, <1>3, <1>4, <1>5, <1>6, <1>7 DEF DeliveryNext

\* What a step makes of a delivery.
RowEnds(j) ==
    /\ rows[j].status = "failed" => rows'[j] = rows[j]
    /\ rows[j].status \in Verified =>
         rows'[j].status \in Verified /\ rows'[j].commit = rows[j].commit
         /\ rows'[j].bundle = rows[j].bundle
    /\ rows'[j].status = "applied" => rows[j].status \in Verified

LEMMA RowsEnd ==
    ASSUME DeliveryInv, DeliveryNext, NEW j \in Jobs
    PROVE  RowEnds(j)
<1> USE JobFacts
<1>0. CASE rows'[j] = rows[j]
  BY <1>0 DEF RowEnds, Verified
<1>1. ASSUME NEW i \in Jobs, Fails(i) PROVE RowEnds(j)
  <2>1. rows'[j] = rows[j] \/ (rows[j].status = "desired" /\ rows'[j] = Failed(rows[j]))
    BY <1>1 DEF Fails, Save, DeliveryInv, DeliveryTypes
  <2>2. CASE rows[j].status = "desired" /\ rows'[j] = Failed(rows[j])
    <3>1. rows[j] \in DeliveryRows
      BY <2>2 DEF NoRow
    <3>2. rows'[j].status = "failed"
      BY <2>2, <3>1 DEF Failed, DeliveryRows
    <3> QED BY <2>2, <3>2 DEF RowEnds, Verified
  <2> QED BY <1>0, <2>1, <2>2
<1>2. ASSUME NEW i \in Jobs, NEW n \in 0..MaxCommits,
             \/ Publish(i) \/ ReadBranch(i) \/ ReadManifest(i, n) \/ ReadDeploy(i, n)
             \/ ReadFile(i) \/ Probe(i)
      PROVE  rows' = rows
  BY <1>2 DEF Publish, ReadBranch, ReadManifest, ReadDeploy, ReadFile, Probe
<1>3. ASSUME NEW i \in Jobs, Breaks(i) \/ CheckHead(i) \/ Recheck(i) \/ \E answered \in BOOLEAN : Put(i, answered)
      PROVE  rows' = rows \/ Fails(i)
  BY <1>3 DEF Breaks, CheckHead, Recheck, Put
<1>4. ASSUME NEW i \in Jobs, Govern(i) PROVE RowEnds(j)
  <2>1. rows[i] = NoRow
    BY <1>4 DEF Govern, JobFollows, Unrecorded
  <2>2. rows'[j] = rows[j] \/ (i = j /\ rows'[j] = Desired(job[j].bundle, job[j].expected))
    BY <1>4 DEF Govern, Save, DeliveryInv, DeliveryTypes
  <2> QED BY <1>0, <2>1, <2>2 DEF RowEnds, NoRow, Desired, Verified
<1>5. ASSUME NEW i \in Jobs, ReadBack(i) PROVE RowEnds(j)
  <2>1. rows[i] = Desired(job[i].bundle, job[i].expected)
    BY <1>5 DEF ReadBack, JobFollows, Recorded
  <2>2. CASE Holds(job[i].commit, SurfaceOf[i], job[i].bundle)
    <3>1. rows'[j] = rows[j] \/ (i = j /\ rows'[j] = Published(rows[j], job[j].commit))
      BY <1>5, <2>2 DEF ReadBack, Save, DeliveryInv, DeliveryTypes
    <3>2. CASE i = j /\ rows'[j] = Published(rows[j], job[j].commit)
      <4>1. rows[j].status = "desired" /\ rows[j] \in DeliveryRows
        BY <2>1, <3>2 DEF Desired, NoRow
      <4>2. rows'[j].status = "published_verified"
        BY <3>2, <4>1 DEF Published, DeliveryRows
      <4> QED BY <4>1, <4>2 DEF RowEnds, Verified
    <3> QED BY <1>0, <3>1, <3>2
  <2>3. CASE ~Holds(job[i].commit, SurfaceOf[i], job[i].bundle)
    BY <1>1, <1>5, <2>3 DEF ReadBack
  <2> QED BY <2>2, <2>3
<1>6. ASSUME NEW i \in Jobs, NEW n \in 0..MaxBundle, Acknowledge(i, n) \/ Probed(i, n) PROVE RowEnds(j)
  <2>1. \/ rows'[j] = rows[j]
        \/ /\ rows[j].status \in Verified
           /\ \/ rows'[j] = Applied(rows[j])
              \/ probe[j].status \in Verified /\ rows'[j] = Applied(probe[j])
    BY <1>6 DEF Acknowledge, Probed, Evaluated, Save, ProbeFollows, DeliveryInv, DeliveryTypes
  <2>2. CASE rows[j].status \in Verified /\ rows'[j] = Applied(rows[j])
    <3>1. rows[j] \in DeliveryRows
      BY <2>2 DEF NoRow, Verified
    <3> QED BY <2>2, <3>1 DEF RowEnds, Applied, DeliveryRows, Verified
  <2>3. CASE rows[j].status \in Verified /\ probe[j].status \in Verified /\ rows'[j] = Applied(probe[j])
    <3>1. probe[j] \in DeliveryRows
      BY <2>3 DEF NoRow, Verified
    <3>2. rows'[j].status = "applied" /\ rows'[j].bundle = probe[j].bundle /\ rows'[j].commit = probe[j].commit
      BY <2>3, <3>1 DEF Applied, DeliveryRows
    <3> QED BY <2>3, <3>2 DEF RowEnds, Verified, ProbeFollows
  <2> QED BY <1>0, <2>1, <2>2, <2>3
<1>7. ASSUME NEW s \in Surfaces, Revise(s) \/ \E f \in 0..MaxBundle : Push(s, f) PROVE rows' = rows
  BY <1>7 DEF Revise, Push
<1>8. CASE Dies
  BY <1>0, <1>8 DEF Dies
<1>9. 0 \in 0..MaxCommits
  BY DeliveryAssumption
<1> QED BY <1>0, <1>1, <1>2, <1>3, <1>4, <1>5, <1>6, <1>7, <1>8, <1>9 DEF DeliveryNext

\* Deliveries follow each other on the branch and are not rewritten, for any
\* depth of the chain and any pushes (verifyReleaseHeadCustody and the writes
\* of a delivery).
THEOREM DeliveriesFollow == DeliverySpec => DeliveriesHold
<1> DEFINE Trusted(j) ==
      job[j].stage = "govern" /\ job'[j].stage = "head" =>
        \A c \in (job[j].anchor + 1)..job[j].expected :
          \/ \E k \in Jobs : rows[k].status \in Verified /\ rows[k].commit = c
          \/ branch[c].during # {}
    EndsOnce(j) ==
      /\ rows[j].status = "failed" => rows'[j] = rows[j]
      /\ rows[j].status \in Verified =>
           rows'[j].status \in Verified /\ rows'[j].commit = rows[j].commit
           /\ rows'[j].bundle = rows[j].bundle
      /\ rows'[j].status = "applied" => rows[j].status \in Verified
<1>1. DeliveryInv /\ [DeliveryNext]_deliveryVars =>
        [\A j \in Jobs \ Explicit : Trusted(j)]_deliveryVars
  <2> SUFFICES ASSUME DeliveryInv, DeliveryNext, NEW j \in Jobs \ Explicit,
                      job[j].stage = "govern", job'[j].stage = "head",
                      NEW c \in (job[j].anchor + 1)..job[j].expected
               PROVE  Accounted(c)
    BY DEF Accounted
  <2>1. Govern(j)
    BY OnlyGovernGoesOn
  <2>2. Custody(job[j].anchor, job[j].expected)
    <3>1. job'[j] = OverJob => job'[j].stage = "over"
      BY DEF OverJob, NewJob
    <3> QED BY <2>1, <3>1 DEF Govern, Over, DeliveryInv, DeliveryTypes
  <2>3. job[j].anchor \in Nat
    BY JobFacts DEF JobRows
  <2> QED BY <2>2, <2>3, CustodyIsAccounted
<1>2. DeliveryInv /\ [DeliveryNext]_deliveryVars => [\A j \in Jobs : EndsOnce(j)]_deliveryVars
  BY RowsEnd DEF RowEnds
<1>3. DeliverySpec => []DeliveryInv
  BY DeliveryInvInit, DeliveryInvKept, PTL DEF DeliverySpec
<1>4. DeliverySpec => CustodyIsLineage
  BY <1>1, <1>3, PTL DEF DeliverySpec, CustodyIsLineage
<1>5. DeliverySpec => DeliveriesEnd
  BY <1>2, <1>3, PTL DEF DeliverySpec, DeliveriesEnd
<1> QED BY <1>4, <1>5 DEF DeliveriesHold

-----------------------------------------------------------------------------
(* The agents of a node, and their calls *)

Answers == {<<>>, <<"failed">>, <<"accepted">>, <<"unverified">>, <<"rejected">>}
NodeStages == {"ready", "waiting", "done", "failed"}
CallStages == {"none", "producing", "verifying", "over"}

AgentTypes ==
    /\ team \in [verifiers : SUBSET Agents, local : SUBSET Agents, able : SUBSET Agents]
    /\ node \in [at : NodeStages, tries : 0..MaxCalls, left : Int, output : 0..MaxCalls]
    /\ call \in [1..MaxCalls -> [at : CallStages, producer : Nat, verifier : Nat, left : Int]]
    /\ told \in [1..MaxCalls -> Answers]

\* What holds of call c of which t is told: its answer is told when it is over;
\* its verifier is another agent; both are where the node allows.
CallAgrees(c, t) ==
    /\ t = <<>> <=> c.at # "over"
    /\ c.at = "verifying" \/ t = <<"accepted">> => c.verifier \in team.verifiers /\ c.verifier # c.producer
    /\ t = <<"unverified">> => ~NeedsVerification
    /\ ask.requireLocal => {c.producer, c.verifier} \subseteq team.local \cup {0}

\* The node has its last call answered, and no call is ahead of it.
NodeAgrees ==
    /\ node.at = "done" => node.output = node.tries /\ node.tries \in 1..MaxCalls
                             /\ told[node.tries] \in {<<"accepted">>, <<"unverified">>}
    /\ \A i \in 1..MaxCalls : node.tries < i => call[i].at = "none"

AgentInv == AgentTypes /\ (\A i \in 1..MaxCalls : CallAgrees(call[i], told[i])) /\ NodeAgrees

\* The agent that is asked is of the pool, and local where that is required.
LEMMA RoutedIsFit ==
    ASSUME AgentTypes, NEW pool \in SUBSET Agents
    PROVE  Routed(pool) \in pool \cup {0} /\ (ask.requireLocal => Routed(pool) \in team.local \cup {0})
<1> DEFINE eligible == IF ask.requireLocal THEN pool \cap team.local ELSE pool
           first == IF ask.preferLocal /\ eligible \cap team.local # {} THEN eligible \cap team.local ELSE eligible
<1>1. first \subseteq pool /\ (ask.requireLocal => first \subseteq team.local)
  OBVIOUS
<1>2. Routed(pool) = IF first = {} THEN 0 ELSE CHOOSE a \in first : \A b \in first : a <= b
  BY DEF Routed
<1> HIDE DEF first
<1>3. ASSUME first # {} PROVE Routed(pool) \in first
  <2>1. first \subseteq Nat
    BY <1>1, AgentAssumption
  <2>2. \E a \in first : \A b \in first : a <= b
    BY <1>3, <2>1, FirstExists
  <2> QED BY <1>2, <1>3, <2>2
<1> QED BY <1>1, <1>2, <1>3

LEMMA AnswersDiffer ==
    /\ Tells(<<"failed">>) = <<"failed">> /\ Tells(<<"rejected", "failed">>) = <<"rejected">>
    /\ Tells(<<"unverified">>) = <<"unverified">> /\ Tells(<<"accepted">>) = <<"accepted">>
    /\ <<"failed">> # <<"accepted">> /\ <<"failed">> # <<"unverified">> /\ <<"failed">> # <<>>
    /\ <<"rejected">> # <<"accepted">> /\ <<"rejected">> # <<"unverified">> /\ <<"rejected">> # <<>>
    /\ <<"accepted">> # <<"unverified">> /\ <<"accepted">> # <<>> /\ <<"unverified">> # <<>>
BY DEF Tells

LEMMA AgentsStart == AgentInit => AgentInv
<1> SUFFICES ASSUME AgentInit PROVE AgentInv
  OBVIOUS
<1>1. node = NewNodeRun /\ call = [i \in 1..MaxCalls |-> NoCall] /\ told = [i \in 1..MaxCalls |-> <<>>]
      /\ team \in [verifiers : SUBSET Agents, local : SUBSET Agents, able : SUBSET Agents]
  BY DEF AgentInit
<1>2. AgentTypes
  BY <1>1, AgentAssumption DEF AgentTypes, NewNodeRun, NoCall, Answers, NodeStages, CallStages
<1>3. ASSUME NEW i \in 1..MaxCalls PROVE CallAgrees(call[i], told[i])
  <2>1. call[i].at = "none" /\ call[i].producer = 0 /\ call[i].verifier = 0 /\ told[i] = <<>>
    BY <1>1 DEF NoCall
  <2> QED BY <2>1, AnswersDiffer DEF CallAgrees
<1>4. NodeAgrees
  BY <1>1 DEF NodeAgrees, NewNodeRun, NoCall
<1> QED BY <1>2, <1>3, <1>4 DEF AgentInv

\* A step of one call that is at work, told t at its end or <<>> before that:
\* the rest of the calls stay, and the node takes the answer or goes on.
LEMMA CallKeeps ==
    ASSUME AgentInv, NEW i \in 1..MaxCalls, NEW c, NEW t \in Answers,
           call[i].at # "over", i <= node.tries,
           c \in [at : CallStages, producer : Nat, verifier : Nat, left : Int], CallAgrees(c, t),
           call' = [call EXCEPT ![i] = c], told' = [told EXCEPT ![i] = t], UNCHANGED <<team, ask>>,
           node' \in {node, Refused}
             \/ (Awaits(i) /\ node' = [node EXCEPT !.at = "done", !.output = i] /\ t \in {<<"accepted">>, <<"unverified">>})
    PROVE  AgentInv'
<1> USE DEF AgentInv
<1>1. AgentTypes' /\ node'.tries = node.tries
  BY DEF AgentTypes, Refused, Awaits, NodeStages
<1>2. ASSUME NEW j \in 1..MaxCalls PROVE CallAgrees(call[j], told[j])'
  <2>1. call'[j] = (IF j = i THEN c ELSE call[j]) /\ told'[j] = IF j = i THEN t ELSE told[j]
    BY DEF AgentTypes
  <2>2. CallAgrees(call'[j], told'[j])
    BY <2>1
  <2> QED BY <2>2 DEF CallAgrees, NeedsVerification
<1>3. NodeAgrees'
  <2>1. \A j \in 1..MaxCalls : node.tries < j => call'[j].at = "none"
    BY DEF NodeAgrees, AgentTypes
  <2>2. CASE node' = node
    <3>1. node.at = "done" => node.tries # i
      BY AnswersDiffer DEF NodeAgrees, CallAgrees
    <3> QED BY <2>1, <2>2, <3>1 DEF NodeAgrees, AgentTypes
  <2>3. CASE node' = Refused
    <3>1. node'.at # "done"
      BY <2>3 DEF Refused, AgentTypes
    <3> QED BY <1>1, <2>1, <3>1 DEF NodeAgrees
  <2>4. CASE Awaits(i) /\ node' = [node EXCEPT !.at = "done", !.output = i] /\ t \in {<<"accepted">>, <<"unverified">>}
    <3>1. node.tries = i /\ node'.output = i /\ told'[i] = t
      BY <2>4 DEF Awaits, AgentTypes
    <3> QED BY <1>1, <2>1, <2>4, <3>1 DEF NodeAgrees
  <2> QED BY <2>2, <2>3, <2>4
<1> QED BY <1>1, <1>2, <1>3

\* A call that ends so, with its answer thrown or taken.
LEMMA EndingKeeps ==
    ASSUME AgentInv, NEW i \in 1..MaxCalls, NEW statuses, call[i].at \in {"producing", "verifying"},
           Ends(i, statuses), Tells(statuses) \in Answers \ {<<>>},
           Tells(statuses) = <<"accepted">> => call[i].at = "verifying",
           Tells(statuses) = <<"unverified">> => ~NeedsVerification,
           \/ node' = Thrown(i)
           \/ node' = Resolved(i) /\ Tells(statuses) \in {<<"accepted">>, <<"unverified">>}
    PROVE  AgentInv'
<1>1. PICK t \in Answers \ {<<>>} : t = Tells(statuses)
  OBVIOUS
<1>2. PICK c : c = [call[i] EXCEPT !.at = "over"]
  OBVIOUS
<1>3. /\ call' = [call EXCEPT ![i] = c] /\ told' = [told EXCEPT ![i] = t] /\ UNCHANGED <<team, ask>>
  BY <1>1, <1>2 DEF Ends, AgentInv, AgentTypes
<1>4. c \in [at : CallStages, producer : Nat, verifier : Nat, left : Int]
  BY <1>2 DEF AgentInv, AgentTypes, CallStages
<1>5. CallAgrees(c, t)
  <2>1. c.at = "over" /\ c.producer = call[i].producer /\ c.verifier = call[i].verifier
    BY <1>2 DEF AgentInv, AgentTypes
  <2>2. CallAgrees(call[i], told[i])
    BY DEF AgentInv
  <2> QED BY <1>1, <2>1, <2>2 DEF CallAgrees
<1>6. i <= node.tries
  BY DEF AgentInv, AgentTypes, NodeAgrees
<1>7. \/ node' \in {node, Refused}
      \/ Awaits(i) /\ node' = [node EXCEPT !.at = "done", !.output = i] /\ t \in {<<"accepted">>, <<"unverified">>}
  BY <1>1 DEF Thrown, Resolved
<1> QED BY <1>3, <1>4, <1>5, <1>6, <1>7, CallKeeps

LEMMA ProducedKeeps == ASSUME AgentInv, NEW i \in 1..MaxCalls, Produced(i) PROVE AgentInv'
<1> DEFINE verifier == Verifier(call[i].producer)
<1>1. call[i].at = "producing"
  BY DEF Produced
<1>2. CASE ~NeedsVerification
  <2>1. Ends(i, <<"unverified">>) /\ node' = Resolved(i)
    BY <1>2 DEF Produced
  <2> QED BY <1>1, <1>2, <2>1, AnswersDiffer, EndingKeeps DEF Answers
<1>3. CASE NeedsVerification /\ verifier = 0
  <2>1. Ends(i, <<"rejected", "failed">>) /\ node' = Thrown(i)
    BY <1>3 DEF Produced
  <2> QED BY <1>1, <2>1, AnswersDiffer, EndingKeeps DEF Answers
<1>4. CASE NeedsVerification /\ verifier # 0
  <2>1. call' = [call EXCEPT ![i].at = "verifying", ![i].verifier = verifier, ![i].left = AgentLimit]
        /\ UNCHANGED <<team, ask, node, told>>
    BY <1>4 DEF Produced
  <2>2. verifier \in team.verifiers \ {call[i].producer} /\ verifier \in Nat
        /\ (ask.requireLocal => verifier \in team.local \cup {0})
    <3>1. team.verifiers \ {call[i].producer} \subseteq Agents /\ Agents \subseteq Nat
      BY AgentAssumption DEF AgentInv, AgentTypes
    <3> QED BY <1>4, <3>1, RoutedIsFit DEF Verifier, AgentInv
  <2>3. PICK v : v = verifier
    OBVIOUS
  <2> HIDE DEF verifier
  <2>4. PICK c : c = [at |-> "verifying", producer |-> call[i].producer, verifier |-> v, left |-> AgentLimit]
    OBVIOUS
  <2>5. call' = [call EXCEPT ![i] = c]
    <3>1. PICK d : d = call[i]
      OBVIOUS
    <3>2. d \in [at : CallStages, producer : Nat, verifier : Nat, left : Int]
      BY <3>1 DEF AgentInv, AgentTypes
    <3>3. PICK u : u = [d EXCEPT !.at = "verifying", !.verifier = v, !.left = AgentLimit]
      OBVIOUS
    <3>4. DOMAIN u = DOMAIN d /\ u.at = "verifying" /\ u.producer = d.producer /\ u.verifier = v /\ u.left = AgentLimit
      BY <3>2, <3>3
    <3>5. u = c
      BY <2>4, <3>1, <3>2, <3>3, <3>4
    <3>6. call' = [call EXCEPT ![i] = u]
      BY <2>1, <2>3, <3>1, <3>3 DEF AgentInv, AgentTypes
    <3> QED BY <3>5, <3>6
  <2>6. c \in [at : CallStages, producer : Nat, verifier : Nat, left : Int]
    BY <2>2, <2>3, <2>4, AgentAssumption DEF AgentInv, AgentTypes, CallStages
  <2>7. told' = [told EXCEPT ![i] = <<>>] /\ <<>> \in Answers
    <3>1. told[i] = <<>> /\ told \in [1..MaxCalls -> Answers]
      BY <1>1 DEF AgentInv, AgentTypes, CallAgrees
    <3> QED BY <2>1, <3>1 DEF Answers
  <2>8. CallAgrees(c, <<>>)
    <3>1. c.at = "verifying" /\ c.producer = call[i].producer /\ c.verifier = v
      BY <2>4
    <3>2. ask.requireLocal => call[i].producer \in team.local \cup {0}
      BY DEF AgentInv, CallAgrees
    <3> QED BY <2>2, <2>3, <3>1, <3>2, AnswersDiffer DEF CallAgrees
  <2>9. i <= node.tries
    BY <1>1 DEF AgentInv, AgentTypes, NodeAgrees
  <2> QED BY <1>1, <2>1, <2>5, <2>6, <2>7, <2>8, <2>9, CallKeeps
<1> QED BY <1>2, <1>3, <1>4

LEMMA AgentFailingKeeps == ASSUME AgentInv, NEW i \in 1..MaxCalls, AgentFails(i) PROVE AgentInv'
<1>1. call[i].at \in {"producing", "verifying"} /\ Ends(i, <<"failed">>) /\ node' = Thrown(i)
  BY DEF AgentFails
<1> QED BY <1>1, AnswersDiffer, EndingKeeps DEF Answers

LEMMA JudgedKeeps == ASSUME AgentInv, NEW i \in 1..MaxCalls, NEW ok \in BOOLEAN, Judged(i, ok) PROVE AgentInv'
<1>1. call[i].at = "verifying"
  BY DEF Judged
<1>2. CASE ok
  <2>1. Ends(i, <<"accepted">>) /\ node' = Resolved(i)
    BY <1>2 DEF Judged
  <2> QED BY <1>1, <2>1, AnswersDiffer, EndingKeeps DEF Answers
<1>3. CASE ~ok
  <2>1. Ends(i, <<"rejected", "failed">>) /\ node' = Thrown(i)
    BY <1>3 DEF Judged
  <2> QED BY <1>1, <2>1, AnswersDiffer, EndingKeeps DEF Answers
<1> QED BY <1>2, <1>3

\* A call begins, or is over at once where no agent has what it asks for.
LEMMA CallingKeeps == ASSUME AgentInv, Call PROVE AgentInv'
<1>1. PICK i \in 1..MaxCalls : i = node.tries + 1 /\ node.at = "ready"
  BY AgentAssumption DEF Call, AgentInv, AgentTypes
<1>2. PICK producer : producer = Routed(team.able)
  OBVIOUS
<1>3. producer \in Nat /\ (ask.requireLocal => producer \in team.local \cup {0})
  <2>1. team.able \subseteq Agents /\ Agents \subseteq Nat
    BY AgentAssumption DEF AgentInv, AgentTypes
  <2>2. AgentTypes /\ team.able \in SUBSET Agents
    BY <2>1 DEF AgentInv
  <2>3. Routed(team.able) \in team.able \cup {0} /\ (ask.requireLocal => Routed(team.able) \in team.local \cup {0})
    BY <2>2, RoutedIsFit, Zenon
  <2>4. \A a \in team.able \cup {0} : a \in Nat
    <3>1. \A a \in team.able : a \in Nat
      BY <2>1
    <3>2. 0 \in Nat
      OBVIOUS
    <3> QED BY <3>1, <3>2, Zenon
  <2>5. producer \in Nat
    BY <1>2, <2>3, <2>4, Zenon
  <2> QED BY <1>2, <2>3, <2>5, Zenon
<1>4. call[i] \in [at : CallStages, producer : Nat, verifier : Nat, left : Int]
      /\ call[i].at = "none" /\ told[i] = <<>> /\ UNCHANGED <<team, ask>>
  <2>1. node.tries < i
    BY <1>1 DEF AgentInv, AgentTypes
  <2> QED BY <2>1 DEF AgentInv, AgentTypes, CallAgrees, NodeAgrees, Call
<1>5. \E c \in [at : CallStages, producer : Nat, verifier : Nat, left : Int], t \in Answers :
        call' = [call EXCEPT ![i] = c] /\ told' = [told EXCEPT ![i] = t] /\ CallAgrees(c, t)
  <2>1. CASE producer = 0
    <3>1. call' = [call EXCEPT ![i].at = "over"] /\ told' = [told EXCEPT ![i] = <<"failed">>]
      BY <1>1, <1>2, <2>1, AnswersDiffer DEF Call
    <3>2. PICK c : c = [call[i] EXCEPT !.at = "over"]
      OBVIOUS
    <3>3. call' = [call EXCEPT ![i] = c]
      BY <3>1, <3>2 DEF AgentInv, AgentTypes
    <3>4. c \in [at : CallStages, producer : Nat, verifier : Nat, left : Int] /\ c.at = "over"
          /\ c.producer = call[i].producer /\ c.verifier = call[i].verifier
      BY <1>4, <3>2 DEF CallStages
    <3>5. CallAgrees(c, <<"failed">>)
      <4>1. CallAgrees(call[i], told[i])
        BY DEF AgentInv
      <4> QED BY <3>4, <4>1, AnswersDiffer DEF CallAgrees
    <3> QED BY <3>1, <3>3, <3>4, <3>5 DEF Answers
  <2>2. CASE producer # 0
    <3>1. PICK c : c = [at |-> "producing", producer |-> producer, verifier |-> 0, left |-> AgentLimit]
      OBVIOUS
    <3>2. call' = [call EXCEPT ![i] = [NoCall EXCEPT !.at = "producing", !.producer = producer, !.left = AgentLimit]]
          /\ told' = told
      BY <1>1, <1>2, <2>2 DEF Call
    <3>3. [NoCall EXCEPT !.at = "producing", !.producer = producer, !.left = AgentLimit] = c
      <4>1. PICK u : u = [NoCall EXCEPT !.at = "producing", !.producer = producer, !.left = AgentLimit]
        OBVIOUS
      <4>2. DOMAIN u = DOMAIN NoCall /\ u.at = "producing" /\ u.producer = producer /\ u.verifier = 0
            /\ u.left = AgentLimit
        BY <4>1 DEF NoCall
      <4>3. u = c
        BY <3>1, <4>1, <4>2 DEF NoCall
      <4> QED BY <4>1, <4>3
    <3>4. told' = [told EXCEPT ![i] = <<>>]
      BY <1>4, <3>2 DEF AgentInv, AgentTypes
    <3>5. CallAgrees(c, <<>>)
      BY <1>3, <3>1, AnswersDiffer DEF CallAgrees
    <3>6. c \in [at : CallStages, producer : Nat, verifier : Nat, left : Int] /\ <<>> \in Answers
      BY <1>3, <3>1, AgentAssumption DEF CallStages, Answers
    <3> QED BY <3>2, <3>3, <3>4, <3>5, <3>6
  <2> QED BY <2>1, <2>2
<1>6. node' \in [at : NodeStages \ {"done"}, tries : 0..MaxCalls, left : Int, output : 0..MaxCalls] /\ node'.tries = i
  <2>1. PICK begun : begun = [node EXCEPT !.at = "waiting", !.tries = i, !.left = NodeLimit]
    OBVIOUS
  <2>2. begun \in [at : NodeStages \ {"done"}, tries : 0..MaxCalls, left : Int, output : 0..MaxCalls] /\ begun.tries = i
    <3>1. DOMAIN begun = DOMAIN node /\ begun.at = "waiting" /\ begun.tries = i /\ begun.left = NodeLimit
          /\ begun.output = node.output
      BY <2>1 DEF AgentInv, AgentTypes
    <3>2. begun = [at |-> "waiting", tries |-> i, left |-> NodeLimit, output |-> node.output]
      BY <2>1, <3>1 DEF AgentInv, AgentTypes
    <3> QED BY <3>2, AgentAssumption DEF AgentInv, AgentTypes, NodeStages
  <2>3. node' = begun \/ node' = [begun EXCEPT !.at = IF i < MaxCalls THEN "ready" ELSE "failed"]
    BY <1>1, <2>1 DEF Call
  <2> QED BY <2>2, <2>3 DEF NodeStages
<1>7. PICK c \in [at : CallStages, producer : Nat, verifier : Nat, left : Int], t \in Answers :
        call' = [call EXCEPT ![i] = c] /\ told' = [told EXCEPT ![i] = t] /\ CallAgrees(c, t)
  BY <1>5
<1>8. AgentTypes'
  BY <1>4, <1>6, <1>7 DEF AgentInv, AgentTypes, NodeStages
<1>9. ASSUME NEW j \in 1..MaxCalls PROVE CallAgrees(call[j], told[j])'
  <2>1. call'[j] = (IF j = i THEN c ELSE call[j]) /\ told'[j] = IF j = i THEN t ELSE told[j]
    BY <1>7 DEF AgentInv, AgentTypes
  <2>2. CallAgrees(call'[j], told'[j])
    BY <1>7, <2>1 DEF AgentInv
  <2> QED BY <1>4, <2>2 DEF CallAgrees, NeedsVerification
<1>10. NodeAgrees'
  <2>1. \A j \in 1..MaxCalls : i < j => j # i /\ node.tries < j
    BY <1>1 DEF AgentInv, AgentTypes
  <2>2. \A j \in 1..MaxCalls : i < j => call'[j].at = "none"
    BY <1>7, <2>1 DEF AgentInv, AgentTypes, NodeAgrees
  <2> QED BY <1>6, <2>2 DEF NodeAgrees
<1> QED BY <1>8, <1>9, <1>10 DEF AgentInv

LEMMA TimingOutKeeps == ASSUME AgentInv, NodeTimesOut PROVE AgentInv'
<1>1. node' = Refused /\ UNCHANGED <<team, ask, call, told>>
  BY DEF NodeTimesOut
<1>2. AgentTypes' /\ node'.tries = node.tries /\ node'.at # "done"
  BY <1>1 DEF AgentInv, AgentTypes, Refused, NodeStages
<1>3. \A i \in 1..MaxCalls : CallAgrees(call[i], told[i])'
  BY <1>1 DEF AgentInv, CallAgrees, NeedsVerification
<1>4. NodeAgrees'
  BY <1>1, <1>2 DEF AgentInv, NodeAgrees
<1> QED BY <1>2, <1>3, <1>4 DEF AgentInv

LEMMA TickKeeps == ASSUME AgentInv, AgentTick PROVE AgentInv'
<1>1. PICK working \in SUBSET (1..MaxCalls) :
        call' = [i \in 1..MaxCalls |-> IF i \in working THEN [call[i] EXCEPT !.left = @ - 1] ELSE call[i]]
  BY DEF AgentTick
<1>2. (node' = node \/ node' = [node EXCEPT !.left = @ - 1]) /\ UNCHANGED <<team, ask, told>>
  BY DEF AgentTick
<1>3. node' \in [at : NodeStages, tries : 0..MaxCalls, left : Int, output : 0..MaxCalls]
      /\ node'.at = node.at /\ node'.tries = node.tries /\ node'.output = node.output
  BY <1>2 DEF AgentInv, AgentTypes
<1>4. ASSUME NEW i \in 1..MaxCalls
      PROVE  call'[i] \in [at : CallStages, producer : Nat, verifier : Nat, left : Int]
             /\ call'[i].at = call[i].at /\ call'[i].producer = call[i].producer /\ call'[i].verifier = call[i].verifier
  <2>1. call[i] \in [at : CallStages, producer : Nat, verifier : Nat, left : Int]
    BY DEF AgentInv, AgentTypes
  <2>2. call'[i] = call[i] \/ call'[i] = [call[i] EXCEPT !.left = @ - 1]
    BY <1>1
  <2> QED BY <2>1, <2>2
<1>5. AgentTypes'
  BY <1>1, <1>2, <1>3, <1>4 DEF AgentInv, AgentTypes
<1>6. \A i \in 1..MaxCalls : CallAgrees(call[i], told[i])'
  BY <1>2, <1>4 DEF AgentInv, CallAgrees, NeedsVerification
<1>7. NodeAgrees'
  BY <1>2, <1>3, <1>4 DEF AgentInv, NodeAgrees
<1> QED BY <1>5, <1>6, <1>7 DEF AgentInv

LEMMA AgentsKeep == AgentInv /\ [AgentNext]_agentVars => AgentInv'
<1> SUFFICES ASSUME AgentInv, [AgentNext]_agentVars PROVE AgentInv'
  OBVIOUS
<1>1. CASE UNCHANGED agentVars
  BY <1>1 DEF agentVars, AgentInv, AgentTypes, CallAgrees, NodeAgrees, NeedsVerification
<1> QED
  BY <1>1, CallingKeeps, TimingOutKeeps, TickKeeps, ProducedKeeps, AgentFailingKeeps, JudgedKeeps DEF AgentNext

\* What a node takes is the answer to its last call, accepted by another agent
\* where that is due, of agents of the machine where that is required; and each
\* call is told once, whether its node waited or not (flow-agent-adapter.ts: run).
THEOREM AgentsHold == AgentInit /\ [][AgentNext]_agentVars => [](TakenIsVerified /\ ToldOnce)
<1>1. AgentInv => TakenIsVerified
  <2> SUFFICES ASSUME AgentInv PROVE TakenIsVerified
    OBVIOUS
  <2>1. \A i \in 1..MaxCalls : CallAgrees(call[i], told[i])
    BY DEF AgentInv
  <2>2. node.at = "done" => node.output = node.tries /\ node.tries \in 1..MaxCalls
                             /\ told[node.tries] \in {<<"accepted">>, <<"unverified">>}
    BY DEF AgentInv, NodeAgrees
  <2> QED BY <2>1, <2>2 DEF CallAgrees, TakenIsVerified
<1>2. AgentInv => ToldOnce
  <2> SUFFICES ASSUME AgentInv, NEW i \in 1..MaxCalls
               PROVE  Len(told[i]) = IF call[i].at = "over" THEN 1 ELSE 0
    BY DEF ToldOnce
  <2>1. told[i] \in Answers /\ CallAgrees(call[i], told[i])
    BY DEF AgentInv, AgentTypes
  <2>2. \A t \in Answers : Len(t) = IF t = <<>> THEN 0 ELSE 1
    BY AnswersDiffer DEF Answers
  <2> QED BY <2>1, <2>2 DEF CallAgrees
<1> QED BY <1>1, <1>2, AgentsStart, AgentsKeep, PTL

-----------------------------------------------------------------------------
(* The swarm of a work graph *)

LEMMA LoadIsNumber ==
    ASSUME NEW R, NEW tasks \in Seq(R), NEW a
    PROVE  Load(tasks, a) \in Nat /\ ((\E i \in DOMAIN tasks : tasks[i] = a) => Load(tasks, a) > 0)
<1> DEFINE S == {i \in DOMAIN tasks : tasks[i] = a}
<1>1. IsFiniteSet(S)
  <2>1. PICK m \in Int : DOMAIN tasks = 1..m
    OBVIOUS
  <2>2. IsFiniteSet(1..m) /\ IsFiniteSet(DOMAIN tasks)
    BY <2>1, 1 \in Int, FS_Interval, Zenon
  <2> QED BY <2>2, FS_Subset
<1>2. Load(tasks, a) = Cardinality(S)
  BY DEF Load
<1>3. Cardinality(S) \in Nat /\ (S # {} => Cardinality(S) # 0)
  <2> HIDE DEF S
  <2> QED BY <1>1, FS_CardinalityType, FS_EmptySet
<1> QED BY <1>2, <1>3

\* Of any agents there is one that has no more to do than the others.
LEMMA LeastLoadedIsIn ==
    ASSUME NEW R, NEW tasks \in Seq(R), NEW pool, pool \subseteq Nat, pool # {}
    PROVE  LeastLoaded(tasks, pool) \in pool
<1> DEFINE T == {Load(tasks, a) : a \in pool}
<1>1. \A a \in pool : Load(tasks, a) \in Nat
  BY LoadIsNumber
<1>2. PICK m \in T : \A l \in T : m <= l
  <2>1. T \subseteq Nat /\ T # {}
    BY <1>1
  <2> HIDE DEF T
  <2> QED BY <2>1, FirstExists
<1> DEFINE U == {a \in pool : Load(tasks, a) = m}
<1>3. PICK a \in U : \A b \in U : a <= b
  <2>1. U \subseteq Nat /\ U # {}
    BY <1>2
  <2> HIDE DEF U
  <2> QED BY <2>1, FirstExists
<1>4. \A b \in pool : Load(tasks, a) < Load(tasks, b) \/ (Load(tasks, a) = Load(tasks, b) /\ a <= b)
  <2> SUFFICES ASSUME NEW b \in pool
               PROVE  Load(tasks, a) < Load(tasks, b) \/ (Load(tasks, a) = Load(tasks, b) /\ a <= b)
    OBVIOUS
  <2>1. Load(tasks, a) = m /\ m <= Load(tasks, b) /\ m \in Nat /\ Load(tasks, b) \in Nat
    BY <1>1, <1>2, <1>3
  <2>2. Load(tasks, b) = m => a <= b
    BY <1>3
  <2> QED BY <2>1, <2>2
<1>5. \E c \in pool : \A b \in pool : Load(tasks, c) < Load(tasks, b) \/ (Load(tasks, c) = Load(tasks, b) /\ c <= b)
  BY <1>3, <1>4
<1> QED BY <1>5 DEF LeastLoaded

LEMMA AppendIs ==
    ASSUME NEW R, NEW s \in Seq(R), NEW e \in R
    PROVE  /\ Append(s, e) \in Seq(R) /\ Len(Append(s, e)) = Len(s) + 1
           /\ Append(s, e)[Len(s) + 1] = e /\ \A i \in 1..Len(s) : Append(s, e)[i] = s[i]
OBVIOUS

\* The agents made for the first k nodes: each has one of them, and a node has
\* an agent of its role unless there is none and no room for one.
StaffedFor(swarm, k) ==
    /\ swarm \in [roles : Seq({Roles[i] : i \in DOMAIN Roles}), given : Seq(Nat)]
    /\ Len(swarm.given) = k /\ Len(swarm.roles) <= workers
    /\ \A i \in 1..k : swarm.given[i] \in 1..Len(swarm.roles)
    /\ \A a \in 1..Len(swarm.roles) : \E i \in 1..k : swarm.given[i] = a
    /\ \A i \in 1..k :
         \/ swarm.roles[swarm.given[i]] = Roles[i]
         \/ Len(swarm.roles) = workers /\ \A j \in 1..i : swarm.roles[swarm.given[j]] # Roles[i]

LEMMA StaffingKeeps ==
    ASSUME workers \in Nat \ {0}, NEW k \in Nat \ {0}, k \in DOMAIN Roles, NEW swarm, StaffedFor(swarm, k - 1)
    PROVE  StaffedFor(Staffed(swarm, Roles[k]), k)
<1>1. PICK R : R = {Roles[i] : i \in DOMAIN Roles}
  OBVIOUS
<1>2. PICK role \in R : role = Roles[k]
  BY <1>1
<1>3. PICK roles \in Seq(R), tasks \in Seq(Nat) :
        swarm = [roles |-> roles, given |-> tasks] /\ swarm.roles = roles /\ swarm.given = tasks
  BY <1>1 DEF StaffedFor
<1>4. PICK L \in Nat : L = Len(roles) /\ L <= workers /\ Len(tasks) = k - 1 /\ DOMAIN roles = 1..L
  BY <1>3 DEF StaffedFor
<1>5. PICK pool \in SUBSET (1..L) : pool = {a \in DOMAIN roles : roles[a] = role}
  BY <1>4
<1>6. /\ \A i \in 1..(k - 1) : tasks[i] \in 1..L
      /\ \A a \in 1..L : \E i \in 1..(k - 1) : tasks[i] = a
      /\ \A i \in 1..(k - 1) :
           roles[tasks[i]] = Roles[i] \/ (L = workers /\ \A j \in 1..i : roles[tasks[j]] # Roles[i])
  BY <1>3, <1>4 DEF StaffedFor
<1>7. PICK busy \in BOOLEAN : busy <=> (pool = {} \/ Load(tasks, LeastLoaded(tasks, pool)) > 0)
  OBVIOUS
<1>8. Staffed(swarm, role) =
        IF busy /\ L < workers
        THEN [roles |-> Append(roles, role), given |-> Append(tasks, L + 1)]
        ELSE [swarm EXCEPT !.given = Append(@, LeastLoaded(@, IF pool = {} THEN DOMAIN roles ELSE pool))]
  BY <1>3, <1>4, <1>5, <1>7 DEF Staffed
<1>9. CASE busy /\ L < workers
  <2>1. PICK newRoles \in Seq(R) : newRoles = Append(roles, role)
    BY AppendIs, Zenon
  <2>2. PICK newGiven \in Seq(Nat) : newGiven = Append(tasks, L + 1)
    <3>1. L + 1 \in Nat
      OBVIOUS
    <3> QED BY <3>1, AppendIs, Zenon
  <2>3. Len(newRoles) = L + 1 /\ Len(newGiven) = k
        /\ (\A a \in 1..L : newRoles[a] = roles[a]) /\ newRoles[L + 1] = role
        /\ (\A i \in 1..(k - 1) : newGiven[i] = tasks[i]) /\ newGiven[k] = L + 1
    BY <1>4, <2>1, <2>2
  <2>4. \A i \in 1..k : i \in 1..(k - 1) \/ i = k
    OBVIOUS
  <2>5. \A i \in 1..k : newGiven[i] \in 1..(L + 1) /\ newRoles[newGiven[i]] = Roles[i]
    <3> SUFFICES ASSUME NEW i \in 1..k PROVE newGiven[i] \in 1..(L + 1) /\ newRoles[newGiven[i]] = Roles[i]
      OBVIOUS
    <3>1. CASE i = k
      BY <1>2, <2>3, <3>1
    <3>2. CASE i \in 1..(k - 1)
      <4>1. tasks[i] \in 1..L /\ roles[tasks[i]] = Roles[i]
        BY <1>6, <1>9, <3>2
      <4> QED BY <2>3, <3>2, <4>1
    <3> QED BY <2>4, <3>1, <3>2
  <2>6. \A a \in 1..(L + 1) : \E i \in 1..k : newGiven[i] = a
    <3> SUFFICES ASSUME NEW a \in 1..(L + 1) PROVE \E i \in 1..k : newGiven[i] = a
      OBVIOUS
    <3>1. CASE a = L + 1
      BY <2>3, <3>1
    <3>2. CASE a # L + 1
      <4>1. PICK i \in 1..(k - 1) : tasks[i] = a
        BY <1>6, <3>2
      <4> QED BY <2>3, <4>1
    <3> QED BY <3>1, <3>2
  <2>7. PICK new : new = [roles |-> newRoles, given |-> newGiven]
    OBVIOUS
  <2>8. new.roles = newRoles /\ new.given = newGiven /\ new = Staffed(swarm, Roles[k])
        /\ new \in [roles : Seq(R), given : Seq(Nat)]
    BY <1>2, <1>8, <1>9, <2>1, <2>2, <2>7
  <2>9. StaffedFor(new, k)
    <3>1. Len(new.roles) = L + 1 /\ L + 1 <= workers /\ Len(new.given) = k
      BY <1>9, <2>3, <2>8
    <3>2. \A i \in 1..k : new.given[i] \in 1..(L + 1) /\ new.roles[new.given[i]] = Roles[i]
      BY <2>5, <2>8
    <3>3. \A a \in 1..(L + 1) : \E i \in 1..k : new.given[i] = a
      BY <2>6, <2>8
    <3>4. new \in [roles : Seq({Roles[i] : i \in DOMAIN Roles}), given : Seq(Nat)]
      BY <1>1, <2>8
    <3> QED BY ONLY <3>1, <3>2, <3>3, <3>4 DEF StaffedFor
  <2> QED BY <2>8, <2>9
<1>10. CASE ~(busy /\ L < workers)
  <2>1. PICK choice \in SUBSET (1..L) : choice = IF pool = {} THEN DOMAIN roles ELSE pool
    BY <1>4
  <2>2. pool = {} => L = workers
    <3>1. pool = {} => busy
      BY <1>7, Zenon
    <3> QED BY <1>4, <1>10, <3>1
  <2>3. choice # {} /\ choice \subseteq Nat
    <3>1. pool = {} => 1 \in choice
      BY <1>4, <2>1, <2>2
    <3>2. pool # {} => choice = pool
      BY <2>1
    <3> QED BY <3>1, <3>2
  <2>4. PICK a \in choice : a = LeastLoaded(tasks, choice)
    BY <2>3, LeastLoadedIsIn
  <2>5. PICK newGiven \in Seq(Nat) : newGiven = Append(tasks, a)
    <3>1. a \in Nat
      BY <2>3
    <3> QED BY <3>1, AppendIs, Zenon
  <2>6. Len(newGiven) = k /\ (\A i \in 1..(k - 1) : newGiven[i] = tasks[i]) /\ newGiven[k] = a
    BY <1>4, <2>5
  <2>7. PICK new : new = [roles |-> roles, given |-> newGiven]
    OBVIOUS
  <2>8. new.roles = roles /\ new.given = newGiven /\ new \in [roles : Seq(R), given : Seq(Nat)]
    BY <2>7
  <2>9. new = Staffed(swarm, Roles[k])
    <3>1. Staffed(swarm, role) = [swarm EXCEPT !.given = Append(@, LeastLoaded(@, choice))]
      BY <1>8, <1>10, <2>1
    <3>2. [swarm EXCEPT !.given = Append(@, LeastLoaded(@, choice))] = [swarm EXCEPT !.given = newGiven]
      BY <1>3, <2>4, <2>5
    <3>3. [swarm EXCEPT !.given = newGiven] = new
      BY <1>3, <2>7
    <3> QED BY <1>2, <3>1, <3>2, <3>3
  <2>10. \A i \in 1..k : i \in 1..(k - 1) \/ i = k
    OBVIOUS
  <2>11. \A i \in 1..k : newGiven[i] \in 1..L
    BY <1>6, <2>6, <2>10
  <2>12. \A b \in 1..L : \E i \in 1..k : newGiven[i] = b
    <3> SUFFICES ASSUME NEW b \in 1..L PROVE \E i \in 1..k : newGiven[i] = b
      OBVIOUS
    <3>1. PICK i \in 1..(k - 1) : tasks[i] = b
      BY <1>6
    <3> QED BY <2>6, <3>1
  <2>13. ASSUME NEW i \in 1..k
         PROVE  roles[newGiven[i]] = Roles[i] \/ (L = workers /\ \A j \in 1..i : roles[newGiven[j]] # Roles[i])
    <3>1. CASE i \in 1..(k - 1)
      <4>1. \A j \in 1..i : j \in 1..(k - 1)
        BY <3>1
      <4>2. roles[tasks[i]] = Roles[i] \/ (L = workers /\ \A j \in 1..i : roles[tasks[j]] # Roles[i])
        BY <1>6, <3>1
      <4>3. newGiven[i] = tasks[i] /\ \A j \in 1..i : newGiven[j] = tasks[j]
        BY <2>6, <3>1, <4>1
      <4> QED BY <4>2, <4>3
    <3>2. CASE i = k /\ pool # {}
      BY <1>2, <1>5, <2>1, <2>4, <2>6, <3>2
    <3>3. CASE i = k /\ pool = {}
      <4>1. \A b \in 1..L : roles[b] # role
        BY <1>4, <1>5, <3>3
      <4> QED BY <1>2, <2>2, <2>11, <3>3, <4>1
    <3> QED BY <2>10, <3>1, <3>2, <3>3
  <2>14. StaffedFor(new, k)
    BY <1>1, <1>4, <2>6, <2>8, <2>11, <2>12, <2>13 DEF StaffedFor
  <2> QED BY <2>9, <2>14
<1> QED BY <1>9, <1>10

LEMMA StaffingExists ==
    ASSUME NEW n \in Nat
    PROVE  \E f : f = [k \in 0..n |-> IF k = 0 THEN [roles |-> <<>>, given |-> <<>>] ELSE Staffed(f[k - 1], Roles[k])]
<1>1. PICK first : first = [roles |-> <<>>, given |-> <<>>]
  OBVIOUS
<1> DEFINE T == {m \in Nat : \E f : f = [k \in 0..m |-> IF k = 0 THEN first ELSE Staffed(f[k - 1], Roles[k])]}
<1>2. 0 \in T
  <2> DEFINE f == [k \in 0..0 |-> first]
  <2>1. f = [k \in 0..0 |-> IF k = 0 THEN first ELSE Staffed(f[k - 1], Roles[k])]
    OBVIOUS
  <2> HIDE DEF f
  <2> QED BY <2>1
<1>3. ASSUME NEW m \in 1..n, m - 1 \in T PROVE m \in T
  <2>1. PICK f : f = [k \in 0..(m - 1) |-> IF k = 0 THEN first ELSE Staffed(f[k - 1], Roles[k])]
    BY <1>3
  <2> DEFINE g == [k \in 0..m |-> IF k = m THEN Staffed(f[m - 1], Roles[m]) ELSE f[k]]
  <2>2. ASSUME NEW k \in 0..m
        PROVE  g[k] = IF k = 0 THEN first ELSE Staffed(g[k - 1], Roles[k])
    <3>1. CASE k = m
      <4>1. k - 1 \in 0..m /\ k - 1 # m /\ k # 0
        BY <3>1
      <4> QED BY <3>1, <4>1
    <3>2. CASE k # m
      <4>1. k \in 0..(m - 1) /\ g[k] = f[k]
        BY <3>2
      <4>2. f[k] = IF k = 0 THEN first ELSE Staffed(f[k - 1], Roles[k])
        BY <2>1, <4>1
      <4>3. CASE k = 0
        BY <4>1, <4>2, <4>3
      <4>4. CASE k # 0
        <5>1. k - 1 \in 0..m /\ k - 1 # m
          BY <4>4, <4>1
        <5>2. g[k - 1] = f[k - 1]
          BY <5>1
        <5> QED BY <4>1, <4>2, <4>4, <5>2
      <4> QED BY <4>3, <4>4
    <3> QED BY <3>1, <3>2
  <2>3. g = [k \in 0..m |-> g[k]]
    OBVIOUS
  <2> HIDE DEF g
  <2>4. g = [k \in 0..m |-> IF k = 0 THEN first ELSE Staffed(g[k - 1], Roles[k])]
    BY <2>2, <2>3
  <2> QED BY <2>4
<1>4. 0..n \subseteq T
  <2> HIDE DEF T
  <2> QED BY <1>2, <1>3, UpTo
<1>5. n \in T
  BY <1>4
<1> QED BY <1>1, <1>5

\* A swarm is staffed as its roles allow, whatever the nodes and the agents.
LEMMA StaffingIsFair ==
    ASSUME workers \in Nat \ {0}, IsFiniteSet(Compiled)
    PROVE  SwarmIsStaffed
<1>1. PICK n \in Nat : n = Cardinality(Compiled)
  BY FS_CardinalityType
<1> DEFINE Is(f) == f = [k \in 0..n |-> IF k = 0 THEN [roles |-> <<>>, given |-> <<>>] ELSE Staffed(f[k - 1], Roles[k])]
           after == CHOOSE f : Is(f)
<1>2. Is(after)
  BY StaffingExists
<1>3. Swarm = after[n]
  BY <1>1 DEF Swarm
<1>4. DOMAIN Roles = 1..n
  BY <1>1 DEF Roles
<1> HIDE DEF after
<1> DEFINE T == {k \in 0..n : StaffedFor(after[k], k)}
<1>5. 0 \in T
  <2>1. PICK first : first = [roles |-> <<>>, given |-> <<>>]
    OBVIOUS
  <2>2. after[0] = first /\ 0 \in 0..n
    BY <1>2, <2>1
  <2>3. first.roles = <<>> /\ first.given = <<>> /\ first \in [roles : Seq({Roles[i] : i \in DOMAIN Roles}), given : Seq(Nat)]
    BY <2>1
  <2>4. StaffedFor(first, 0)
    BY <2>3 DEF StaffedFor
  <2> QED BY <2>2, <2>4
<1>6. ASSUME NEW k \in 1..n, k - 1 \in T PROVE k \in T
  <2>1. k \in 0..n /\ k # 0 /\ k \in Nat /\ k \in DOMAIN Roles
    BY <1>4
  <2>2. after[k] = Staffed(after[k - 1], Roles[k])
    BY <1>2, <2>1
  <2>3. StaffedFor(after[k - 1], k - 1)
    BY <1>6
  <2>4. StaffedFor(Staffed(after[k - 1], Roles[k]), k)
    BY <2>1, <2>3, StaffingKeeps
  <2> QED BY <2>1, <2>2, <2>4
<1>7. 0..n \subseteq T
  <2> HIDE DEF T
  <2> QED BY <1>5, <1>6, UpTo
<1>8. StaffedFor(Swarm, n)
  BY <1>3, <1>7
<1>9. DOMAIN Swarm.roles = 1..Len(Swarm.roles) /\ Swarm.given \in Seq(Nat) /\ DOMAIN Swarm.given = 1..n
  BY <1>8 DEF StaffedFor
<1>10. \A a \in DOMAIN Swarm.roles : Load(Swarm.given, a) > 0
  BY <1>8, <1>9, LoadIsNumber DEF StaffedFor
<1> QED BY <1>4, <1>8, <1>10 DEF StaffedFor, SwarmIsStaffed

\* The work of a swarm: what is at work is compiled, not finished, no more than
\* the swarm is wide, and nothing that it depends on is left.
SwarmInv ==
    /\ workers \in Nat \ {0}
    /\ \A e \in graph.edges : e.branch # "error" => e.from \in WorkNodes
    /\ ValidWorkflow(graph.edges, graph.disabled)
    /\ finished \subseteq Compiled /\ atWork \subseteq Compiled \ finished
    /\ Cardinality(atWork) <= Width
    /\ \A e \in graph.edges :
         e.branch # "error" /\ e.from \notin graph.disabled /\ e.to \in atWork => e.from \in finished

LEMMA WidthIsPositive == ASSUME SwarmInv PROVE Width \in Nat \ {0}
BY AgentAssumption DEF SwarmInv, Width

LEMMA ReadyIsFinite ==
    IsFiniteSet(Compiled) /\ Compiled \subseteq Nat
    /\ \A x \in Nat : IsFiniteSet({m \in ReadyWork : m <= x})
<1>1. IsFiniteSet(Compiled) /\ Compiled \subseteq Nat
  BY AgentAssumption, FS_Subset DEF Compiled
<1>2. ReadyWork \subseteq Compiled
  BY DEF ReadyWork
<1>3. ASSUME NEW x \in Nat PROVE IsFiniteSet({m \in ReadyWork : m <= x})
  <2>1. {m \in ReadyWork : m <= x} \subseteq Compiled
    BY <1>2
  <2> QED BY <1>1, <2>1, FS_Subset
<1> QED BY <1>1, <1>3

\* A batch fills the room that there is, and no more: its last node is in it.
LEMMA BatchFits ==
    ASSUME SwarmInv
    PROVE  IsFiniteSet(NextBatch) /\ Cardinality(NextBatch) + Cardinality(atWork) <= Width
<1> DEFINE Before(x) == {m \in ReadyWork : m <= x}
           T == {Cardinality(Before(x)) : x \in NextBatch}
<1>1. PICK room \in Nat : room = Width - Cardinality(atWork) /\ Cardinality(atWork) \in Nat
  <2>1. IsFiniteSet(atWork)
    BY ReadyIsFinite, FS_Subset DEF SwarmInv
  <2>2. Cardinality(atWork) \in Nat
    BY <2>1, FS_CardinalityType
  <2> QED BY <2>2, WidthIsPositive DEF SwarmInv
<1>2. NextBatch = {n \in ReadyWork : Cardinality(Before(n)) <= room}
  BY <1>1 DEF NextBatch
<1>3. ReadyWork \subseteq Nat /\ ReadyWork \subseteq Compiled
  BY ReadyIsFinite DEF ReadyWork
<1>4. \A x \in ReadyWork : IsFiniteSet(Before(x)) /\ Cardinality(Before(x)) \in Nat
  BY <1>3, ReadyIsFinite, FS_CardinalityType
<1>5. IsFiniteSet(NextBatch)
  <2>1. NextBatch \subseteq Compiled
    BY <1>2, <1>3
  <2> QED BY <2>1, ReadyIsFinite, FS_Subset
<1>6. CASE NextBatch = {}
  BY <1>1, <1>5, <1>6, FS_EmptySet, WidthIsPositive
<1>7. CASE NextBatch # {}
  <2>1. T \subseteq Nat /\ T # {} /\ \A k \in T : k <= room
    BY <1>2, <1>4, <1>7
  <2>2. PICK k \in T : \A l \in T : l <= k
    <3> HIDE DEF T
    <3> QED BY <2>1, LastExists
  <2>3. PICK x \in NextBatch : k = Cardinality(Before(x))
    OBVIOUS
  <2>4. ASSUME NEW y \in NextBatch PROVE y <= x
    <3> SUFFICES ASSUME x < y PROVE FALSE
      BY <1>2, <1>3
    <3>1. x \in ReadyWork /\ y \in ReadyWork /\ x \in Nat /\ y \in Nat
      BY <1>2, <1>3
    <3>2. Before(x) \subseteq Before(y) /\ y \in Before(y) /\ y \notin Before(x)
      <4>1. \A m \in ReadyWork : m \in Nat
        BY <1>3
      <4>2. \A m \in Nat : m <= x => m <= y
        BY <3>1
      <4>3. ~(y <= x) /\ y <= y
        BY <3>1
      <4> QED BY <3>1, <4>1, <4>2, <4>3
    <3>3. Cardinality(Before(x)) < Cardinality(Before(y))
      <4> HIDE DEF Before
      <4>1. Before(x) # Before(y)
        BY <3>2
      <4> QED BY <1>4, <3>1, <3>2, <4>1, FS_Subset
    <3>4. Cardinality(Before(y)) <= Cardinality(Before(x))
      BY <2>2, <2>3
    <3> QED BY <1>4, <3>1, <3>3, <3>4
  <2>5. NextBatch \subseteq Before(x) /\ x \in ReadyWork
    BY <1>2, <2>4
  <2>6. Cardinality(NextBatch) <= Cardinality(Before(x)) /\ Cardinality(NextBatch) \in Nat
    <3> HIDE DEF Before
    <3> QED BY <1>4, <1>5, <2>5, FS_Subset, FS_CardinalityType
  <2>7. Cardinality(Before(x)) <= room /\ Cardinality(Before(x)) \in Nat
    BY <1>2, <1>4, <2>5
  <2>8. Width \in Nat
    BY WidthIsPositive
  <2> HIDE DEF Before
  <2> QED BY <1>1, <1>5, <2>6, <2>7, <2>8
<1> QED BY <1>6, <1>7

\* Of what is left, a node that no other of them leads to is ready, and the
\* first of those that are is in the batch.
LEMMA WorkGoesOn ==
    ASSUME SwarmInv, atWork = {}, finished # Compiled
    PROVE  NextBatch # {}
<1>1. PICK n \in Compiled \ finished :
        \A e \in graph.edges : e.to = n => e.branch = "error" \/ e.from \notin Compiled \ finished
  <2>1. Compiled \ finished # {} /\ Compiled \ finished \subseteq WorkNodes \ graph.disabled
    BY DEF SwarmInv, Compiled
  <2> QED BY <2>1 DEF SwarmInv, ValidWorkflow
<1>2. DependsOn(n) \subseteq finished
  BY <1>1 DEF DependsOn, SwarmInv, Compiled
<1>3. ReadyWork # {} /\ ReadyWork \subseteq Nat
  BY <1>1, <1>2, ReadyIsFinite DEF ReadyWork
<1>4. PICK x \in ReadyWork : \A y \in ReadyWork : x <= y
  BY <1>3, FirstExists
<1>5. {m \in ReadyWork : m <= x} = {x}
  <2>1. \A m \in ReadyWork : m \in Nat /\ x <= m /\ x \in Nat
    BY <1>3, <1>4
  <2>2. \A m \in ReadyWork : m <= x <=> m = x
    BY <2>1
  <2> QED BY <1>4, <2>2
<1>6. Cardinality({m \in ReadyWork : m <= x}) = 1 /\ Cardinality(atWork) = 0
  BY <1>5, FS_Singleton, FS_EmptySet
<1> QED BY <1>4, <1>6, WidthIsPositive DEF NextBatch

LEMMA SwarmStarts == SwarmInit => SwarmInv
<1> SUFFICES ASSUME SwarmInit PROVE SwarmInv
  OBVIOUS
<1>1. workers \in Nat \ {0} /\ finished = {} /\ atWork = {}
  BY AgentAssumption DEF SwarmInit
<1>2. (\A e \in graph.edges : e.branch # "error" => e.from \in WorkNodes)
      /\ ValidWorkflow(graph.edges, graph.disabled)
  <2> DEFINE Edges(main, errors) ==
        {[from |-> e[1], to |-> e[2], branch |-> "main"] : e \in main}
          \cup {[from |-> e[1], to |-> e[2], branch |-> "error"] : e \in errors}
  <2>1. PICK main \in SUBSET {e \in WorkNodes \X WorkNodes : e[1] # e[2]},
             errors \in SUBSET {<<1, 2>>, <<2, 1>>}, disabled \in {{}, {2}} :
          /\ ValidWorkflow(Edges(main, errors), disabled)
          /\ graph \in [edges : {Edges(main, errors)}, disabled : {disabled},
                         kind : [WorkNodes -> {"analyst", "verifier"}]]
    BY DEF SwarmInit
  <2>2. graph.edges = Edges(main, errors) /\ graph.disabled = disabled
    <3> HIDE DEF Edges
    <3> QED BY <2>1
  <2>3. \A e \in Edges(main, errors) : e.branch # "error" => e.from \in WorkNodes
    BY <2>1
  <2> QED BY <2>1, <2>2, <2>3
<1>3. Cardinality(atWork) <= Width
  <2>1. Width \in Nat
    BY <1>1, AgentAssumption DEF Width
  <2> QED BY <1>1, <2>1, FS_EmptySet
<1> QED BY <1>1, <1>2, <1>3 DEF SwarmInv

LEMMA SwarmKeeps == SwarmInv /\ [SwarmNext]_swarmVars => SwarmInv'
<1> SUFFICES ASSUME SwarmInv, [SwarmNext]_swarmVars PROVE SwarmInv'
  OBVIOUS
<1>1. IsFiniteSet(atWork) /\ Cardinality(atWork) \in Nat
  BY ReadyIsFinite, FS_Subset, FS_CardinalityType DEF SwarmInv
<1>2. Width \in Nat
  BY WidthIsPositive
<1>3. CASE Hand
  <2>1. graph' = graph /\ workers' = workers /\ finished' = finished /\ atWork' = atWork \cup NextBatch
    BY <1>3 DEF Hand
  <2>2. Width' = Width /\ Compiled' = Compiled
    BY <2>1 DEF Width, Compiled
  <2>3. Cardinality(atWork') <= Width
    <3>1. IsFiniteSet(NextBatch) /\ Cardinality(NextBatch) + Cardinality(atWork) <= Width
      BY BatchFits
    <3>2. Cardinality(NextBatch) \in Nat /\ Cardinality(atWork \cap NextBatch) \in Nat
      BY <1>1, <3>1, FS_CardinalityType, FS_Intersection
    <3>3. Cardinality(atWork \cup NextBatch)
            = Cardinality(atWork) + Cardinality(NextBatch) - Cardinality(atWork \cap NextBatch)
      BY <1>1, <3>1, FS_Union
    <3> QED BY <1>1, <1>2, <2>1, <3>1, <3>2, <3>3
  <2>4. \A n \in NextBatch : n \in Compiled \ (finished \cup atWork) /\ DependsOn(n) \subseteq finished
    BY DEF NextBatch, ReadyWork
  <2>5. \A e \in graph.edges :
          e.branch # "error" /\ e.from \notin graph.disabled /\ e.to \in atWork' => e.from \in finished
    BY <2>1, <2>4 DEF SwarmInv, DependsOn
  <2>6. ValidWorkflow(graph.edges, graph.disabled)'
    BY <2>1 DEF SwarmInv, ValidWorkflow
  <2> QED BY <2>1, <2>2, <2>3, <2>4, <2>5, <2>6 DEF SwarmInv
<1>4. ASSUME NEW n \in WorkNodes, FinishWork(n) PROVE SwarmInv'
  <2>1. graph' = graph /\ workers' = workers /\ finished' = finished \cup {n} /\ atWork' = atWork \ {n} /\ n \in atWork
    BY <1>4 DEF FinishWork
  <2>2. Width' = Width /\ Compiled' = Compiled
    BY <2>1 DEF Width, Compiled
  <2>3. Cardinality(atWork') <= Width
    <3>1. Cardinality(atWork \ {n}) = Cardinality(atWork) - 1
      BY <1>1, <2>1, FS_RemoveElement
    <3> QED BY <1>1, <1>2, <2>1, <3>1 DEF SwarmInv
  <2>4. ValidWorkflow(graph.edges, graph.disabled)'
    BY <2>1 DEF SwarmInv, ValidWorkflow
  <2> QED BY <2>1, <2>2, <2>3, <2>4 DEF SwarmInv
<1>5. CASE UNCHANGED swarmVars
  <2>1. graph' = graph /\ workers' = workers /\ finished' = finished /\ atWork' = atWork
    BY <1>5 DEF swarmVars
  <2> QED BY <2>1 DEF SwarmInv, ValidWorkflow, Width, Compiled
<1> QED BY <1>3, <1>4, <1>5 DEF SwarmNext

\* A swarm is staffed as its roles allow; it is never stuck while work is left,
\* never wider than asked for, and never at a node before what it depends on
\* (agent-swarm.ts: buildAgentSwarm, nextSwarmBatch).
THEOREM SwarmHolds == SwarmInit /\ [][SwarmNext]_swarmVars => [](SwarmGoesOn /\ SwarmIsStaffed)
<1>1. SwarmInv => SwarmGoesOn
  BY WorkGoesOn DEF SwarmInv, SwarmGoesOn
<1>2. SwarmInv => SwarmIsStaffed
  BY ReadyIsFinite, StaffingIsFair DEF SwarmInv
<1> QED BY <1>1, <1>2, SwarmStarts, SwarmKeeps, PTL

\* All that is said of the work of agents, of the node and of the swarm.
THEOREM WorkHolds ==
    AgentInit /\ [][AgentNext]_agentVars /\ SwarmInit /\ [][SwarmNext]_swarmVars => []AgentWorkHolds
<1>1. TakenIsVerified /\ ToldOnce /\ SwarmGoesOn /\ SwarmIsStaffed => AgentWorkHolds
  BY DEF AgentWorkHolds
<1> QED BY <1>1, AgentsHold, SwarmHolds, PTL
=============================================================================
