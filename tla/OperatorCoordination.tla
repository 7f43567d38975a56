------------------------- MODULE OperatorCoordination -------------------------
(* Assignments, the scopes they lie in, the grants on these, and the handoffs *)
(* of the work (packages/core/src/operator-coordination.ts and the           *)
(* coordination handlers of apps/runtime/server.ts).                         *)
(*                                                                           *)
(* Grain.  The Founder's requests decide after their body has arrived, so    *)
(* that each is one step.  A manual handoff is two: the operator's access    *)
(* and the row of the assignment are read before the body is awaited, and    *)
(* that row is written back after.  A linked run is two as well, its start   *)
(* and its end; a death of the process ends it without its handler.          *)
EXTENDS Naturals, FiniteSets

CONSTANTS
  Operators,     \* principals other than the Founder
  Scopes, Grants, Assignments, Runs,
  Handoffs,      \* manual handoff requests
  MaxEdits,      \* bound on the Founder's requests
  MaxRestarts

ASSUME CoordinationAssumption ==
    /\ {"founder", "none"} \cap Operators = {} /\ "none" \notin Runs
    /\ MaxEdits \in Nat /\ MaxRestarts \in Nat

VARIABLES
  operator,     \* durable: credential of each operator
  scope,        \* durable: who owns each scope
  grant,        \* durable: grants by id
  assignment,   \* durable: assignments by id
  handoff,      \* durable: handoffs
  request,      \* manual handoffs: who asks, and the row as it was read
  linked,       \* runs: their state and runAssignments
  edits, restarts,
  given,        \* what each operator was ever allowed               (history)
  used          \* what was needed for the handoffs there are        (history)

coordinationVars ==
    <<operator, scope, grant, assignment, handoff, request, linked, edits, restarts, given,
      used>>

Principals == Operators \cup {"founder"}
Permissions == {"write_work", "handoff"}
NoGrant == [principal |-> "none", scope |-> "none", may |-> {}, revoked |-> FALSE]
NoAssignment == [status |-> "none", assignee |-> "none", scopes |-> {}, next |-> FALSE, last |-> "none"]
NoRequest == [state |-> "none", by |-> "none", of |-> "none", row |-> NoAssignment]
NotLinked == [state |-> "none", of |-> "none", by |-> "none", scopes |-> {}]

Live(p) == p # "founder" => operator[p] = "active"

\* canAccessCoordinationScope
MayOn(p, s, permission) ==
    \/ scope[s] = p
    \/ \E g \in Grants : /\ ~grant[g].revoked /\ grant[g].principal = p
                         /\ grant[g].scope = s /\ permission \in grant[g].may

\* A plausible mistake in MayWork: one scope of the assignment will do.
MayWorkSome(p, row, permission) ==
    p # "founder" =>
      \E s \in row.scopes : scope[s] # "none" /\ MayOn(p, s, permission)

\* assertAssignmentAccess; the handlers accept no assignment without scopes
MayWork(p, row, permission) ==
    p # "founder" =>
      \A s \in row.scopes : scope[s] # "none" /\ MayOn(p, s, permission)

\* The rows, as their constructors and validators leave them.
Granted(p, s, may) == [principal |-> p, scope |-> s, may |-> may, revoked |-> FALSE]
Assigned(p, scopes, next) ==
    [status |-> "queued", assignee |-> p, scopes |-> scopes, next |-> next, last |-> "none"]
Handoff(of, by, run) == [of |-> of, by |-> by, run |-> run]

SaveAssignment(a, row) == assignment' = [assignment EXCEPT ![a] = row]
AppendHandoff(x) == handoff' = handoff \cup {x}

-----------------------------------------------------------------------------
(* Requests of the Founder *)

Edit == edits < MaxEdits /\ edits' = edits + 1

\* A plausible mistake in Revoke: the grants of the operator stay.
RevokeAlone(p) ==
    /\ Edit /\ operator[p] = "active"
    /\ operator' = [operator EXCEPT ![p] = "revoked"]
    /\ UNCHANGED <<scope, grant, assignment, handoff, request, linked, restarts, given, used>>

Delegate(p) ==
    /\ Edit /\ operator' = [operator EXCEPT ![p] = "active"]
    /\ UNCHANGED <<scope, grant, assignment, handoff, request, linked, restarts, given, used>>

Revoke(p) ==
    /\ Edit /\ operator[p] = "active"
    /\ operator' = [operator EXCEPT ![p] = "revoked"]
    /\ grant' = [g \in Grants |-> IF grant[g].principal = p THEN [grant[g] EXCEPT !.revoked = TRUE]
                                  ELSE grant[g]]
    /\ UNCHANGED <<scope, assignment, handoff, request, linked, restarts, given, used>>

\* The owner need not be enrolled, and a scope may change hands.
SaveScope(s, owner) ==
    /\ Edit /\ scope' = [scope EXCEPT ![s] = owner]
    /\ given' = given \cup {<<p, s, permission>> : p \in Operators \cap {owner}, permission \in Permissions}
    /\ UNCHANGED <<operator, grant, assignment, handoff, request, linked, restarts, used>>

\* A request that names the id of a grant replaces it, a revoked one too.
SaveGrant(g, p, s, may) ==
    /\ Edit /\ scope[s] # "none" /\ Live(p)
    /\ grant' = [grant EXCEPT ![g] = Granted(p, s, may)]
    /\ given' = given \cup {<<p, s, permission>> : permission \in may}
    /\ UNCHANGED <<operator, scope, assignment, handoff, request, linked, restarts, used>>

RevokeGrant(g) ==
    /\ Edit /\ grant[g] # NoGrant
    /\ grant' = [grant EXCEPT ![g].revoked = TRUE]
    /\ UNCHANGED <<operator, scope, assignment, handoff, request, linked, restarts, given, used>>

\* An assignment is saved anew, in any of its states; the assignee must be
\* able to do the work.
Assign(a, p, scopes, next) ==
    LET row == Assigned(p, scopes, next)
    IN  /\ Edit /\ Live(p) /\ \A s \in scopes : scope[s] # "none"
        /\ MayWork(p, row, "write_work")
        /\ SaveAssignment(a, row)
        /\ UNCHANGED <<operator, scope, grant, handoff, request, linked, restarts, given, used>>

-----------------------------------------------------------------------------
(* Work *)

\* What an operator needs for a handoff; the Founder needs nothing.
Needs(p, scopes, permission) ==
    {<<q, s, permission>> : q \in Operators \cap {p}, s \in scopes}

\* POST .../handoffs: authorized, then the body is awaited ...
Ask(h, p, a) ==
    /\ request[h] = NoRequest /\ Live(p)
    /\ assignment[a] # NoAssignment /\ MayWork(p, assignment[a], "handoff")
    /\ request' = [request EXCEPT ![h] = [state |-> "awaits", by |-> p, of |-> a, row |-> assignment[a]]]
    /\ UNCHANGED <<operator, scope, grant, assignment, handoff, linked, edits, restarts, given, used>>

\* ... and the handoff appended and the row written back; it may name a run.
HandOver(h, run, complete) ==
    LET q == request[h]
    IN  /\ q.state = "awaits"
        /\ AppendHandoff(Handoff(q.of, q.by, run))
        /\ used' = used \cup Needs(q.by, q.row.scopes, "handoff")
        /\ SaveAssignment(q.of, [q.row EXCEPT !.status = IF complete THEN "completed" ELSE "active"])
        /\ request' = [request EXCEPT ![h] = [NoRequest EXCEPT !.state = "over"]]
        /\ UNCHANGED <<operator, scope, grant, linked, edits, restarts, given>>

\* POST /api/command with an assignment
StartLinked(r, p, a) ==
    /\ linked[r] = NotLinked /\ Live(p)
    /\ assignment[a] # NoAssignment /\ MayWork(p, assignment[a], "write_work")
    /\ linked' = [linked EXCEPT ![r] = [state |-> "runs", of |-> a, by |-> p,
                                        scopes |-> assignment[a].scopes]]
    /\ SaveAssignment(a, [assignment[a] EXCEPT !.status = "active", !.last = r])
    /\ UNCHANGED <<operator, scope, grant, handoff, request, edits, restarts, given, used>>

\* A plausible mistake in HandedOff: any handoff that names the run will do.
HandedOffAnywhere(r) == \E x \in handoff : x.run = r
HandedOff(r) == \E x \in handoff : x.run = r /\ x.of = linked[r].of

After(outcome, next) ==
    IF outcome \in {"blocked", "failed"} THEN "blocked"
    ELSE IF outcome = "cancelled" THEN "cancelled"
    ELSE IF next THEN "active" ELSE "completed"

\* finishRun: finalizeCoordinationHandoff, with the row as it is now
FinishLinked(r, outcome) ==
    LET l == linked[r]
    IN  /\ l.state = "runs"
        /\ linked' = [linked EXCEPT ![r] = [NotLinked EXCEPT !.state = outcome, !.of = l.of]]
        /\ IF HandedOff(r) THEN UNCHANGED <<handoff, assignment, used>>
           ELSE /\ AppendHandoff(Handoff(l.of, l.by, r))
                /\ used' = used \cup Needs(l.by, l.scopes, "write_work")
                /\ SaveAssignment(l.of, [assignment[l.of] EXCEPT
                     !.status = After(outcome, assignment[l.of].next), !.last = r])
        /\ UNCHANGED <<operator, scope, grant, request, edits, restarts, given>>

\* markInterruptedRuns: the run is blocked; runAssignments was memory.
Interrupt ==
    /\ restarts < MaxRestarts /\ restarts' = restarts + 1
    /\ linked' = [r \in Runs |-> IF linked[r].state = "runs"
                                 THEN [NotLinked EXCEPT !.state = "interrupted", !.of = linked[r].of]
                                 ELSE linked[r]]
    /\ request' = [h \in Handoffs |-> IF request[h] = NoRequest THEN NoRequest
                                      ELSE [NoRequest EXCEPT !.state = "over"]]
    /\ UNCHANGED <<operator, scope, grant, assignment, handoff, edits, given, used>>

CoordinationInit ==
    /\ operator = [p \in Operators |-> "none"]
    /\ scope = [s \in Scopes |-> "none"] /\ grant = [g \in Grants |-> NoGrant]
    /\ assignment = [a \in Assignments |-> NoAssignment] /\ handoff = {}
    /\ request = [h \in Handoffs |-> NoRequest] /\ linked = [r \in Runs |-> NotLinked]
    /\ edits = 0 /\ restarts = 0 /\ given = {} /\ used = {}

CoordinationNext ==
    \/ \E p \in Operators : Delegate(p) \/ Revoke(p)
    \/ \E s \in Scopes, p \in Principals : SaveScope(s, p)
    \/ \E g \in Grants :
         \/ RevokeGrant(g)
         \/ \E p \in Operators, s \in Scopes, may \in (SUBSET Permissions) \ {{}} : SaveGrant(g, p, s, may)
    \/ \E a \in Assignments, p \in Principals :
         \/ \E scopes \in (SUBSET Scopes) \ {{}}, next \in BOOLEAN : Assign(a, p, scopes, next)
         \/ \E h \in Handoffs : Ask(h, p, a)
         \/ \E r \in Runs : StartLinked(r, p, a)
    \/ \E h \in Handoffs, r \in Runs \cup {"none"}, complete \in BOOLEAN : HandOver(h, r, complete)
    \/ \E r \in Runs, outcome \in {"completed", "blocked", "cancelled"} : FinishLinked(r, outcome)
    \/ Interrupt

CoordinationSpec == CoordinationInit /\ [][CoordinationNext]_coordinationVars

-----------------------------------------------------------------------------
\* Values the variables range over.
Statuses == {"queued", "active", "blocked", "completed", "cancelled"}
CoordinationTypeOK ==
    /\ scope \in [Scopes -> Principals \cup {"none"}]
    /\ \A g \in Grants : grant[g] = NoGrant \/
         grant[g] \in [principal : Principals, scope : Scopes, may : SUBSET Permissions, revoked : BOOLEAN]
    /\ \A a \in Assignments : assignment[a] = NoAssignment \/
         /\ assignment[a].status \in Statuses /\ assignment[a].assignee \in Principals
         /\ assignment[a].scopes # {}/\ assignment[a].last \in Runs \cup {"none"}

\* No grant in force belongs to a principal who cannot sign in, however grants
\* and enrolments alternate; and work on an assignment was handed over, by a
\* request or by the end of a run, only by who was once allowed that on every
\* scope the assignment then had (operator-coordination.ts: canAccess...).
AccessWasGiven ==
    /\ CoordinationTypeOK
    /\ \A g \in Grants : grant[g] # NoGrant /\ ~grant[g].revoked => Live(grant[g].principal)
    /\ used \subseteq given

\* A linked run that came to its end in this process has a handoff of its
\* assignment, whatever was handed over by hand while it ran
\* (server.ts: finalizeCoordinationHandoff).
RunsHandOff ==
    \A r \in Runs : linked[r].state \notin {"none", "runs", "interrupted"} =>
        \E x \in handoff : x.run = r /\ x.of = linked[r].of

\* Together: what operators may do, and what their runs leave behind
CoordinationHolds == AccessWasGiven /\ RunsHandOff

\* Claim of docs/operator-coordination.md:11: a linked run that ends in any
\* state produces a handoff.
EveryEndHandsOff ==
    \A r \in Runs : linked[r].state \notin {"none", "runs"} =>
        \E x \in handoff : x.run = r /\ x.of = linked[r].of
=============================================================================
