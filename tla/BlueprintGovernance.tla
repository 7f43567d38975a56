------------------------- MODULE BlueprintGovernance -------------------------
(* Revisions of the runtime Decision Blueprint and the proposals that change *)
(* it (packages/core/src/runtime-blueprint-governance.ts,                    *)
(* blueprint-tool-sync.ts, decision-blueprint.ts and their handlers in       *)
(* apps/runtime/server.ts).  A request checks everything and then makes its  *)
(* SQLite writes one after the other without a transaction; the last step    *)
(* replaces the revision held in memory.                                     *)
EXTENDS Integers, Sequences, FiniteSets

CONSTANTS
  Tools,
  Proposals,      \* names for proposals
  MaxRevision,    \* bound on revisions
  MaxCrashes, MaxFailures

ASSUME BoundAssumption ==
    MaxRevision \in Nat \ {0} /\ MaxCrashes \in Nat /\ MaxFailures \in Nat

VARIABLES
  rows,        \* durable: the revisions, rows[r] is revision r
  proposals,   \* durable
  current,     \* the revision in memory, 0 while the process is down
  registered,  \* tools of this process, fixed at start
  todo,        \* what the request at hand has still to write
  crashes, failures

vars == <<rows, proposals, current, registered, todo, crashes, failures>>

\* A policy: the tools it allows and whether the mandatory guardrails, roles,
\* metrics and revalidation are in it.
Policies == [tools : SUBSET Tools, sound : BOOLEAN]
Statuses == {"draft", "active", "historical"}
Row(status, supersedes, policy) ==
    [status |-> status, supersedes |-> supersedes, policy |-> policy]
NoProposal == [status |-> "none", from |-> 0, revision |-> 0]

\* One write; the last step of a request replaces the revision in memory.
SaveRow(r, row) == [table |-> "blueprint", key |-> r, value |-> row]
SaveProposal(p, record) == [table |-> "proposal", key |-> p, value |-> record]
Hold(r) == [table |-> "memory", key |-> r, value |-> r]

Ready == current # 0 /\ todo = <<>>

-----------------------------------------------------------------------------
(* Checks *)

\* A plausible mistake in NextRevision.
RevisionAfterCurrent == current + 1

NextRevision == Len(rows) + 1

\* verifyRuntimeBlueprintCandidate of a draft that supersedes the current one
Verified(policy) ==
    /\ policy.sound /\ policy.tools \subseteq registered
    /\ policy # rows[current].policy

Draft(r, policy) == SaveRow(r, Row("draft", current, policy))

\* The previous revision becomes historical, then the new one active.
Retire == SaveRow(current, [rows[current] EXCEPT !.status = "historical"])
Activate(r, policy) == SaveRow(r, Row("active", current, policy))

-----------------------------------------------------------------------------
(* Requests of the Founder, and the drift detector at the end of a run *)

Request(writes) ==
    /\ Ready /\ todo' = writes
    /\ UNCHANGED <<rows, proposals, current, registered, crashes, failures>>

\* A run ended under revision r and its outcomes got worse: one open proposal
\* per revision, and only while that revision is the active one.
Propose(p, r) ==
    /\ proposals[p] = NoProposal
    /\ r \in DOMAIN rows /\ rows[r].status = "active"
    /\ \A q \in Proposals :
         ~(proposals[q].from = r /\ proposals[q].status \in {"proposed", "approved"})
    /\ Request(<<SaveProposal(p, [NoProposal EXCEPT !.status = "proposed", !.from = r])>>)

Reject(p) ==
    /\ proposals[p].status = "proposed"
    /\ Request(<<SaveProposal(p, [proposals[p] EXCEPT !.status = "rejected"])>>)

\* The replay of an approval writes nothing.
Approve(p, policy) ==
    /\ proposals[p].status = "proposed" /\ proposals[p].from = current
    /\ NextRevision <= MaxRevision
    /\ Verified(policy)
    /\ Request(<<Draft(NextRevision, policy),
                 SaveProposal(p, [proposals[p] EXCEPT !.status = "approved",
                                                      !.revision = NextRevision])>>)

\* A plausible mistake in Apply.
ApplyStale(p) ==
    LET r == proposals[p].revision
    IN  /\ current # 0
        /\ proposals[p].status = "approved" /\ rows[r].status = "draft"
        /\ Verified(rows[r].policy)
        /\ Request(<<Retire, Activate(r, rows[r].policy),
                     SaveProposal(p, [proposals[p] EXCEPT !.status = "applied"]), Hold(r)>>)

\* A plausible mistake in Apply.
ApplyTrusting(p) ==
    LET r == proposals[p].revision
    IN  /\ proposals[p].status = "approved" /\ proposals[p].from = current
        /\ rows[r].status = "draft" /\ rows[r].supersedes = current
        /\ Request(<<Retire, Activate(r, rows[r].policy),
                     SaveProposal(p, [proposals[p] EXCEPT !.status = "applied"]), Hold(r)>>)

\* The approved draft becomes the active revision; the replay of an
\* application that is still in force only sets the memory.
Apply(p) ==
    LET r == proposals[p].revision
    IN  \/ /\ proposals[p].status = "approved" /\ proposals[p].from = current
           /\ rows[r].status = "draft" /\ rows[r].supersedes = current
           /\ Verified(rows[r].policy)
           /\ Request(<<Retire, Activate(r, rows[r].policy),
                        SaveProposal(p, [proposals[p] EXCEPT !.status = "applied"]), Hold(r)>>)
        \/ /\ proposals[p].status = "applied" /\ rows[r].status = "active"
           /\ Request(<<Hold(r)>>)

\* Proposal, verified draft and application in one request; it only adds tools.
ToolSync(p) ==
    LET policy == [tools |-> rows[current].policy.tools \cup registered,
                   sound |-> rows[current].policy.sound]
        record == [status |-> "proposed", from |-> current, revision |-> NextRevision]
    IN  /\ proposals[p] = NoProposal /\ current # 0
        /\ rows[current].policy.tools \subseteq registered
        /\ Verified(policy)
        /\ NextRevision <= MaxRevision
        /\ Request(<<SaveProposal(p, record), Draft(NextRevision, policy),
                     SaveProposal(p, [record EXCEPT !.status = "approved"]),
                     Retire, Activate(NextRevision, policy),
                     SaveProposal(p, [record EXCEPT !.status = "applied"]), Hold(NextRevision)>>)

\* A historical policy comes back as a new revision.
Rollback(target) ==
    /\ current # 0 /\ target \in DOMAIN rows \ {current}
    /\ rows[target].status = "historical"
    /\ Verified(rows[target].policy)
    /\ NextRevision <= MaxRevision
    /\ Request(<<Retire, Activate(NextRevision, rows[target].policy), Hold(NextRevision)>>)

-----------------------------------------------------------------------------
(* Writes, failing writes, crashes and the start *)

Upsert(r, row) == IF r = Len(rows) + 1 THEN Append(rows, row) ELSE [rows EXCEPT ![r] = row]

Write ==
    /\ todo # <<>>
    /\ LET w == Head(todo)
       IN  /\ rows' = IF w.table = "blueprint" THEN Upsert(w.key, w.value) ELSE rows
           /\ proposals' = IF w.table = "proposal"
                           THEN [proposals EXCEPT ![w.key] = w.value] ELSE proposals
           /\ current' = IF w.table = "memory" THEN w.value ELSE current
    /\ todo' = Tail(todo)
    /\ UNCHANGED <<registered, crashes, failures>>

\* SQLite refuses a write: the handler answers 409, what was written stays.
WriteFails ==
    /\ failures < MaxFailures /\ failures' = failures + 1
    /\ todo # <<>> /\ Head(todo).table # "memory"
    /\ todo' = <<>>
    /\ UNCHANGED <<rows, proposals, current, registered, crashes>>

Crash ==
    /\ crashes < MaxCrashes /\ crashes' = crashes + 1
    /\ current # 0 /\ current' = 0 /\ todo' = <<>>
    /\ UNCHANGED <<rows, proposals, registered, failures>>

ActiveRows == {r \in DOMAIN rows : rows[r].status = "active"}

\* resolveActiveRuntimeBlueprint: the seed, or the one active revision; with
\* none or several it throws and the process does not come up.
Start(tools) ==
    /\ current = 0 /\ registered' = tools
    /\ \/ /\ rows = <<>>
          /\ rows' = <<Row("active", 0, [tools |-> tools, sound |-> TRUE])>>
          /\ current' = 1
       \/ /\ \E r \in DOMAIN rows : ActiveRows = {r} /\ current' = r
          /\ UNCHANGED rows
    /\ UNCHANGED <<proposals, todo, crashes, failures>>

Init ==
    /\ rows = <<>> /\ proposals = [p \in Proposals |-> NoProposal]
    /\ current = 0 /\ registered = {} /\ todo = <<>>
    /\ crashes = 0 /\ failures = 0

Next ==
    \/ \E p \in Proposals, r \in 1..MaxRevision : Propose(p, r)
    \/ \E p \in Proposals : Reject(p) \/ Apply(p) \/ ToolSync(p)
    \/ \E p \in Proposals, policy \in Policies : Approve(p, policy)
    \/ \E target \in 1..MaxRevision : Rollback(target)
    \/ Write \/ WriteFails \/ Crash
    \/ \E tools \in SUBSET Tools : Start(tools)

Spec == Init /\ [][Next]_vars

-----------------------------------------------------------------------------
(* What must hold of the runtime Blueprint, whatever is proposed, approved,  *)
(* applied and rolled back, and wherever the process dies.                   *)

\* Values the variables range over.
TypeOK ==
    /\ rows \in Seq([status : Statuses, supersedes : 0..MaxRevision, policy : Policies])
    /\ Len(rows) <= MaxRevision
    /\ proposals \in [Proposals ->
         [status : {"none", "proposed", "approved", "rejected", "applied"},
          from : 0..MaxRevision, revision : 0..MaxRevision]]
    /\ current \in 0..Len(rows) /\ registered \subseteq Tools
    /\ crashes \in 0..MaxCrashes /\ failures \in 0..MaxFailures

\* Between two requests the revision that governs is the only active row,
\* unless a write was refused in the middle of one
\* (README.md:131 "every run selects an active immutable Blueprint").
MemoryIsActive == Ready => ActiveRows = {current}

\* Revisions that governed form one line: each but the first supersedes one
\* that governed before it, and no revision was superseded twice, though
\* several drafts of the same revision may be approved at once
\* (README.md:135 "append-only revision").
Governed == {r \in DOMAIN rows : rows[r].status # "draft"}
OneLine ==
    /\ \A r \in Governed \ {1} : rows[r].supersedes \in Governed /\ rows[r].supersedes < r
    /\ \A r, s \in Governed : rows[r].supersedes = rows[s].supersedes => r = s

GovernanceAgrees == TypeOK /\ (failures = 0 => MemoryIsActive /\ OneLine)

\* A revision once written keeps its policy and its predecessor and only moves
\* on, from draft to active to historical; a decision on a proposal is never
\* revised and names the same draft until it is applied.
Later(a, b) == <<a, b>> \in {<<"draft", "active">>, <<"active", "historical">>}
Decided(a, b) ==
    <<a, b>> \in {<<"none", "proposed">>, <<"proposed", "rejected">>,
                  <<"proposed", "approved">>, <<"approved", "applied">>}
KeepsHistory ==
    /\ \A r \in DOMAIN rows :
         /\ r \in DOMAIN rows'
         /\ rows'[r].policy = rows[r].policy /\ rows'[r].supersedes = rows[r].supersedes
         /\ rows'[r].status # rows[r].status => Later(rows[r].status, rows'[r].status)
    /\ \A p \in Proposals : proposals'[p] # proposals[p] =>
         /\ Decided(proposals[p].status, proposals'[p].status)
         /\ proposals[p].status = "approved" =>
              proposals'[p] = [proposals[p] EXCEPT !.status = "applied"]

\* What starts to govern has its guardrails and only tools this process has,
\* even when the registry shrank at a restart after the approval
\* (README.md:135 "verify a new draft revision against mandatory [...] invariants").
GovernsVerified ==
    \A r \in DOMAIN rows' :
      rows'[r].status = "active" /\ (r \notin DOMAIN rows \/ rows[r].status # "active") =>
        rows'[r].policy.sound /\ rows'[r].policy.tools \subseteq registered'

\* No step rewrites the history, whether a request wrote all it had to write, a
\* write was refused or the process died half way, and no step puts a revision
\* in force that was not verified with the tools this process has now
\* (runtime-blueprint-governance.ts: applyApprovedRuntimeBlueprint).
RevisionsHold == [][KeepsHistory /\ GovernsVerified]_vars

\* Claim of runtime-blueprint-governance.ts:40-46: whenever the process starts
\* on a store that has revisions, exactly one of them is active.
OneActiveAtStart == current = 0 /\ rows # <<>> => Cardinality(ActiveRows) = 1
=============================================================================
