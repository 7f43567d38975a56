---------------------------- MODULE RecordProofs -----------------------------
(* What the records of the founder keep, for any number of them: the history *)
(* of the runtime Blueprint, the drafts of the mail, projects and their      *)
(* threads, the revisions and surfaces of the assistant, the consents and    *)
(* templates of the household, the references in force, the drafts of flows, *)
(* the selections of the library and the balances of the operations.         *)
EXTENDS BlueprintGovernance, MailDrafts, ProjectRecords, AssistantControl,
        HouseholdRecognition, FounderRecords, FlowEditor, BusinessOperations,
        NumberLemmas, FiniteSetTheorems, SequenceTheorems, TLAPS

(* The history of the runtime Blueprint, with deaths and refused writes *)

RevisionNumbers == 0..MaxRevision
RowValues == [status : Statuses, supersedes : RevisionNumbers, policy : Policies]
ProposalValues ==
    [status : {"none", "proposed", "approved", "rejected", "applied"},
     from : RevisionNumbers, revision : RevisionNumbers]

\* A decided proposal names a revision that is there.
Names(v) == v.status \in {"approved", "applied"} => v.revision \in DOMAIN rows

MayDecide(p, v) ==
    /\ p \in Proposals /\ v \in ProposalValues
    /\ Decided(proposals[p].status, v.status)
    /\ proposals[p].status = "approved" => v = [proposals[p] EXCEPT !.status = "applied"]

Next1 == Len(rows) + 1
MayHold(r) == r \in DOMAIN rows /\ rows[r].status # "draft"
MayActivate(r, policy) ==
    /\ policy \in Policies /\ policy.sound /\ policy.tools \subseteq registered
    /\ (r = Next1 /\ r <= MaxRevision) \/ (r \in DOMAIN rows /\ rows[r] = Row("draft", current, policy))

ApplyOf(v) == [v EXCEPT !.status = "applied"]
ApproveOf(v) == [v EXCEPT !.status = "approved"]

(* What a request has still to write *)
Deciding(p, v) == todo = <<SaveProposal(p, v)>> /\ MayDecide(p, v) /\ Names(v)
Drafting(p, v, r, policy) ==
    /\ todo = <<Draft(r, policy), SaveProposal(p, v)>>
    /\ MayDecide(p, v) /\ v.revision = r /\ r = Next1 /\ r <= MaxRevision /\ policy \in Policies
Holding(r) == todo = <<Hold(r)>> /\ MayHold(r)
Applying(p, v, r) ==
    todo = <<SaveProposal(p, v), Hold(r)>> /\ MayDecide(p, v) /\ Names(v) /\ MayHold(r)
Activating(p, v, r, policy) ==
    /\ todo = <<Activate(r, policy), SaveProposal(p, v), Hold(r)>>
    /\ MayDecide(p, v) /\ v.revision = r /\ MayActivate(r, policy)
Retiring(p, v, r, policy) ==
    /\ todo = <<Retire, Activate(r, policy), SaveProposal(p, v), Hold(r)>>
    /\ MayDecide(p, v) /\ v.revision = r /\ MayActivate(r, policy)
ActivatingBack(r, policy) == todo = <<Activate(r, policy), Hold(r)>> /\ MayActivate(r, policy)
RetiringBack(r, policy) == todo = <<Retire, Activate(r, policy), Hold(r)>> /\ MayActivate(r, policy)
SyncApproving(p, v, r, policy) ==
    /\ todo = <<SaveProposal(p, v), Retire, Activate(r, policy), SaveProposal(p, ApplyOf(v)), Hold(r)>>
    /\ MayDecide(p, v) /\ v.status = "approved" /\ v.revision = r /\ r \in DOMAIN rows
    /\ MayActivate(r, policy)
SyncDrafting(p, v, r, policy) ==
    /\ todo = <<Draft(r, policy), SaveProposal(p, v), Retire, Activate(r, policy),
                SaveProposal(p, ApplyOf(v)), Hold(r)>>
    /\ MayDecide(p, v) /\ v.status = "approved" /\ v.revision = r
    /\ r = Next1 /\ MayActivate(r, policy)
SyncProposing(p, v, r, policy) ==
    /\ todo = <<SaveProposal(p, v), Draft(r, policy), SaveProposal(p, ApproveOf(v)), Retire,
                Activate(r, policy), SaveProposal(p, ApplyOf(v)), Hold(r)>>
    /\ MayDecide(p, v) /\ v.status = "proposed" /\ v.revision = r
    /\ r = Next1 /\ MayActivate(r, policy)

(* How far a request is: the revision in force is untouched, it is retired *)
(* and the next one not yet active, or r has replaced it.                  *)
Untouched ==
    \/ \E p, v : Deciding(p, v)
    \/ \E p, v, r, policy : Drafting(p, v, r, policy)
    \/ \E p, v, r, policy : Retiring(p, v, r, policy)
    \/ \E r, policy : RetiringBack(r, policy)
    \/ \E p, v, r, policy : SyncApproving(p, v, r, policy)
    \/ \E p, v, r, policy : SyncDrafting(p, v, r, policy)
    \/ \E p, v, r, policy : SyncProposing(p, v, r, policy)
Between ==
    \/ \E p, v, r, policy : Activating(p, v, r, policy)
    \/ \E r, policy : ActivatingBack(r, policy)
Replaced(r) == Holding(r) \/ \E p, v : Applying(p, v, r)

Pending == Untouched \/ Between \/ \E r : Replaced(r)

RecordsKept ==
    /\ rows \in Seq(RowValues) /\ Len(rows) <= MaxRevision
    /\ \A r \in DOMAIN rows : rows[r].supersedes < r
    /\ proposals \in [Proposals -> ProposalValues]
    /\ registered \subseteq Tools
    /\ \A p \in Proposals : Names(proposals[p])
    /\ current \in 0..Len(rows) /\ (current # 0 => rows[current].status # "draft")

\* Nothing that governed came after r.
Newest(r) == r \in Governed /\ \A s \in Governed : rows[s].supersedes # r

\* One line that ends in what is active; how far the request is tells what is.
Line ==
    /\ OneLine /\ \A r \in ActiveRows : Newest(r)
    /\ \/ current = 0
       \/ (todo = <<>> \/ Untouched) /\ ActiveRows = {current}
       \/ Between /\ ActiveRows = {} /\ Newest(current)
       \/ \E r : Replaced(r) /\ ActiveRows = {r}

GovernanceInv ==
    /\ RecordsKept /\ crashes \in 0..MaxCrashes /\ failures \in 0..MaxFailures
    /\ todo = <<>> \/ (current # 0 /\ Pending)
    /\ failures = 0 => Line

(* What a write does to the rows, and to the revision in memory *)
MemoryStays == current' = current
RowsSame == MemoryStays /\ UNCHANGED rows
RowDrafted(r) ==
    /\ r \notin DOMAIN rows /\ DOMAIN rows' = DOMAIN rows \cup {r} /\ rows'[r].status = "draft"
    /\ \A s \in DOMAIN rows : rows'[s] = rows[s]
RowRetired ==
    /\ DOMAIN rows' = DOMAIN rows /\ current \in DOMAIN rows
    /\ rows'[current].status = "historical" /\ rows'[current].supersedes = rows[current].supersedes
    /\ \A s \in DOMAIN rows \ {current} : rows'[s] = rows[s]
RowActivated(r) ==
    /\ DOMAIN rows' = DOMAIN rows \cup {r} /\ r \in Nat /\ current < r
    /\ r \in DOMAIN rows => rows[r].status = "draft"
    /\ rows'[r].status = "active" /\ rows'[r].supersedes = current
    /\ \A s \in DOMAIN rows \ {r} : rows'[s] = rows[s]

\* The step goal of each write
Good == RecordsKept' /\ KeepsHistory /\ GovernsVerified

-----------------------------------------------------------------------------
(* One write of a request *)

\* The first write of a request, and the rest
LEMMA Tails ==
    ASSUME NEW a, NEW b, NEW c, NEW d, NEW e, NEW f, NEW g
    PROVE  /\ Head(<<a>>) = a /\ Tail(<<a>>) = <<>>
           /\ Head(<<a, b>>) = a /\ Tail(<<a, b>>) = <<b>>
           /\ Head(<<a, b, c>>) = a /\ Tail(<<a, b, c>>) = <<b, c>>
           /\ Head(<<a, b, c, d>>) = a /\ Tail(<<a, b, c, d>>) = <<b, c, d>>
           /\ Head(<<a, b, c, d, e>>) = a /\ Tail(<<a, b, c, d, e>>) = <<b, c, d, e>>
           /\ Head(<<a, b, c, d, e, f>>) = a /\ Tail(<<a, b, c, d, e, f>>) = <<b, c, d, e, f>>
           /\ Head(<<a, b, c, d, e, f, g>>) = a /\ Tail(<<a, b, c, d, e, f, g>>) = <<b, c, d, e, f, g>>
OBVIOUS

\* A decision on a proposal is written.
LEMMA WriteProposal ==
    ASSUME RecordsKept, Write, NEW p, NEW v, Head(todo) = SaveProposal(p, v),
           MayDecide(p, v), Names(v)
    PROVE  /\ Good /\ UNCHANGED <<rows, current, registered>> /\ todo' = Tail(todo)
           /\ proposals'[p] = v
<1>1. /\ UNCHANGED <<rows, current, registered>> /\ todo' = Tail(todo)
      /\ proposals' = [proposals EXCEPT ![p] = v]
  <2>. DEFINE w == Head(todo)
  <2>1. w.table = "proposal" /\ w.key = p /\ w.value = v
    BY DEF SaveProposal
  <2>2. /\ rows' = IF w.table = "blueprint" THEN Upsert(w.key, w.value) ELSE rows
        /\ proposals' = IF w.table = "proposal" THEN [proposals EXCEPT ![w.key] = w.value] ELSE proposals
        /\ current' = IF w.table = "memory" THEN w.value ELSE current
        /\ todo' = Tail(todo) /\ UNCHANGED registered
    BY DEF Write
  <2>. HIDE DEF w
  <2>. QED  BY <2>1, <2>2
<1>2. p \in Proposals /\ v \in ProposalValues
  BY DEF MayDecide
<1>3. \A q \in Proposals : proposals'[q] = IF q = p THEN v ELSE proposals[q]
  BY <1>1, <1>2 DEF RecordsKept
<1>4. RecordsKept'
  <2>1. proposals' \in [Proposals -> ProposalValues]
    BY <1>1, <1>2 DEF RecordsKept
  <2>2. (\A q \in Proposals : Names(proposals[q]))'
    BY <1>1, <1>3 DEF RecordsKept, Names
  <2>. QED  BY <1>1, <2>1, <2>2 DEF RecordsKept
<1>5. KeepsHistory
  BY <1>1, <1>3 DEF KeepsHistory, MayDecide
<1>6. GovernsVerified
  BY <1>1 DEF GovernsVerified
<1>. QED  BY <1>1, <1>2, <1>3, <1>4, <1>5, <1>6 DEF Good

\* A revision is written, over the one of its number or after the last.
LEMMA WriteRow ==
    ASSUME RecordsKept, Write, NEW r, NEW row \in RowValues, Head(todo) = SaveRow(r, row),
           r \in 1..Len(rows) + 1, r <= MaxRevision, row.supersedes < r,
           r \in DOMAIN rows =>
             /\ row.policy = rows[r].policy /\ row.supersedes = rows[r].supersedes
             /\ row.status # rows[r].status => Later(rows[r].status, row.status),
           row.status = "active" => row.policy.sound /\ row.policy.tools \subseteq registered
    PROVE  /\ Good /\ UNCHANGED <<proposals, current, registered>> /\ todo' = Tail(todo)
           /\ DOMAIN rows' = DOMAIN rows \cup {r} /\ rows'[r] = row
           /\ \A s \in DOMAIN rows \ {r} : rows'[s] = rows[s]
           /\ Len(rows') = IF r = Len(rows) + 1 THEN r ELSE Len(rows)
<1>1. /\ UNCHANGED <<proposals, current, registered>> /\ todo' = Tail(todo)
      /\ rows' = Upsert(r, row)
  BY DEF Write, SaveRow
<1>2. /\ rows' \in Seq(RowValues)
      /\ Len(rows') = IF r = Len(rows) + 1 THEN r ELSE Len(rows)
      /\ rows'[r] = row /\ \A s \in DOMAIN rows \ {r} : rows'[s] = rows[s]
  <2>1. CASE r = Len(rows) + 1
    BY <1>1, <2>1 DEF Upsert, RecordsKept
  <2>2. CASE r # Len(rows) + 1
    BY <1>1, <2>2 DEF Upsert, RecordsKept
  <2>. QED  BY <2>1, <2>2
<1>3. /\ DOMAIN rows = 1..Len(rows) /\ DOMAIN rows' = 1..Len(rows') /\ Len(rows) \in Nat
  BY <1>2 DEF RecordsKept
<1>4. DOMAIN rows' = DOMAIN rows \cup {r}
  BY <1>2, <1>3
<1>5. RecordsKept'
  <2>1. (\A p \in Proposals : Names(proposals[p]))'
    BY <1>1, <1>4 DEF RecordsKept, Names
  <2>2. current' \in 0..Len(rows')
    BY <1>1, <1>2, <1>3 DEF RecordsKept
  <2>3. current' # 0 => rows'[current'].status # "draft"
    BY <1>1, <1>2, <1>3 DEF RecordsKept, Later
  <2>. QED  BY <1>1, <1>2, <2>1, <2>2, <2>3 DEF RecordsKept
<1>6. KeepsHistory
  BY <1>1, <1>2, <1>3, <1>4 DEF KeepsHistory
<1>7. GovernsVerified
  BY <1>1, <1>2, <1>3 DEF GovernsVerified
<1>. QED  BY <1>1, <1>2, <1>4, <1>5, <1>6, <1>7 DEF Good

\* The revision in memory is replaced.
LEMMA WriteMemory ==
    ASSUME RecordsKept, Write, NEW r, Head(todo) = Hold(r), MayHold(r)
    PROVE  Good /\ todo' = Tail(todo) /\ UNCHANGED rows /\ current' = r
<1>1. UNCHANGED <<rows, proposals, registered>> /\ current' = r /\ todo' = Tail(todo)
  BY DEF Write, Hold
<1>2. RecordsKept'
  BY <1>1 DEF RecordsKept, MayHold, Names
<1>. QED  BY <1>1, <1>2 DEF Good, KeepsHistory, GovernsVerified

-----------------------------------------------------------------------------
(* What is left to write after a write *)

\* The row of a revision that is retired, drafted or put in force
LEMMA RetiredRow ==
    ASSUME RecordsKept, current # 0
    PROVE  /\ current \in DOMAIN rows
           /\ [rows[current] EXCEPT !.status = "historical"] \in RowValues
           /\ rows[current].status \in {"active", "historical"}
<1>1. current \in DOMAIN rows /\ rows[current] \in RowValues
  BY DEF RecordsKept
<1>. QED  BY <1>1 DEF RecordsKept, RowValues, Statuses

\* What supersedes the revision in force is a row.
LEMMA NewRow ==
    ASSUME RecordsKept, NEW policy \in Policies, NEW status \in Statuses
    PROVE  Row(status, current, policy) \in RowValues
<1>1. current \in RevisionNumbers
  BY BoundAssumption DEF RecordsKept, RevisionNumbers
<1>. QED  BY <1>1 DEF Row, RowValues

\* The revision in force becomes historical.
LEMMA WriteRetire ==
    ASSUME RecordsKept, current # 0, Write, Head(todo) = Retire
    PROVE  /\ Good /\ UNCHANGED <<proposals, current, registered>> /\ todo' = Tail(todo)
           /\ RowRetired /\ Len(rows') = Len(rows)
           /\ \A s \in DOMAIN rows : rows[s].status = "draft" => rows'[s] = rows[s]
<1>. DEFINE row == [rows[current] EXCEPT !.status = "historical"]
<1>1. /\ current \in DOMAIN rows /\ row \in RowValues /\ rows[current] \in RowValues
      /\ rows[current].status \in {"active", "historical"}
  BY RetiredRow DEF RecordsKept
<1>2. /\ row.status = "historical" /\ row.policy = rows[current].policy
      /\ row.supersedes = rows[current].supersedes
  BY <1>1 DEF RowValues
<1>3. /\ current \in 1..Len(rows) + 1 /\ current # Len(rows) + 1 /\ DOMAIN rows = 1..Len(rows)
      /\ current <= MaxRevision /\ rows[current].supersedes < current
  BY <1>1, BoundAssumption DEF RecordsKept
<1>4. Head(todo) = SaveRow(current, row)
  BY DEF Retire
<1>5. row.status # rows[current].status => Later(rows[current].status, row.status)
  BY <1>1, <1>2 DEF Later
<1>. HIDE DEF row
<1>6. /\ Good /\ UNCHANGED <<proposals, current, registered>> /\ todo' = Tail(todo)
      /\ Len(rows') = Len(rows) /\ \A s \in DOMAIN rows \ {current} : rows'[s] = rows[s]
      /\ rows'[current] = row
  BY <1>1, <1>2, <1>3, <1>4, <1>5, WriteRow
<1>7. DOMAIN rows' = DOMAIN rows
  BY <1>3, <1>6 DEF Good, RecordsKept
<1>8. RowRetired
  BY <1>1, <1>2, <1>6, <1>7 DEF RowRetired
<1>. QED  BY <1>1, <1>6, <1>8

\* A draft comes after the last revision.
LEMMA WriteDraft ==
    ASSUME RecordsKept, current # 0, Write, NEW r, r = Next1, r <= MaxRevision, NEW policy \in Policies,
           Head(todo) = Draft(r, policy)
    PROVE  /\ Good /\ UNCHANGED <<proposals, current, registered>> /\ todo' = Tail(todo)
           /\ r \in DOMAIN rows' /\ rows'[r] = Row("draft", current, policy) /\ RowDrafted(r)
           /\ current \in DOMAIN rows /\ rows'[current] = rows[current]
<1>. DEFINE row == Row("draft", current, policy)
<1>1. row \in RowValues /\ row.status = "draft" /\ row.supersedes = current
  BY NewRow DEF Statuses, Row
<1>2. /\ r \in 1..Len(rows) + 1 /\ r \notin DOMAIN rows /\ current \in DOMAIN rows /\ current < r
      /\ r = Len(rows) + 1 /\ DOMAIN rows = 1..Len(rows)
  BY DEF RecordsKept, Next1
<1>3. Head(todo) = SaveRow(r, row)
  BY DEF Draft
<1>. HIDE DEF row
<1>4. /\ Good /\ UNCHANGED <<proposals, current, registered>> /\ todo' = Tail(todo)
      /\ DOMAIN rows' = DOMAIN rows \cup {r} /\ rows'[r] = row
      /\ \A s \in DOMAIN rows \ {r} : rows'[s] = rows[s]
  BY <1>1, <1>2, <1>3, WriteRow
<1>5. RowDrafted(r)
  BY <1>1, <1>2, <1>4 DEF RowDrafted
<1>. QED  BY <1>2, <1>4, <1>5 DEF row

\* A draft or a new revision becomes active.
LEMMA WriteActivate ==
    ASSUME RecordsKept, current # 0, Write, NEW r, NEW policy, MayActivate(r, policy),
           Head(todo) = Activate(r, policy)
    PROVE  /\ Good /\ UNCHANGED <<proposals, current, registered>> /\ todo' = Tail(todo)
           /\ MayHold(r)' /\ RowActivated(r)
<1>. DEFINE row == Row("active", current, policy)
<1>1. /\ row \in RowValues /\ row.status = "active" /\ row.policy = policy /\ row.supersedes = current
      /\ policy.sound /\ policy.tools \subseteq registered
  BY NewRow DEF MayActivate, Statuses, Row
<1>2. Len(rows) \in Nat /\ DOMAIN rows = 1..Len(rows) /\ Len(rows) <= MaxRevision /\ MaxRevision \in Nat
      /\ current \in 1..Len(rows) /\ \A s \in DOMAIN rows : rows[s].supersedes < s
  BY BoundAssumption DEF RecordsKept
<1>3. /\ r \in 1..Len(rows) + 1 /\ r <= MaxRevision /\ current < r
      /\ r \in DOMAIN rows => /\ rows[r].status = "draft" /\ rows[r].policy = policy
                              /\ rows[r].supersedes = current
  BY <1>2 DEF MayActivate, Next1, Row
<1>4. Head(todo) = SaveRow(r, row)
  BY DEF Activate
<1>5. r \in DOMAIN rows => Later(rows[r].status, row.status)
  BY <1>1, <1>3 DEF Later
<1>. HIDE DEF row
<1>6. /\ Good /\ UNCHANGED <<proposals, current, registered>> /\ todo' = Tail(todo)
      /\ DOMAIN rows' = DOMAIN rows \cup {r} /\ rows'[r] = row
      /\ \A s \in DOMAIN rows \ {r} : rows'[s] = rows[s]
  <2>1. /\ row.supersedes < r
        /\ r \in DOMAIN rows =>
             /\ row.policy = rows[r].policy /\ row.supersedes = rows[r].supersedes
             /\ row.status # rows[r].status => Later(rows[r].status, row.status)
        /\ row.status = "active" => row.policy.sound /\ row.policy.tools \subseteq registered
    BY <1>1, <1>3, <1>5
  <2>2. row \in RowValues /\ r \in 1..Len(rows) + 1 /\ r <= MaxRevision
    BY <1>1, <1>3
  <2>. QED  BY ONLY RecordsKept, Write, <1>4, <2>1, <2>2, WriteRow
<1>7. RowActivated(r)
  BY <1>1, <1>2, <1>3, <1>6 DEF RowActivated
<1>. QED  BY <1>1, <1>6, <1>7 DEF MayHold

\* The draft that is put in force is not the revision that is retired.
LEMMA ActivateAfterRetire ==
    ASSUME RecordsKept, current # 0, NEW r, NEW policy, MayActivate(r, policy),
           UNCHANGED <<current, registered>>, Len(rows') = Len(rows), DOMAIN rows' = DOMAIN rows,
           \A s \in DOMAIN rows : rows[s].status = "draft" => rows'[s] = rows[s]
    PROVE  MayActivate(r, policy)'
<1>1. CASE r = Next1
  BY <1>1 DEF MayActivate, Next1
<1>2. CASE r \in DOMAIN rows /\ rows[r] = Row("draft", current, policy)
  <2>1. rows'[r] = rows[r]
    BY <1>2 DEF Row
  <2>2. Row("draft", current', policy) = Row("draft", current, policy)
    OBVIOUS
  <2>. QED  BY <1>2, <2>1, <2>2 DEF MayActivate
<1>. QED  BY <1>1, <1>2 DEF MayActivate

\* What is approved may be applied, what is proposed approved.
LEMMA ApplyNext ==
    ASSUME NEW p \in Proposals, NEW v \in ProposalValues, v.status = "approved", proposals'[p] = v
    PROVE  MayDecide(p, ApplyOf(v))' /\ ApplyOf(v).revision = v.revision
<1>1. ApplyOf(v) \in ProposalValues /\ ApplyOf(v).status = "applied" /\ ApplyOf(v).revision = v.revision
  BY DEF ApplyOf, ProposalValues
<1>. QED  BY <1>1 DEF MayDecide, Decided, ApplyOf

LEMMA ApproveNext ==
    ASSUME NEW p \in Proposals, NEW v \in ProposalValues, v.status = "proposed", proposals'[p] = v
    PROVE  /\ MayDecide(p, ApproveOf(v))' /\ ApproveOf(v).revision = v.revision
           /\ ApproveOf(v).status = "approved" /\ ApplyOf(ApproveOf(v)) = ApplyOf(v)
<1>1. ApproveOf(v) \in ProposalValues /\ ApproveOf(v).status = "approved" /\ ApproveOf(v).revision = v.revision
  BY DEF ApproveOf, ProposalValues
<1>2. ApplyOf(ApproveOf(v)) = ApplyOf(v)
  BY DEF ApproveOf, ApplyOf, ProposalValues
<1>. QED  BY <1>1, <1>2 DEF MayDecide, Decided

\* Each write leaves what the next one needs, and keeps the history.
LEMMA WriteGoesOn ==
    ASSUME RecordsKept, current # 0, Write
    PROVE  /\ \A p, v : Deciding(p, v) => Good /\ RowsSame /\ todo' = <<>>
           /\ \A p, v, r, policy : Drafting(p, v, r, policy) => Good /\ MemoryStays /\ RowDrafted(r) /\ Deciding(p, v)'
           /\ \A r : Holding(r) => Good /\ UNCHANGED rows /\ current' = r /\ todo' = <<>>
           /\ \A p, v, r : Applying(p, v, r) => Good /\ RowsSame /\ Holding(r)'
           /\ \A p, v, r, policy : Activating(p, v, r, policy) =>
                Good /\ MemoryStays /\ RowActivated(r) /\ Applying(p, v, r)'
           /\ \A p, v, r, policy : Retiring(p, v, r, policy) =>
                Good /\ MemoryStays /\ RowRetired /\ Activating(p, v, r, policy)'
           /\ \A r, policy : ActivatingBack(r, policy) => Good /\ MemoryStays /\ RowActivated(r) /\ Holding(r)'
           /\ \A r, policy : RetiringBack(r, policy) => Good /\ MemoryStays /\ RowRetired /\ ActivatingBack(r, policy)'
           /\ \A p, v, r, policy : SyncApproving(p, v, r, policy) =>
                Good /\ RowsSame /\ Retiring(p, ApplyOf(v), r, policy)'
           /\ \A p, v, r, policy : SyncDrafting(p, v, r, policy) =>
                Good /\ MemoryStays /\ RowDrafted(r) /\ SyncApproving(p, v, r, policy)'
           /\ \A p, v, r, policy : SyncProposing(p, v, r, policy) =>
                Good /\ RowsSame /\ SyncDrafting(p, ApproveOf(v), r, policy)'
<1>. USE DEF RowsSame, MemoryStays
<1>0. RecordsKept /\ current # 0
  OBVIOUS
<1>1. ASSUME NEW p, NEW v, Deciding(p, v) PROVE Good /\ RowsSame /\ todo' = <<>>
  <2>1. Head(todo) = SaveProposal(p, v) /\ Tail(todo) = <<>>
    BY <1>1, Tails DEF Deciding
  <2>. QED  BY <1>0, <1>1, <2>1, WriteProposal DEF Deciding
<1>2. ASSUME NEW p, NEW v, NEW r, NEW policy, Drafting(p, v, r, policy)
      PROVE  Good /\ MemoryStays /\ RowDrafted(r) /\ Deciding(p, v)'
  <2>1. Head(todo) = Draft(r, policy) /\ Tail(todo) = <<SaveProposal(p, v)>>
    BY <1>2, Tails DEF Drafting
  <2>2. Good /\ UNCHANGED <<proposals, current>> /\ todo' = Tail(todo) /\ r \in DOMAIN rows' /\ RowDrafted(r)
    BY <1>0, <1>2, <2>1, WriteDraft DEF Drafting
  <2>3. MayDecide(p, v)' /\ Names(v)'
    BY <1>2, <2>2 DEF Drafting, MayDecide, Names
  <2>. QED  BY <1>0, <2>1, <2>2, <2>3 DEF Deciding
<1>3. ASSUME NEW r, Holding(r) PROVE Good /\ UNCHANGED rows /\ current' = r /\ todo' = <<>>
  <2>1. Head(todo) = Hold(r) /\ Tail(todo) = <<>>
    BY <1>3, Tails DEF Holding
  <2>. QED  BY <1>0, <1>3, <2>1, WriteMemory DEF Holding
<1>4. ASSUME NEW p, NEW v, NEW r, Applying(p, v, r) PROVE Good /\ RowsSame /\ Holding(r)'
  <2>1. Head(todo) = SaveProposal(p, v) /\ Tail(todo) = <<Hold(r)>>
    BY <1>4, Tails DEF Applying
  <2>2. Good /\ UNCHANGED <<rows, current>> /\ todo' = Tail(todo)
    BY <1>0, <1>4, <2>1, WriteProposal DEF Applying
  <2>. QED  BY <1>0, <1>4, <2>1, <2>2 DEF Applying, Holding, MayHold
<1>5. ASSUME NEW p, NEW v, NEW r, NEW policy, Activating(p, v, r, policy)
      PROVE  Good /\ MemoryStays /\ RowActivated(r) /\ Applying(p, v, r)'
  <2>1. Head(todo) = Activate(r, policy) /\ Tail(todo) = <<SaveProposal(p, v), Hold(r)>>
    BY <1>5, Tails DEF Activating
  <2>2. Good /\ UNCHANGED <<proposals, current>> /\ todo' = Tail(todo) /\ MayHold(r)' /\ RowActivated(r)
    BY <1>0, <1>5, <2>1, WriteActivate DEF Activating
  <2>3. MayDecide(p, v)' /\ Names(v)'
    BY <1>5, <2>2 DEF Activating, MayDecide, Names, MayHold
  <2>. QED  BY <1>0, <2>1, <2>2, <2>3 DEF Applying
<1>6. ASSUME NEW p, NEW v, NEW r, NEW policy, Retiring(p, v, r, policy)
      PROVE  Good /\ MemoryStays /\ RowRetired /\ Activating(p, v, r, policy)'
  <2>1. /\ Head(todo) = Retire
        /\ Tail(todo) = <<Activate(r, policy), SaveProposal(p, v), Hold(r)>>
    BY <1>6, Tails DEF Retiring
  <2>2. /\ Good /\ UNCHANGED <<proposals, current, registered>> /\ todo' = Tail(todo)
        /\ MayActivate(r, policy)' /\ RowRetired
    BY <1>0, <1>6, <2>1, WriteRetire, ActivateAfterRetire DEF Retiring, RowRetired
  <2>3. MayDecide(p, v)' /\ Activate(r, policy)' = Activate(r, policy)
    BY <1>6, <2>2 DEF Retiring, MayDecide, Activate, Row
  <2>. QED  BY <1>0, <1>6, <2>1, <2>2, <2>3 DEF Retiring, Activating
<1>7. ASSUME NEW r, NEW policy, ActivatingBack(r, policy) PROVE Good /\ MemoryStays /\ RowActivated(r) /\ Holding(r)'
  <2>1. Head(todo) = Activate(r, policy) /\ Tail(todo) = <<Hold(r)>>
    BY <1>7, Tails DEF ActivatingBack
  <2>2. Good /\ UNCHANGED current /\ todo' = Tail(todo) /\ MayHold(r)' /\ RowActivated(r)
    BY <1>0, <1>7, <2>1, WriteActivate DEF ActivatingBack
  <2>. QED  BY <1>0, <2>1, <2>2 DEF Holding
<1>8. ASSUME NEW r, NEW policy, RetiringBack(r, policy)
      PROVE  Good /\ MemoryStays /\ RowRetired /\ ActivatingBack(r, policy)'
  <2>1. Head(todo) = Retire /\ Tail(todo) = <<Activate(r, policy), Hold(r)>>
    BY <1>8, Tails DEF RetiringBack
  <2>2. /\ Good /\ UNCHANGED current /\ todo' = Tail(todo) /\ MayActivate(r, policy)' /\ RowRetired
    BY <1>0, <1>8, <2>1, WriteRetire, ActivateAfterRetire DEF RetiringBack, RowRetired
  <2>3. Activate(r, policy)' = Activate(r, policy)
    BY <2>2 DEF Activate, Row
  <2>. QED  BY <1>0, <2>1, <2>2, <2>3 DEF ActivatingBack
<1>9. ASSUME NEW p, NEW v, NEW r, NEW policy, SyncApproving(p, v, r, policy)
      PROVE  Good /\ RowsSame /\ Retiring(p, ApplyOf(v), r, policy)'
  <2>1. /\ Head(todo) = SaveProposal(p, v)
        /\ Tail(todo) = <<Retire, Activate(r, policy), SaveProposal(p, ApplyOf(v)), Hold(r)>>
    BY <1>9, Tails DEF SyncApproving
  <2>2. /\ Good /\ UNCHANGED <<rows, current, registered>> /\ todo' = Tail(todo)
        /\ proposals'[p] = v
    BY <1>0, <1>9, <2>1, WriteProposal DEF SyncApproving, Names
  <2>3. MayDecide(p, ApplyOf(v))' /\ ApplyOf(v).revision = r
    BY <1>9, <2>2, ApplyNext DEF SyncApproving, MayDecide
  <2>4. MayActivate(r, policy)' /\ Retire' = Retire /\ Activate(r, policy)' = Activate(r, policy)
    BY <1>9, <2>2 DEF SyncApproving, MayActivate, Next1, Retire, Activate, Row
  <2>. QED  BY <1>0, <2>1, <2>2, <2>3, <2>4 DEF Retiring
<1>10. ASSUME NEW p, NEW v, NEW r, NEW policy, SyncDrafting(p, v, r, policy)
       PROVE  Good /\ MemoryStays /\ RowDrafted(r) /\ SyncApproving(p, v, r, policy)'
  <2>1. /\ Head(todo) = Draft(r, policy)
        /\ Tail(todo) = <<SaveProposal(p, v), Retire, Activate(r, policy),
                          SaveProposal(p, ApplyOf(v)), Hold(r)>>
    BY <1>10, Tails DEF SyncDrafting
  <2>2. /\ Good /\ UNCHANGED <<proposals, current, registered>> /\ todo' = Tail(todo)
        /\ r \in DOMAIN rows' /\ rows'[r] = Row("draft", current, policy)
        /\ rows'[current] = rows[current] /\ RowDrafted(r)
    <3>1. r = Next1 /\ r \notin DOMAIN rows
      BY <1>10 DEF SyncDrafting, Next1, RecordsKept
    <3>2. r <= MaxRevision /\ policy \in Policies
      BY <1>10, <3>1 DEF SyncDrafting, MayActivate
    <3>. QED  BY <1>0, <2>1, <3>1, <3>2, WriteDraft
  <2>3. MayDecide(p, v)' /\ Retire' = Retire /\ Activate(r, policy)' = Activate(r, policy)
    BY <1>10, <2>2 DEF SyncDrafting, MayDecide, Retire, Activate, Row
  <2>4. MayActivate(r, policy)'
    BY <1>10, <2>2 DEF SyncDrafting, MayActivate, Row
  <2>. QED  BY <1>0, <1>10, <2>1, <2>2, <2>3, <2>4 DEF SyncDrafting, SyncApproving
<1>11. ASSUME NEW p, NEW v, NEW r, NEW policy, SyncProposing(p, v, r, policy)
       PROVE  Good /\ RowsSame /\ SyncDrafting(p, ApproveOf(v), r, policy)'
  <2>1. /\ Head(todo) = SaveProposal(p, v)
        /\ Tail(todo) = <<Draft(r, policy), SaveProposal(p, ApproveOf(v)), Retire, Activate(r, policy),
                          SaveProposal(p, ApplyOf(v)), Hold(r)>>
    BY <1>11, Tails DEF SyncProposing
  <2>2. /\ Good /\ UNCHANGED <<rows, current, registered>> /\ todo' = Tail(todo)
        /\ proposals'[p] = v
    BY <1>0, <1>11, <2>1, WriteProposal DEF SyncProposing, Names
  <2>3. /\ MayDecide(p, ApproveOf(v))' /\ ApproveOf(v).revision = r
        /\ ApproveOf(v).status = "approved" /\ ApplyOf(ApproveOf(v)) = ApplyOf(v)
    BY <1>11, <2>2, ApproveNext DEF SyncProposing, MayDecide
  <2>4. /\ MayActivate(r, policy)' /\ Retire' = Retire /\ Activate(r, policy)' = Activate(r, policy)
        /\ Draft(r, policy)' = Draft(r, policy) /\ r = Next1'
    BY <1>11, <2>2 DEF SyncProposing, MayActivate, Next1, Retire, Activate, Draft, Row
  <2>. QED  BY <1>0, <2>1, <2>2, <2>3, <2>4 DEF SyncDrafting
<1>. QED  BY <1>1, <1>2, <1>3, <1>4, <1>5, <1>6, <1>7, <1>8, <1>9, <1>10, <1>11

-----------------------------------------------------------------------------
(* The line of what governed *)

\* Nothing of this changes while the rows stay.
LEMMA LineSame ==
    ASSUME UNCHANGED rows
    PROVE  /\ Governed' = Governed /\ ActiveRows' = ActiveRows /\ (OneLine => OneLine')
           /\ \A r : Newest(r) => Newest(r)'
BY DEF Governed, ActiveRows, OneLine, Newest

\* A draft has not governed.
LEMMA LineDrafts ==
    ASSUME NEW r, RowDrafted(r), OneLine
    PROVE  /\ ActiveRows' = ActiveRows /\ OneLine' /\ \A s : Newest(s) => Newest(s)'
<1>1. Governed' = Governed /\ ActiveRows' = ActiveRows
  BY DEF RowDrafted, Governed, ActiveRows
<1>2. \A s \in Governed : rows'[s] = rows[s]
  BY DEF RowDrafted, Governed
<1>. QED  BY <1>1, <1>2 DEF OneLine, Newest

\* What is retired has governed, and stays where it is in the line.
LEMMA LineRetires ==
    ASSUME RowRetired, OneLine, ActiveRows = {current}
    PROVE  /\ ActiveRows' = {} /\ OneLine' /\ \A s : Newest(s) => Newest(s)'
<1>1. current \in Governed /\ Governed' = Governed
  BY DEF RowRetired, Governed, ActiveRows
<1>2. ActiveRows' = {}
  BY DEF RowRetired, ActiveRows
<1>3. \A s \in Governed : rows'[s].supersedes = rows[s].supersedes
  BY DEF RowRetired, Governed
<1>. QED  BY <1>1, <1>2, <1>3 DEF OneLine, Newest

\* What comes into force continues the line at its end.
LEMMA LineActivates ==
    ASSUME RecordsKept, current # 0, NEW r, RowActivated(r), OneLine, ActiveRows = {}, Newest(current)
    PROVE  ActiveRows' = {r} /\ OneLine' /\ Newest(r)'
<1>1. Governed' = Governed \cup {r} /\ r \notin Governed /\ ActiveRows' = {r}
  BY DEF RowActivated, Governed, ActiveRows
<1>2. rows'[r].supersedes = current /\ \A s \in Governed : rows'[s] = rows[s]
  BY <1>1 DEF RowActivated, Governed
<1>3. \A s \in Governed : rows[s].supersedes # r
  <2>1. ASSUME NEW s \in Governed, rows[s].supersedes = r PROVE FALSE
    <3>1. s # 1
      <4>1. r \in Nat /\ r > 0
        BY DEF RowActivated, RecordsKept
      <4>2. rows[s].supersedes < s
        BY DEF RecordsKept, Governed
      <4>. QED  BY <2>1, <4>1, <4>2
    <3>. QED  BY <1>1, <2>1, <3>1 DEF OneLine
  <2>. QED  BY <2>1
<1>4. current # r /\ current \in Governed /\ current < r
  BY DEF RowActivated, Newest
<1>5. OneLine'
  <2>1. ASSUME NEW s \in Governed \cup {r}, s # 1
        PROVE  rows'[s].supersedes \in Governed /\ rows'[s].supersedes < s
    BY <1>2, <1>4, <2>1 DEF OneLine
  <2>2. ASSUME NEW s \in Governed \cup {r}, NEW t \in Governed \cup {r}, rows'[s].supersedes = rows'[t].supersedes
        PROVE  s = t
    BY <1>2, <2>2 DEF OneLine, Newest
  <2>. QED  BY <1>1, <2>1, <2>2 DEF OneLine
<1>6. Newest(r)'
  BY <1>1, <1>2, <1>3, <1>4 DEF Newest
<1>. QED  BY <1>1, <1>5, <1>6

\* Each write takes the line on.
LEMMA WriteLine ==
    ASSUME RecordsKept, current # 0, Write, todo # <<>>, Line, current' # 0
    PROVE  Line'
<1>. USE DEF RowsSame, MemoryStays
<1>0. OneLine /\ \A r \in ActiveRows : Newest(r)
  BY DEF Line
<1>1. ASSUME ActiveRows = {current}, RowsSame, todo' = <<>> \/ Untouched' PROVE Line'
  BY <1>0, <1>1, LineSame DEF Line
<1>2. ASSUME ActiveRows = {current}, NEW r, RowDrafted(r), MemoryStays, Untouched' PROVE Line'
  BY <1>0, <1>2, LineDrafts DEF Line
<1>3. ASSUME ActiveRows = {current}, MemoryStays, RowRetired, Between' PROVE Line'
  BY <1>0, <1>3, LineRetires DEF Line
<1>4. ASSUME ActiveRows = {}, Newest(current), NEW r, MemoryStays, RowActivated(r), Replaced(r)' PROVE Line'
  BY <1>0, <1>4, LineActivates DEF Line
<1>5. ASSUME Untouched, ActiveRows = {current} PROVE Line'
  <2>1. ASSUME NEW p, NEW v, Deciding(p, v) PROVE Line'
    BY <1>1, <1>5, <2>1, WriteGoesOn
  <2>2. ASSUME NEW p, NEW v, NEW r, NEW policy, Drafting(p, v, r, policy) PROVE Line'
    BY <1>2, <1>5, <2>2, WriteGoesOn DEF Untouched
  <2>3. ASSUME NEW p, NEW v, NEW r, NEW policy, Retiring(p, v, r, policy) PROVE Line'
    BY <1>3, <1>5, <2>3, WriteGoesOn DEF Between
  <2>4. ASSUME NEW r, NEW policy, RetiringBack(r, policy) PROVE Line'
    BY <1>3, <1>5, <2>4, WriteGoesOn DEF Between
  <2>5. ASSUME NEW p, NEW v, NEW r, NEW policy, SyncApproving(p, v, r, policy) PROVE Line'
    <3>1. RowsSame /\ Retiring(p, ApplyOf(v), r, policy)'
      BY <2>5, WriteGoesOn
    <3>2. Untouched'
      BY <3>1 DEF Untouched
    <3>. QED  BY <1>1, <1>5, <3>1, <3>2
  <2>6. ASSUME NEW p, NEW v, NEW r, NEW policy, SyncDrafting(p, v, r, policy) PROVE Line'
    BY <1>2, <1>5, <2>6, WriteGoesOn DEF Untouched
  <2>7. ASSUME NEW p, NEW v, NEW r, NEW policy, SyncProposing(p, v, r, policy) PROVE Line'
    <3>1. RowsSame /\ SyncDrafting(p, ApproveOf(v), r, policy)'
      BY <2>7, WriteGoesOn
    <3>2. Untouched'
      BY <3>1 DEF Untouched
    <3>. QED  BY <1>1, <1>5, <3>1, <3>2
  <2>. QED  BY <1>5, <2>1, <2>2, <2>3, <2>4, <2>5, <2>6, <2>7 DEF Untouched
<1>6. ASSUME Between, ActiveRows = {}, Newest(current) PROVE Line'
  <2>1. ASSUME NEW p, NEW v, NEW r, NEW policy, Activating(p, v, r, policy) PROVE Line'
    BY <1>4, <1>6, <2>1, WriteGoesOn DEF Replaced
  <2>2. ASSUME NEW r, NEW policy, ActivatingBack(r, policy) PROVE Line'
    BY <1>4, <1>6, <2>2, WriteGoesOn DEF Replaced
  <2>. QED  BY <1>6, <2>1, <2>2 DEF Between
<1>7. ASSUME NEW r, Replaced(r), ActiveRows = {r} PROVE Line'
  <2>1. CASE Holding(r)
    <3>1. UNCHANGED rows /\ current' = r /\ todo' = <<>>
      BY <2>1, WriteGoesOn
    <3>. QED  BY <1>0, <1>7, <3>1, LineSame DEF Line
  <2>2. ASSUME NEW p, NEW v, Applying(p, v, r) PROVE Line'
    <3>1. RowsSame /\ Replaced(r)'
      BY <2>2, WriteGoesOn DEF Replaced
    <3>. QED  BY <1>0, <1>7, <3>1, LineSame DEF Line
  <2>. QED  BY <1>7, <2>1, <2>2 DEF Replaced
<1>. QED  BY <1>5, <1>6, <1>7 DEF Line

\* So every write keeps the invariant and the history.
LEMMA WriteKeeps ==
    ASSUME GovernanceInv, Write
    PROVE  GovernanceInv' /\ KeepsHistory /\ GovernsVerified
<1>1. RecordsKept /\ current # 0 /\ Pending /\ todo # <<>> /\ UNCHANGED <<crashes, failures>>
  BY DEF Write, GovernanceInv
<1>2. Good /\ (todo' = <<>> \/ Pending') /\ current' # 0
  <2>. USE DEF RowsSame, MemoryStays
  <2>1. Untouched => Good /\ (todo' = <<>> \/ Pending') /\ current' # 0
    BY <1>1, WriteGoesOn DEF Untouched, Between, Pending
  <2>2. Between => Good /\ Pending' /\ current' # 0
    BY <1>1, WriteGoesOn DEF Between, Replaced, Pending
  <2>3. ASSUME NEW r, Replaced(r) PROVE Good /\ (todo' = <<>> \/ Pending') /\ current' # 0
    BY <1>1, <2>3, WriteGoesOn DEF Replaced, Pending, Holding, MayHold, RecordsKept
  <2>. QED  BY <1>1, <2>1, <2>2, <2>3 DEF Pending
<1>3. failures' = 0 => Line'
  BY <1>1, <1>2, WriteLine DEF GovernanceInv
<1>. QED  BY <1>1, <1>2, <1>3 DEF Good, GovernanceInv

-----------------------------------------------------------------------------
(* Requests, refusals, deaths and starts *)

\* A request that has nothing left to write is not half way.
LEMMA NothingPending == todo = <<>> => ~Between /\ \A r : ~Replaced(r)
BY DEF Between, Replaced, Activating, ActivatingBack, Holding, Applying

\* A request only says what it will write.
LEMMA RequestKeeps ==
    ASSUME GovernanceInv, NEW writes, Request(writes), Untouched' \/ \E r \in ActiveRows : Replaced(r)'
    PROVE  GovernanceInv' /\ KeepsHistory /\ GovernsVerified
<1>1. /\ UNCHANGED <<rows, proposals, current, registered, crashes, failures>> /\ current # 0 /\ todo = <<>>
  BY DEF Request, Ready
<1>2. RecordsKept'
  BY <1>1 DEF GovernanceInv, RecordsKept, Names
<1>3. Pending'
  BY DEF Pending
<1>4. failures' = 0 => Line'
  <2>. SUFFICES ASSUME failures = 0 PROVE Line'
    BY <1>1
  <2>1. OneLine /\ (\A r \in ActiveRows : Newest(r)) /\ ActiveRows = {current}
    BY <1>1, NothingPending DEF GovernanceInv, Line
  <2>. QED  BY <1>1, <2>1, LineSame DEF Line
<1>. QED  BY <1>1, <1>2, <1>3, <1>4 DEF GovernanceInv, KeepsHistory, GovernsVerified

\* The next number is after the last one.
LEMMA NewRevision == RecordsKept => Next1 = NextRevision /\ Next1 \in Nat /\ DOMAIN rows = 1..Len(rows)
BY DEF RecordsKept, Next1, NextRevision

\* A step that leaves the records alone leaves alone what is said of them.
LEMMA Steady ==
    ASSUME UNCHANGED <<rows, proposals, current, registered>>,
           NEW p, NEW v, NEW r, NEW policy
    PROVE  /\ MayDecide(p, v) => MayDecide(p, v)'
           /\ Names(v) => Names(v)'
           /\ MayHold(r) => MayHold(r)'
           /\ MayActivate(r, policy) => MayActivate(r, policy)'
           /\ Next1' = Next1 /\ Retire' = Retire
           /\ Activate(r, policy)' = Activate(r, policy) /\ Draft(r, policy)' = Draft(r, policy)
<1>1. MayDecide(p, v) => MayDecide(p, v)'
  BY DEF MayDecide
<1>2. Names(v) => Names(v)'
  BY DEF Names
<1>3. MayHold(r) => MayHold(r)'
  BY DEF MayHold
<1>4. Next1' = Next1
  BY DEF Next1
<1>5. MayActivate(r, policy) => MayActivate(r, policy)'
  <2>1. Row("draft", current, policy)' = Row("draft", current, policy)
    BY DEF Row
  <2>. QED  BY <1>4, <2>1 DEF MayActivate
<1>6. Retire' = Retire /\ Activate(r, policy)' = Activate(r, policy) /\ Draft(r, policy)' = Draft(r, policy)
  BY DEF Retire, Activate, Draft, Row
<1>. QED  BY <1>1, <1>2, <1>3, <1>4, <1>5, <1>6

\* What a request has checked is what its writes need.
LEMMA RequestsHold ==
    ASSUME GovernanceInv
    PROVE  /\ \A p \in Proposals, r \in 1..MaxRevision : Propose(p, r) => Untouched'
           /\ \A p \in Proposals : Reject(p) \/ ToolSync(p) => Untouched'
           /\ \A p \in Proposals : Apply(p) => Untouched' \/ \E r \in ActiveRows : Replaced(r)'
           /\ \A p \in Proposals, policy \in Policies : Approve(p, policy) => Untouched'
           /\ \A target \in 1..MaxRevision : Rollback(target) => Untouched'
<1>. USE NewRevision DEF GovernanceInv
<1>1. ASSUME NEW p \in Proposals, NEW r \in 1..MaxRevision, Propose(p, r) PROVE Untouched'
  <2>1. PICK v : v = [NoProposal EXCEPT !.status = "proposed", !.from = r]
    OBVIOUS
  <2>2. UNCHANGED <<rows, proposals, current, registered>> /\ todo' = <<SaveProposal(p, v)>>
    BY <1>1, <2>1 DEF Propose, Request
  <2>3. r \in RevisionNumbers /\ 0 \in RevisionNumbers /\ proposals[p].status = "none"
    BY <1>1, BoundAssumption DEF Propose, NoProposal, RevisionNumbers
  <2>4. v \in ProposalValues /\ v.status = "proposed"
    BY <2>1, <2>3 DEF NoProposal, ProposalValues
  <2>5. MayDecide(p, v) /\ Names(v)
    BY <2>3, <2>4 DEF MayDecide, Names, Decided
  <2>6. Deciding(p, v)'
    BY <2>2, <2>5, Steady DEF Deciding
  <2>. QED  BY <2>6 DEF Untouched
<1>2. ASSUME NEW p \in Proposals, Reject(p) PROVE Untouched'
  <2>1. PICK v : v = [proposals[p] EXCEPT !.status = "rejected"]
    OBVIOUS
  <2>2. UNCHANGED <<rows, proposals, current, registered>> /\ todo' = <<SaveProposal(p, v)>>
    BY <1>2, <2>1 DEF Reject, Request
  <2>3. v \in ProposalValues /\ v.status = "rejected" /\ proposals[p].status = "proposed"
    BY <1>2, <2>1 DEF Reject, RecordsKept, ProposalValues
  <2>4. MayDecide(p, v) /\ Names(v)
    BY <2>3 DEF MayDecide, Names, Decided
  <2>5. Deciding(p, v)'
    BY <2>2, <2>4, Steady DEF Deciding
  <2>. QED  BY <2>5 DEF Untouched
<1>3. ASSUME NEW p \in Proposals, NEW policy \in Policies, Approve(p, policy) PROVE Untouched'
  <2>1. PICK r : r = NextRevision
    OBVIOUS
  <2>2. PICK v : v = [proposals[p] EXCEPT !.status = "approved", !.revision = r]
    OBVIOUS
  <2>3. /\ UNCHANGED <<rows, proposals, current, registered>>
        /\ todo' = <<Draft(r, policy), SaveProposal(p, v)>>
    BY <1>3, <2>1, <2>2 DEF Approve, Request
  <2>4. /\ v \in ProposalValues /\ v.status = "approved" /\ v.revision = r
        /\ proposals[p].status = "proposed" /\ r = Next1 /\ r <= MaxRevision
    <3>1. r \in RevisionNumbers /\ r = Next1 /\ r <= MaxRevision
      BY <1>3, <2>1, BoundAssumption DEF Approve, RevisionNumbers
    <3>2. proposals[p] \in ProposalValues /\ proposals[p].status = "proposed"
      BY <1>3 DEF Approve, RecordsKept
    <3>. QED  BY <2>2, <3>1, <3>2 DEF ProposalValues
  <2>5. MayDecide(p, v)
    BY <2>4 DEF MayDecide, Decided
  <2>6. MayDecide(p, v)' /\ r = Next1' /\ Draft(r, policy)' = Draft(r, policy)
    BY <2>3, <2>4, <2>5, Steady
  <2>7. Drafting(p, v, r, policy)'
    BY <2>3, <2>4, <2>6 DEF Drafting
  <2>. QED  BY <2>7 DEF Untouched
<1>4. ASSUME NEW p \in Proposals, Apply(p) PROVE Untouched' \/ \E r \in ActiveRows : Replaced(r)'
  <2>1. PICK r, v : r = proposals[p].revision /\ v = ApplyOf(proposals[p])
    OBVIOUS
  <2>2. CASE /\ proposals[p].status = "approved" /\ rows[r].status = "draft" /\ rows[r].supersedes = current
             /\ Verified(rows[r].policy)
             /\ Request(<<Retire, Activate(r, rows[r].policy), SaveProposal(p, v), Hold(r)>>)
    <3>1. PICK policy : policy = rows[r].policy
      OBVIOUS
    <3>2. /\ UNCHANGED <<rows, proposals, current, registered>>
          /\ todo' = <<Retire, Activate(r, policy), SaveProposal(p, v), Hold(r)>>
      BY <2>2, <3>1 DEF Request
    <3>3. v \in ProposalValues /\ v.status = "applied" /\ v.revision = r
      BY <2>1 DEF RecordsKept, ProposalValues, ApplyOf
    <3>4. r \in DOMAIN rows /\ rows[r] \in RowValues
      BY <2>1, <2>2 DEF RecordsKept, Names
    <3>5. rows[r] = Row("draft", current, policy) /\ policy \in Policies
      BY <2>2, <3>1, <3>4 DEF RowValues, Row
    <3>6. policy.sound /\ policy.tools \subseteq registered
      BY <2>2, <3>1 DEF Verified
    <3>7. MayActivate(r, policy)
      BY <3>4, <3>5, <3>6 DEF MayActivate
    <3>8. MayDecide(p, v)
      BY <2>1, <2>2, <3>3 DEF MayDecide, Decided, ApplyOf
    <3>9. /\ MayDecide(p, v)' /\ MayActivate(r, policy)' /\ Retire' = Retire
          /\ Activate(r, policy)' = Activate(r, policy)
      BY <3>2, <3>7, <3>8, Steady
    <3>10. Retiring(p, v, r, policy)'
      BY <3>2, <3>3, <3>9 DEF Retiring
    <3>. QED  BY <3>10 DEF Untouched
  <2>3. CASE /\ proposals[p].status = "applied" /\ rows[r].status = "active" /\ Request(<<Hold(r)>>)
    <3>1. MayHold(r)
      BY <2>1, <2>3 DEF MayHold, RecordsKept, Names
    <3>2. UNCHANGED <<rows, proposals, current, registered>> /\ todo' = <<Hold(r)>>
      BY <2>3 DEF Request
    <3>3. Holding(r)'
      BY <3>1, <3>2, Steady DEF Holding
    <3>. QED  BY <2>1, <2>3, <3>1, <3>3 DEF Replaced, ActiveRows, MayHold
  <2>. QED  BY <1>4, <2>1, <2>2, <2>3 DEF Apply, ApplyOf
<1>5. ASSUME NEW p \in Proposals, ToolSync(p) PROVE Untouched'
  <2>1. PICK r, policy :
          /\ r = NextRevision
          /\ policy = [tools |-> rows[current].policy.tools \cup registered,
                       sound |-> rows[current].policy.sound]
    OBVIOUS
  <2>2. PICK v : v = [status |-> "proposed", from |-> current, revision |-> r]
    OBVIOUS
  <2>3. /\ UNCHANGED <<rows, proposals, current, registered>> /\ current # 0
        /\ todo' = <<SaveProposal(p, v), Draft(r, policy), SaveProposal(p, ApproveOf(v)), Retire,
                     Activate(r, policy), SaveProposal(p, ApplyOf(v)), Hold(r)>>
    BY <1>5, <2>1, <2>2 DEF ToolSync, Request, Ready, ApproveOf, ApplyOf
  <2>4. proposals[p] = NoProposal /\ policy.sound /\ policy.tools \subseteq registered
    BY <1>5, <2>1 DEF ToolSync, Verified
  <2>5. v \in ProposalValues /\ v.status = "proposed" /\ v.revision = r /\ proposals[p].status = "none"
    <3>1. r \in RevisionNumbers /\ current \in RevisionNumbers
      BY <1>5, <2>1, BoundAssumption DEF ToolSync, RevisionNumbers, RecordsKept
    <3>. QED  BY <2>2, <2>4, <3>1 DEF ProposalValues, NoProposal
  <2>6. policy \in Policies
    <3>1. rows[current] \in RowValues
      BY <2>3 DEF RecordsKept
    <3>. QED  BY <2>1, <3>1 DEF RowValues, Policies, RecordsKept
  <2>7. MayActivate(r, policy) /\ r = Next1
    BY <1>5, <2>1, <2>4, <2>6 DEF MayActivate, ToolSync
  <2>8. MayDecide(p, v)
    BY <2>5 DEF MayDecide, Decided
  <2>9. /\ MayDecide(p, v)' /\ MayActivate(r, policy)' /\ r = Next1' /\ Retire' = Retire
        /\ Activate(r, policy)' = Activate(r, policy) /\ Draft(r, policy)' = Draft(r, policy)
    BY <2>3, <2>7, <2>8, Steady
  <2>10. SyncProposing(p, v, r, policy)'
    BY <2>3, <2>5, <2>9 DEF SyncProposing
  <2>. QED  BY <2>10 DEF Untouched
<1>6. ASSUME NEW target \in 1..MaxRevision, Rollback(target) PROVE Untouched'
  <2>1. PICK r, policy : r = NextRevision /\ policy = rows[target].policy
    OBVIOUS
  <2>2. /\ UNCHANGED <<rows, proposals, current, registered>>
        /\ todo' = <<Retire, Activate(r, policy), Hold(r)>>
        /\ policy.sound /\ policy.tools \subseteq registered /\ target \in DOMAIN rows
    BY <1>6, <2>1 DEF Rollback, Request, Verified
  <2>3. rows[target] \in RowValues
    BY <2>2 DEF RecordsKept
  <2>4. MayActivate(r, policy)
    BY <1>6, <2>1, <2>2, <2>3 DEF MayActivate, RowValues, Rollback
  <2>5. /\ MayActivate(r, policy)' /\ Retire' = Retire
        /\ Activate(r, policy)' = Activate(r, policy)
    BY <2>2, <2>4, Steady
  <2>6. RetiringBack(r, policy)'
    BY <2>2, <2>5 DEF RetiringBack
  <2>. QED  BY <2>6 DEF Untouched
<1>. QED  BY <1>1, <1>2, <1>3, <1>4, <1>5, <1>6

\* A step of another part leaves requests where they are.
LEMMA PendingStays ==
    ASSUME UNCHANGED <<rows, proposals, current, registered, todo>>
    PROVE  /\ Untouched => Untouched'
           /\ Between => Between'
           /\ \A r : Replaced(r) => Replaced(r)'
           /\ Pending => Pending'
           /\ Line => Line'
<1>1. \A p, v : Deciding(p, v) => Deciding(p, v)'
  BY Steady DEF Deciding
<1>2. \A p, v, r, policy : Drafting(p, v, r, policy) => Drafting(p, v, r, policy)'
  BY Steady DEF Drafting
<1>3. \A r : Holding(r) => Holding(r)'
  BY Steady DEF Holding
<1>4. \A p, v, r : Applying(p, v, r) => Applying(p, v, r)'
  BY Steady DEF Applying
<1>5. \A p, v, r, policy : Activating(p, v, r, policy) => Activating(p, v, r, policy)'
  BY Steady DEF Activating
<1>6. \A p, v, r, policy : Retiring(p, v, r, policy) => Retiring(p, v, r, policy)'
  BY Steady DEF Retiring
<1>7. \A r, policy : ActivatingBack(r, policy) => ActivatingBack(r, policy)'
  BY Steady DEF ActivatingBack
<1>8. \A r, policy : RetiringBack(r, policy) => RetiringBack(r, policy)'
  BY Steady DEF RetiringBack
<1>9. \A p, v, r, policy : SyncApproving(p, v, r, policy) => SyncApproving(p, v, r, policy)'
  BY Steady DEF SyncApproving
<1>10. \A p, v, r, policy : SyncDrafting(p, v, r, policy) => SyncDrafting(p, v, r, policy)'
  BY Steady DEF SyncDrafting
<1>11. \A p, v, r, policy : SyncProposing(p, v, r, policy) => SyncProposing(p, v, r, policy)'
  BY Steady DEF SyncProposing
<1>12. Untouched => Untouched'
  BY <1>1, <1>2, <1>6, <1>8, <1>9, <1>10, <1>11 DEF Untouched
<1>13. (Between => Between') /\ \A r : Replaced(r) => Replaced(r)'
  BY <1>3, <1>4, <1>5, <1>7 DEF Between, Replaced
<1>14. Line => Line'
  BY <1>12, <1>13, LineSame DEF Line
<1>. QED  BY <1>12, <1>13, <1>14 DEF Pending

\* The invariant holds at first and over every step.
LEMMA GovernanceInvInit == Init => GovernanceInv
<1>. SUFFICES ASSUME Init PROVE GovernanceInv
  OBVIOUS
<1>1. RecordsKept
  BY BoundAssumption DEF Init, RecordsKept, Names, NoProposal, ProposalValues, RevisionNumbers
<1>2. Line
  BY DEF Init, Line, OneLine, Governed, ActiveRows
<1>. QED  BY <1>1, <1>2, BoundAssumption DEF Init, GovernanceInv

\* Deaths and refused writes leave the records; after a refused write nothing
\* is said of the line.
LEMMA LossKeeps ==
    ASSUME GovernanceInv, WriteFails \/ Crash
    PROVE  GovernanceInv' /\ KeepsHistory /\ GovernsVerified
<1>1. UNCHANGED <<rows, proposals, registered>> /\ (current' = current \/ current' = 0) /\ todo' = <<>>
  BY DEF WriteFails, Crash
<1>2. RecordsKept'
  BY <1>1 DEF GovernanceInv, RecordsKept, Names
<1>3. crashes' \in 0..MaxCrashes /\ failures' \in 0..MaxFailures
  BY BoundAssumption DEF GovernanceInv, WriteFails, Crash
<1>4. failures' = 0 => Line'
  <2>. SUFFICES ASSUME failures' = 0 PROVE Line'
    OBVIOUS
  <2>1. Crash
    BY DEF WriteFails, GovernanceInv
  <2>2. failures = 0 /\ current' = 0
    BY <2>1 DEF Crash
  <2>. QED  BY <1>1, <2>2, LineSame DEF Line, GovernanceInv
<1>. QED  BY <1>1, <1>2, <1>3, <1>4 DEF GovernanceInv, KeepsHistory, GovernsVerified

\* A start takes up the one revision that is active, or writes the first.
LEMMA StartKeeps ==
    ASSUME GovernanceInv, NEW tools \in SUBSET Tools, Start(tools)
    PROVE  GovernanceInv' /\ KeepsHistory /\ GovernsVerified
<1>1. /\ current = 0 /\ todo = <<>> /\ UNCHANGED <<proposals, todo, crashes, failures>> /\ registered' = tools
  BY DEF Start, GovernanceInv
<1>2. CASE rows = <<>> /\ rows' = <<Row("active", 0, [tools |-> tools, sound |-> TRUE])>> /\ current' = 1
  <2>1. PICK row : row = Row("active", 0, [tools |-> tools, sound |-> TRUE])
    OBVIOUS
  <2>2. /\ row \in RowValues /\ row.status = "active" /\ row.policy.sound /\ row.policy.tools = tools
        /\ row.supersedes = 0
    BY <2>1, BoundAssumption DEF Row, RowValues, Policies, Statuses, RevisionNumbers
  <2>3. /\ rows' \in Seq(RowValues) /\ Len(rows') = 1 /\ DOMAIN rows' = {1} /\ rows'[1] = row
        /\ DOMAIN rows = {}
    BY <1>2, <2>1, <2>2
  <2>4. RecordsKept'
    BY <1>1, <1>2, <2>2, <2>3, BoundAssumption DEF GovernanceInv, RecordsKept, Names
  <2>5. KeepsHistory /\ GovernsVerified
    BY <1>1, <2>2, <2>3 DEF KeepsHistory, GovernsVerified
  <2>6. Governed' = {1} /\ ActiveRows' = {1}
    BY <2>2, <2>3 DEF Governed, ActiveRows
  <2>7. Line'
    BY <1>1, <1>2, <2>2, <2>3, <2>6 DEF Line, OneLine, Newest
  <2>. QED  BY <1>1, <2>4, <2>5, <2>7 DEF GovernanceInv
<1>3. CASE (\E r \in DOMAIN rows : ActiveRows = {r} /\ current' = r) /\ UNCHANGED rows
  <2>1. current' \in DOMAIN rows /\ rows[current'].status = "active" /\ ActiveRows = {current'}
    BY <1>3 DEF ActiveRows
  <2>2. RecordsKept'
    BY <1>1, <1>3, <2>1 DEF GovernanceInv, RecordsKept, Names
  <2>3. failures' = 0 => Line'
    BY <1>1, <1>3, <2>1, LineSame DEF Line, GovernanceInv
  <2>. QED  BY <1>1, <1>3, <2>2, <2>3 DEF GovernanceInv, KeepsHistory, GovernsVerified
<1>. QED  BY <1>2, <1>3 DEF Start

\* Each of the steps above, and a step of another part
LEMMA GovernanceStep ==
    GovernanceInv /\ [Next]_vars => GovernanceInv' /\ KeepsHistory /\ GovernsVerified
<1>. SUFFICES ASSUME GovernanceInv, [Next]_vars PROVE GovernanceInv' /\ KeepsHistory /\ GovernsVerified
  OBVIOUS
<1>1. ASSUME NEW writes, Request(writes), Untouched' \/ \E r \in ActiveRows : Replaced(r)'
      PROVE  GovernanceInv' /\ KeepsHistory /\ GovernsVerified
  BY <1>1, RequestKeeps
<1>2. ASSUME NEW p \in Proposals, NEW r \in 1..MaxRevision, Propose(p, r)
      PROVE  GovernanceInv' /\ KeepsHistory /\ GovernsVerified
  BY <1>1, <1>2, RequestsHold DEF Propose
<1>3. ASSUME NEW p \in Proposals, Reject(p) \/ Apply(p) \/ ToolSync(p)
      PROVE  GovernanceInv' /\ KeepsHistory /\ GovernsVerified
  <2>1. Untouched' \/ \E r \in ActiveRows : Replaced(r)'
    BY <1>3, RequestsHold
  <2>. QED  BY <1>1, <1>3, <2>1 DEF Reject, Apply, ToolSync
<1>4. ASSUME NEW p \in Proposals, NEW policy \in Policies, Approve(p, policy)
      PROVE  GovernanceInv' /\ KeepsHistory /\ GovernsVerified
  BY <1>1, <1>4, RequestsHold DEF Approve
<1>5. ASSUME NEW target \in 1..MaxRevision, Rollback(target)
      PROVE  GovernanceInv' /\ KeepsHistory /\ GovernsVerified
  BY <1>1, <1>5, RequestsHold DEF Rollback
<1>6. CASE UNCHANGED vars
  <2>1. UNCHANGED <<rows, proposals, current, registered, todo, crashes, failures>>
    BY <1>6 DEF vars
  <2>2. RecordsKept' /\ KeepsHistory /\ GovernsVerified
    BY <2>1 DEF GovernanceInv, RecordsKept, Names, KeepsHistory, GovernsVerified
  <2>3. (Pending => Pending') /\ (Line => Line')
    BY <2>1, PendingStays
  <2>. QED  BY <2>1, <2>2, <2>3 DEF GovernanceInv
<1>. QED
  BY <1>2, <1>3, <1>4, <1>5, <1>6, WriteKeeps, LossKeeps, StartKeeps DEF Next

\* Once nothing is pending, what is active is what governs.
LEMMA GovernanceInvImplies == GovernanceInv => GovernanceAgrees
<1>. SUFFICES ASSUME GovernanceInv PROVE GovernanceAgrees
  OBVIOUS
<1>1. TypeOK
  BY DEF GovernanceInv, RecordsKept, TypeOK, RowValues, ProposalValues, RevisionNumbers
<1>2. failures = 0 => MemoryIsActive /\ OneLine
  BY NothingPending DEF GovernanceInv, Line, MemoryIsActive, Ready
<1>. QED  BY <1>1, <1>2 DEF GovernanceAgrees

\* A revision keeps its policy and its place and moves on only from draft to
\* active to historical, a decision is never revised, and what starts to govern
\* was verified with the tools of this process, for any tools and proposals and
\* wherever the process dies or a write is refused
\* (runtime-blueprint-governance.ts: applyApprovedRuntimeBlueprint).
THEOREM HistoryHolds == Spec => RevisionsHold
<1>1. Init => GovernanceInv
  BY GovernanceInvInit
<1>2. GovernanceInv /\ [Next]_vars => GovernanceInv'
  BY GovernanceStep
<1>3. GovernanceInv /\ [Next]_vars => [KeepsHistory /\ GovernsVerified]_vars
  BY GovernanceStep
<1>. QED  BY <1>1, <1>2, <1>3, PTL DEF Spec, RevisionsHold

\* Between two requests what governs is the one active revision, and what has
\* governed is one line, though several drafts of one revision were approved and
\* wherever the process died, as long as no write was refused
\* (runtime-blueprint-governance.ts: applyApprovedRuntimeBlueprint,
\* resolveActiveRuntimeBlueprint).
THEOREM LineHolds == Spec => []GovernanceAgrees
<1>1. GovernanceInv /\ [Next]_vars => GovernanceInv'
  BY GovernanceStep
<1>. QED  BY <1>1, GovernanceInvInit, GovernanceInvImplies, PTL DEF Spec

-----------------------------------------------------------------------------
(* Mail: what is sent and what was approved *)

\* Where a flow is
FlowStages == {"idle", "launched", "waiting", "approved", "checked", "sent", "over"}

\* A flow works on one draft; from its preview on the account may write; and
\* what it has read last, it still finds, unless someone came in between.
FlowHolds(f) ==
    /\ flow[f] = [at |-> flow[f].at, draft |-> flow[f].draft, seen |-> flow[f].seen, raced |-> flow[f].raced]
    /\ flow[f].at \in FlowStages
    /\ flow[f].at # "idle" => flow[f].draft \in Drafts
    /\ flow[f].at \in {"waiting", "approved", "checked"} => Writable(AccountOf[flow[f].draft])
    /\ flow[f].at = "checked" =>
         flow[f].raced \/ draft[flow[f].draft] = Gone \/ Matches(flow[f].seen, draft[flow[f].draft])

\* What was sent is gone, and was as the flow had read it.
MessageHolds(m) ==
    /\ m.draft \in Drafts /\ draft[m.draft] = Gone
    /\ Writable(AccountOf[m.draft])
    /\ m.raced \/ (m.mail.people = m.approved.people /\ m.mail.text = m.approved.text)

\* Each flow and each message by itself; no two messages of one draft
MailInv ==
    /\ draft = [d \in Drafts |-> draft[d]] /\ flow = [f \in Flows |-> flow[f]]
    /\ \A f \in Flows : FlowHolds(f)
    /\ \A m \in sent : MessageHolds(m)
    /\ \A m, other \in sent : other.draft = m.draft => other = m

\* A draft changes that has not been sent: flows that have read it are raced.
LEMMA DraftChanges ==
    ASSUME MailInv, NEW d \in Drafts, NEW mail, draft' = [draft EXCEPT ![d] = mail],
           flow' = [f \in Flows |-> IF flow[f].draft = d
                     THEN [flow[f] EXCEPT !.raced = (flow[f].at = "checked")] ELSE flow[f]],
           UNCHANGED sent, \A m \in sent : m.draft # d
    PROVE  MailInv'
<1>1. \A e \in Drafts : e # d => draft'[e] = draft[e]
  BY DEF MailInv
<1>2. ASSUME NEW f \in Flows PROVE FlowHolds(f)'
  <2>1. FlowHolds(f)
    BY DEF MailInv
  <2>2. CASE flow[f].draft = d
    <3>1. PICK w : w = flow[f]
      OBVIOUS
    <3>2. PICK u : u = [w EXCEPT !.raced = (w.at = "checked")]
      OBVIOUS
    <3>3. w = [at |-> w.at, draft |-> w.draft, seen |-> w.seen, raced |-> w.raced]
      BY <2>1, <3>1 DEF FlowHolds
    <3>4. /\ DOMAIN u = DOMAIN w /\ u.at = w.at /\ u.draft = w.draft /\ u.seen = w.seen
          /\ u.raced = (w.at = "checked")
      BY <3>2, <3>3
    <3>5. u = [at |-> u.at, draft |-> u.draft, seen |-> u.seen, raced |-> u.raced]
      BY <3>2, <3>3, <3>4
    <3>6. flow'[f] = u
      BY <2>2, <3>1, <3>2
    <3> QED BY <2>1, <3>1, <3>4, <3>5, <3>6 DEF FlowHolds
  <2>3. CASE flow[f].draft # d
    <3>1. flow'[f] = flow[f]
      BY <2>3
    <3> QED BY <1>1, <2>1, <2>3, <3>1 DEF FlowHolds
  <2> QED BY <2>2, <2>3
<1>3. \A m \in sent' : MessageHolds(m)'
  BY <1>1 DEF MailInv, MessageHolds
<1> QED BY <1>2, <1>3 DEF MailInv

\* A flow goes on while drafts and messages stay.
LEMMA FlowMoves ==
    ASSUME MailInv, NEW f \in Flows, UNCHANGED <<draft, sent>>,
           NEW at \in FlowStages, NEW d, NEW seen, NEW raced,
           flow' = [flow EXCEPT ![f] = [at |-> at, draft |-> d, seen |-> seen, raced |-> raced]],
           at # "idle" => d \in Drafts,
           at \in {"waiting", "approved", "checked"} => Writable(AccountOf[d]),
           at = "checked" => Matches(seen, draft[d])
    PROVE  MailInv'
<1>1. \A g \in Flows : g # f => flow'[g] = flow[g]
  BY DEF MailInv
<1>2. flow'[f] = [at |-> at, draft |-> d, seen |-> seen, raced |-> raced]
  BY DEF MailInv
<1>3. \A g \in Flows : g # f => FlowHolds(g)'
  BY <1>1 DEF MailInv, FlowHolds
<1>4. FlowHolds(f)'
  BY <1>2 DEF FlowHolds
<1>5. \A m \in sent' : MessageHolds(m)'
  BY DEF MailInv, MessageHolds
<1> QED BY <1>3, <1>4, <1>5 DEF MailInv

\* One field of a flow: where it is
LEMMA MoveIs ==
    ASSUME MailInv, NEW f \in Flows, NEW at, Moves(f, at)
    PROVE  flow' = [flow EXCEPT ![f] = [at |-> at, draft |-> flow[f].draft, seen |-> flow[f].seen,
                                        raced |-> flow[f].raced]]
<1>1. PICK w : w = flow[f]
  OBVIOUS
<1>2. PICK u : u = [w EXCEPT !.at = at]
  OBVIOUS
<1>3. w = [at |-> w.at, draft |-> w.draft, seen |-> w.seen, raced |-> w.raced]
  BY <1>1 DEF MailInv, FlowHolds
<1>4. DOMAIN u = DOMAIN w /\ u.at = at /\ u.draft = w.draft /\ u.seen = w.seen /\ u.raced = w.raced
  BY <1>2, <1>3
<1>5. u = [at |-> at, draft |-> w.draft, seen |-> w.seen, raced |-> w.raced]
  BY <1>2, <1>3, <1>4
<1>6. flow' = [flow EXCEPT ![f] = u]
  BY <1>1, <1>2 DEF Moves
<1> QED BY <1>1, <1>5, <1>6

\* A flow from its launch to the check before it is sent
LEMMA FlowSteps ==
    ASSUME MailInv, NEW f \in Flows,
           \/ \E d \in Drafts : Launch(f, d)
           \/ See(f) \/ ApproveMail(f) \/ RejectMail(f) \/ Check(f) \/ SendFails(f)
    PROVE  MailInv'
<1>0. FlowHolds(f)
  BY DEF MailInv
<1>1. PICK w : w = flow[f]
  OBVIOUS
<1>2. w = [at |-> w.at, draft |-> w.draft, seen |-> w.seen, raced |-> w.raced]
  BY <1>0, <1>1 DEF FlowHolds
<1>3. ASSUME NEW d \in Drafts, Launch(f, d) PROVE MailInv'
  <2>1. PICK u : u = [w EXCEPT !.at = "launched", !.draft = d]
    OBVIOUS
  <2>2. DOMAIN u = DOMAIN w /\ u.at = "launched" /\ u.draft = d /\ u.seen = w.seen /\ u.raced = w.raced
    BY <1>2, <2>1
  <2>3. u = [at |-> "launched", draft |-> d, seen |-> w.seen, raced |-> w.raced]
    BY <1>2, <2>1, <2>2
  <2>4. flow' = [flow EXCEPT ![f] = [at |-> "launched", draft |-> d, seen |-> w.seen, raced |-> w.raced]]
        /\ UNCHANGED <<draft, sent>>
    BY <1>1, <1>3, <2>1, <2>3 DEF Launch, MailInv
  <2> QED BY <2>4, FlowMoves DEF FlowStages
<1>4. CASE See(f)
  <2>1. PICK u : u = [w EXCEPT !.at = "waiting", !.seen = draft[flow[f].draft]]
    OBVIOUS
  <2>2. DOMAIN u = DOMAIN w /\ u.at = "waiting" /\ u.draft = w.draft /\ u.seen = draft[flow[f].draft]
        /\ u.raced = w.raced
    BY <1>2, <2>1
  <2>3. u = [at |-> "waiting", draft |-> w.draft, seen |-> u.seen, raced |-> w.raced]
    BY <1>2, <2>1, <2>2
  <2>4. flow' = [flow EXCEPT ![f] = [at |-> "waiting", draft |-> w.draft, seen |-> u.seen, raced |-> w.raced]]
    <3>1. flow' = [flow EXCEPT ![f] = u]
      BY <1>1, <1>4, <2>1 DEF See, MailInv
    <3> QED BY <2>3, <3>1
  <2>5. UNCHANGED <<draft, sent>> /\ w.draft \in Drafts /\ Writable(AccountOf[w.draft])
    BY <1>0, <1>1, <1>4 DEF See, FlowHolds
  <2> QED BY <2>4, <2>5, FlowMoves DEF FlowStages
<1>5. CASE ApproveMail(f)
  BY <1>0, <1>5, MoveIs, FlowMoves DEF ApproveMail, FlowHolds, FlowStages
<1>6. CASE RejectMail(f)
  BY <1>0, <1>6, MoveIs, FlowMoves DEF RejectMail, FlowHolds, FlowStages
<1>7. CASE Check(f)
  <2>1. PICK u : u = [w EXCEPT !.at = "checked", !.raced = FALSE]
    OBVIOUS
  <2>2. DOMAIN u = DOMAIN w /\ u.at = "checked" /\ u.draft = w.draft /\ u.seen = w.seen /\ u.raced = FALSE
    BY <1>2, <2>1
  <2>3. u = [at |-> "checked", draft |-> w.draft, seen |-> w.seen, raced |-> u.raced]
    BY <1>2, <2>1, <2>2
  <2>4. flow' = [flow EXCEPT ![f] = [at |-> "checked", draft |-> w.draft, seen |-> w.seen, raced |-> u.raced]]
    <3>1. flow' = [flow EXCEPT ![f] = u]
      BY <1>1, <1>7, <2>1 DEF Check, MailInv
    <3> QED BY <2>3, <3>1
  <2>5. UNCHANGED <<draft, sent>> /\ w.draft \in Drafts /\ Writable(AccountOf[w.draft])
        /\ Matches(w.seen, draft[w.draft])
    BY <1>0, <1>1, <1>7 DEF Check, FlowHolds
  <2> QED BY <2>4, <2>5, FlowMoves DEF FlowStages
<1>8. CASE SendFails(f)
  BY <1>0, <1>8, MoveIs, FlowMoves DEF SendFails, FlowHolds, FlowStages
<1> QED BY <1>3, <1>4, <1>5, <1>6, <1>7, <1>8

\* A message is posted: its draft is gone, so no other can be of it.
LEMMA PostKeeps ==
    ASSUME MailInv, NEW f \in Flows, NEW at \in {"sent", "over"}, Post(f, at)
    PROVE  MailInv'
<1>1. PICK d : d = flow[f].draft
  OBVIOUS
<1>2. PICK m : m = [flow |-> f, draft |-> d, mail |-> draft[d], approved |-> flow[f].seen, raced |-> flow[f].raced]
  OBVIOUS
<1>3. /\ FlowHolds(f) /\ flow[f].at = "checked" /\ draft[d] # Gone /\ d \in Drafts
      /\ sent' = sent \cup {m} /\ draft' = [draft EXCEPT ![d] = Gone] /\ Moves(f, at)
  BY <1>1, <1>2 DEF Post, MailInv, FlowHolds
<1>4. \A e \in Drafts : draft'[e] = IF e = d THEN Gone ELSE draft[e]
  BY <1>3 DEF MailInv
<1>5. MessageHolds(m)'
  <2>1. Writable(AccountOf[d]) /\ (flow[f].raced \/ Matches(flow[f].seen, draft[d]))
    BY <1>1, <1>3 DEF FlowHolds
  <2>2. m.draft = d /\ m.mail = draft[d] /\ m.approved = flow[f].seen /\ m.raced = flow[f].raced
    BY <1>2
  <2> QED BY <1>3, <1>4, <2>1, <2>2 DEF MessageHolds, Matches
<1>6. \A n \in sent : n.draft # d /\ MessageHolds(n)'
  BY <1>3, <1>4 DEF MailInv, MessageHolds
<1>7. \A g \in Flows : g # f => flow'[g] = flow[g]
  BY <1>3 DEF Moves, MailInv
<1>8. \A g \in Flows : g # f => FlowHolds(g)'
  BY <1>4, <1>7 DEF MailInv, FlowHolds
<1>9. flow' = [flow EXCEPT ![f] = [at |-> at, draft |-> d, seen |-> flow[f].seen, raced |-> flow[f].raced]]
  BY <1>1, <1>3, MoveIs
<1>10. FlowHolds(f)'
  BY <1>3, <1>9 DEF FlowHolds, FlowStages, MailInv
<1>11. \A n, other \in sent' : other.draft = n.draft => other = n
  <2>1. m.draft = d
    BY <1>2
  <2>2. \A n, other \in sent : other.draft = n.draft => other = n
    BY DEF MailInv
  <2> QED BY <1>3, <1>6, <2>1, <2>2
<1> QED BY <1>3, <1>5, <1>6, <1>8, <1>9, <1>10, <1>11 DEF MailInv

\* The invariant holds at first and over every step.
LEMMA MailInvInit == MailInit => MailInv
<1> SUFFICES ASSUME MailInit PROVE MailInv
  OBVIOUS
<1>1. draft = [d \in Drafts |-> draft[d]]
  BY DEF MailInit
<1>2. flow = [f \in Flows |-> NotLaunched] /\ sent = {}
  BY DEF MailInit
<1>3. \A f \in Flows : FlowHolds(f)
  BY <1>2 DEF FlowHolds, NotLaunched, FlowStages
<1> QED BY <1>1, <1>2, <1>3 DEF MailInv

\* Each of the steps above, and a step of another part
LEMMA MailInvKept == MailInv /\ [MailNext]_mailVars => MailInv'
<1> SUFFICES ASSUME MailInv, [MailNext]_mailVars PROVE MailInv'
  OBVIOUS
<1>1. CASE UNCHANGED mailVars
  BY <1>1 DEF mailVars, MailInv, FlowHolds, MessageHolds
<1>2. ASSUME NEW d \in Drafts, NEW mail, EditDraft(d, mail) PROVE MailInv'
  <2>1. draft[d] # Gone /\ \A m \in sent : m.draft # d
    BY <1>2 DEF EditDraft, MailInv, MessageHolds
  <2> QED BY <1>2, <2>1, DraftChanges DEF EditDraft
<1>3. ASSUME NEW d \in Drafts, NEW p, NEW t, Compose(d, p, t) PROVE MailInv'
  BY <1>3, DraftChanges DEF Compose
<1>4. CASE MailNext
  BY <1>2, <1>3, <1>4, FlowSteps, PostKeeps DEF MailNext
<1> QED BY <1>1, <1>4

\* What is sent is what was approved, unless someone changed the draft between
\* the check and the sending; it goes out from an account that may write, and
\* no draft goes out twice, for any drafts, accounts and flows
\* (google-workspace-write-adapter.ts).
THEOREM MailHolds == MailInit /\ [][MailNext]_mailVars => []SentAsApproved
<1>1. MailInv => SentAsApproved
  BY DEF MailInv, MessageHolds, SentAsApproved
<1> QED BY <1>1, MailInvInit, MailInvKept, PTL

-----------------------------------------------------------------------------
(* Projects, threads and the runs in them *)

ThreadIds == Threads \cup {None}
Checkpoints == [project : Projects, thread : Threads, run : ThreadRuns \cup {None}]
Links == [project : Projects, thread : Threads]

\* Each field holds what the tables hold.
ProjectShape ==
    /\ projects \subseteq Projects /\ threadOf \in [Threads -> Projects \cup {None}]
    /\ resourceOf \in [Resources -> {NotLinked} \cup [project : Projects, thread : ThreadIds]]
    /\ checkpoints \in Seq(Checkpoints)
    /\ post \in [Requests -> {NothingRead} \cup [kind : {"thread", "resource"}, project : Projects]]
    /\ run \in [ThreadRuns -> {"none", "active", "again", "ended", "lost"}]
    /\ link \in [ThreadRuns -> {NotLinked} \cup Links]
    /\ begunIn \in [ThreadRuns -> ThreadIds]

\* A run that works is linked to the thread it began in; before it began there
\* is nothing of it.
RunHolds(r) ==
    /\ run[r] \in {"active", "again"} => link[r] # NotLinked
    /\ link[r] # NotLinked => link[r].thread = begunIn[r] /\ run[r] \in {"active", "again"}
    /\ run[r] = "none" => \A n \in DOMAIN checkpoints : checkpoints[n].run # r

ProjectInv ==
    ProjectShape /\ ThreadsStayApart /\ RunsSummarisedOnce /\ \A r \in ThreadRuns : RunHolds(r)

\* What a checkpoint holds
LEMMA CheckpointIs ==
    ASSUME NEW p, NEW t, NEW r
    PROVE  /\ Checkpoint(p, t, r).project = p /\ Checkpoint(p, t, r).thread = t /\ Checkpoint(p, t, r).run = r
           /\ p \in Projects /\ t \in Threads /\ r \in ThreadRuns \cup {None} => Checkpoint(p, t, r) \in Checkpoints
BY DEF Checkpoint, Checkpoints

\* The steps that append nothing and move no run
LEMMA RecordsMove ==
    ASSUME ProjectInv, UNCHANGED <<checkpoints, run, link, begunIn>>, ProjectShape', ThreadsStayApart'
    PROVE  ProjectInv'
<1>1. RunsSummarisedOnce'
  BY DEF ProjectInv, RunsSummarisedOnce, OwnOf
<1>2. \A r \in ThreadRuns : RunHolds(r)'
  BY DEF ProjectInv, RunHolds
<1> QED BY <1>1, <1>2 DEF ProjectInv

\* A project, a reading, a refusal and a resource leave threads and runs.
LEMMA RecordSteps ==
    ASSUME ProjectInv,
           \/ \E p \in Projects : NewProject(p)
           \/ \E q \in Requests :
                \/ Refuse(q)
                \/ \E p \in Projects, kind \in {"thread", "resource"} : PostRead(q, kind, p)
                \/ \E x \in Resources, t \in Threads \cup {None} : ResourceArrives(q, x, t)
    PROVE  ProjectInv'
<1>1. ASSUME NEW p \in Projects, NewProject(p) PROVE ProjectInv'
  <2>1. ProjectShape'
    BY <1>1 DEF NewProject, ProjectInv, ProjectShape
  <2>2. ThreadsStayApart'
    BY <1>1 DEF NewProject, ProjectInv, ThreadsStayApart
  <2> QED BY <1>1, <2>1, <2>2, RecordsMove DEF NewProject
<1>2. ASSUME NEW q \in Requests, Refuse(q) PROVE ProjectInv'
  <2>1. ProjectShape'
    BY <1>2 DEF Refuse, ProjectInv, ProjectShape
  <2>2. ThreadsStayApart'
    BY <1>2 DEF Refuse, ProjectInv, ThreadsStayApart
  <2> QED BY <1>2, <2>1, <2>2, RecordsMove DEF Refuse
<1>3. ASSUME NEW q \in Requests, NEW p \in Projects, NEW kind \in {"thread", "resource"}, PostRead(q, kind, p)
      PROVE  ProjectInv'
  <2>1. ProjectShape'
    BY <1>3 DEF PostRead, ProjectInv, ProjectShape
  <2>2. ThreadsStayApart'
    BY <1>3 DEF PostRead, ProjectInv, ThreadsStayApart
  <2> QED BY <1>3, <2>1, <2>2, RecordsMove DEF PostRead
<1>4. ASSUME NEW q \in Requests, NEW x \in Resources, NEW t \in Threads \cup {None}, ResourceArrives(q, x, t)
      PROVE  ProjectInv'
  <2>1. PICK p \in Projects : p = post[q].project
    BY <1>4 DEF ResourceArrives, ProjectInv, ProjectShape, NothingRead
  <2>2. /\ resourceOf' = [resourceOf EXCEPT ![x] = [project |-> p, thread |-> t]]
        /\ t # None => threadOf[t] = p
        /\ post' = [post EXCEPT ![q] = NothingRead]
        /\ UNCHANGED <<projects, threadOf, checkpoints, run, link, begunIn, restarts>>
    BY <1>4, <2>1 DEF ResourceArrives
  <2>3. ProjectShape'
    BY <2>2 DEF ProjectInv, ProjectShape, ThreadIds
  <2>4. ThreadsStayApart'
    BY <2>2 DEF ProjectInv, ProjectShape, ThreadsStayApart
  <2> QED BY <2>2, <2>3, <2>4, RecordsMove
<1> QED BY <1>1, <1>2, <1>3, <1>4

\* A checkpoint is appended: of no run, or of one that has none in the listing.
LEMMA AppendKeeps ==
    ASSUME ProjectInv, NEW p \in Projects, NEW t \in Threads, NEW r \in ThreadRuns \cup {None},
           checkpoints' = Append(checkpoints, Checkpoint(p, t, r)), begunIn' = begunIn,
           r # None => begunIn[r] = t /\ threadOf[t] = p /\ ~ \E c \in Listed(p) : c.run = r,
           \A s \in ThreadRuns : run'[s] = "ended" => run[s] = "ended" \/ s = r
    PROVE  checkpoints' \in Seq(Checkpoints) /\ RunsSummarisedOnce'
<1> DEFINE last == Len(checkpoints) + 1
           c == Checkpoint(p, t, r)
<1>1. checkpoints \in Seq(Checkpoints) /\ c \in Checkpoints /\ Len(checkpoints) \in Nat
  BY CheckpointIs DEF ProjectInv, ProjectShape
<1>2. /\ checkpoints' \in Seq(Checkpoints) /\ DOMAIN checkpoints' = 1..last /\ checkpoints'[last] = c
      /\ DOMAIN checkpoints = 1..(last - 1)
      /\ \A n \in 1..(last - 1) : checkpoints'[n] = checkpoints[n]
  BY <1>1
<1>3. c.project = p /\ c.thread = t /\ c.run = r
  BY CheckpointIs
<1> HIDE DEF c
<1>4. ASSUME NEW q, NEW n \in DOMAIN checkpoints
      PROVE  (OwnOf(q) \cap 1..n)' = OwnOf(q) \cap 1..n
  BY <1>1, <1>2 DEF OwnOf
<1>5. ASSUME NEW s \in ThreadRuns
      PROVE  LET own == {n \in DOMAIN checkpoints' : checkpoints'[n].run = s}
             IN  /\ run'[s] = "ended" => own # {}
                 /\ \A n \in own :
                      /\ checkpoints'[n].thread = begunIn'[s]
                      /\ \A earlier \in own : earlier < n =>
                           Cardinality((OwnOf(checkpoints[n].project) \cap 1 .. earlier)') > ListLimit
  <2> DEFINE own == {n \in DOMAIN checkpoints : checkpoints[n].run = s}
             next == {n \in DOMAIN checkpoints' : checkpoints'[n].run = s}
  <2>1. next = own \cup (IF s = r THEN {last} ELSE {})
    BY <1>1, <1>2, <1>3
  <2>2. /\ run[s] = "ended" => own # {}
        /\ \A n \in own : checkpoints[n].thread = begunIn[s]
        /\ \A n, earlier \in own : earlier < n =>
             Cardinality(OwnOf(checkpoints[n].project) \cap 1 .. earlier) > ListLimit
    BY DEF ProjectInv, RunsSummarisedOnce
  <2>3. run'[s] = "ended" => next # {}
    BY <2>1, <2>2
  <2>4. s = r => s # None
    BY ProjectAssumption
  <2>5. \A n \in next : checkpoints'[n].thread = begunIn'[s]
    BY <1>2, <1>3, <2>1, <2>2, <2>4
  <2>6. ASSUME NEW n \in next, NEW earlier \in next, earlier < n
        PROVE  Cardinality((OwnOf(checkpoints[n].project) \cap 1 .. earlier)') > ListLimit
    <3>1. earlier \in DOMAIN checkpoints /\ earlier \in own
      BY <1>1, <1>2, <2>1, <2>6
    <3>2. PICK q : q = checkpoints'[n].project
      OBVIOUS
    <3>3. (OwnOf(checkpoints[n].project) \cap 1 .. earlier)' = OwnOf(q) \cap 1 .. earlier
      <4>1. (OwnOf(q) \cap 1..earlier)' = OwnOf(q) \cap 1..earlier
        BY <1>4, <3>1
      <4> QED BY <3>2, <4>1 DEF OwnOf
    <3>4. CASE n \in own
      BY <1>2, <2>2, <2>6, <3>1, <3>2, <3>3, <3>4
    <3>5. CASE n = last /\ s = r
      <4>1. q = p /\ threadOf[t] = p /\ begunIn[s] = t /\ ~ \E d \in Listed(p) : d.run = s
        BY <1>2, <1>3, <2>4, <3>2, <3>5
      <4>2. checkpoints[earlier].project = p /\ checkpoints[earlier].run = s
        BY <2>2, <3>1, <4>1 DEF ProjectInv, ThreadsStayApart
      <4>3. earlier \in OwnOf(p)
        BY <3>1, <4>2 DEF OwnOf
      <4>4. ~ (Cardinality(OwnOf(p) \cap 1 .. earlier) <= ListLimit)
        BY <4>1, <4>2, <4>3 DEF Listed
      <4>5. Cardinality(OwnOf(p) \cap 1 .. earlier) \in Nat
        <5>1. 1 \in Int /\ earlier \in Int
          BY <1>1, <3>1
        <5>2. IsFiniteSet(1..earlier)
          BY <5>1, FS_Interval, Zenon
        <5>3. IsFiniteSet(OwnOf(p) \cap 1..earlier)
          BY <5>2, FS_Subset
        <5> QED BY <5>3, FS_CardinalityType
      <4>6. PICK count : count = Cardinality(OwnOf(p) \cap 1 .. earlier)
        OBVIOUS
      <4>7. count > ListLimit
        BY <4>4, <4>5, <4>6, ProjectAssumption
      <4> QED BY <3>2, <3>3, <4>1, <4>6, <4>7
    <3> QED BY <2>1, <3>4, <3>5
  <2> QED BY <2>3, <2>5, <2>6
<1> QED BY <1>2, <1>5 DEF RunsSummarisedOnce

\* A thread comes with its first checkpoint, of no run.
LEMMA ThreadSteps ==
    ASSUME ProjectInv, NEW q \in Requests, NEW t \in Threads, ThreadArrives(q, t)
    PROVE  ProjectInv'
<1>1. PICK p \in Projects : p = post[q].project
  BY DEF ThreadArrives, ProjectInv, ProjectShape, NothingRead
<1>2. /\ threadOf[t] = None /\ threadOf' = [threadOf EXCEPT ![t] = p]
      /\ checkpoints' = Append(checkpoints, Checkpoint(p, t, None))
      /\ post' = [post EXCEPT ![q] = NothingRead]
      /\ UNCHANGED <<projects, resourceOf, run, link, begunIn, restarts>>
  BY <1>1 DEF ThreadArrives, FreeId
<1>3. checkpoints' \in Seq(Checkpoints) /\ RunsSummarisedOnce'
  BY <1>2, AppendKeeps
<1>4. ProjectShape'
  BY <1>2, <1>3 DEF ProjectInv, ProjectShape
<1>5. /\ DOMAIN checkpoints' = 1..(Len(checkpoints) + 1) /\ DOMAIN checkpoints = 1..Len(checkpoints)
      /\ checkpoints'[Len(checkpoints) + 1] = Checkpoint(p, t, None) /\ Len(checkpoints) \in Nat
      /\ \A n \in 1..Len(checkpoints) : checkpoints'[n] = checkpoints[n] /\ checkpoints[n] \in Checkpoints
  BY <1>2, CheckpointIs DEF ProjectInv, ProjectShape
<1>6. threadOf'[t] = p /\ \A u \in Threads : threadOf[u] # None => threadOf'[u] = threadOf[u]
  BY <1>2 DEF ProjectInv, ProjectShape
<1>7. ThreadsStayApart'
  <2>1. ASSUME NEW n \in DOMAIN checkpoints' PROVE threadOf'[checkpoints'[n].thread] = checkpoints'[n].project
    <3>1. CASE n = Len(checkpoints) + 1
      BY <1>5, <1>6, <3>1, CheckpointIs
    <3>2. CASE n # Len(checkpoints) + 1
      <4>1. n \in DOMAIN checkpoints /\ checkpoints'[n] = checkpoints[n] /\ checkpoints[n] \in Checkpoints
        BY <1>5, <3>2
      <4>2. threadOf[checkpoints[n].thread] = checkpoints[n].project /\ checkpoints[n].project # None
            /\ checkpoints[n].thread \in Threads
        BY <4>1, ProjectAssumption DEF ProjectInv, ThreadsStayApart, Checkpoints
      <4> QED BY <1>6, <4>1, <4>2
    <3> QED BY <3>1, <3>2
  <2>2. \A x \in Resources : resourceOf[x].thread # None =>
          resourceOf[x].thread \in Threads /\ resourceOf[x].project # None
    BY ProjectAssumption DEF ProjectInv, ProjectShape, ThreadIds, NotLinked
  <2>3. \A r \in ThreadRuns : link[r] # NotLinked => link[r].thread \in Threads /\ link[r].project # None
    BY ProjectAssumption DEF ProjectInv, ProjectShape, Links
  <2> QED BY <1>2, <1>6, <2>1, <2>2, <2>3 DEF ProjectInv, ThreadsStayApart
<1>8. \A r \in ThreadRuns : RunHolds(r)'
  BY <1>2, <1>5, CheckpointIs, ProjectAssumption DEF ProjectInv, RunHolds
<1> QED BY <1>3, <1>4, <1>7, <1>8 DEF ProjectInv

\* A run starts in a thread: nothing is listed of it yet.
LEMMA StartSteps ==
    ASSUME ProjectInv, NEW r \in ThreadRuns, NEW p \in Projects, NEW t \in Threads, StartInThread(r, p, t)
    PROVE  ProjectInv'
<1>1. /\ run[r] = "none" /\ threadOf[t] = p /\ run' = [run EXCEPT ![r] = "active"]
      /\ link' = [link EXCEPT ![r] = [project |-> p, thread |-> t]]
      /\ begunIn' = [begunIn EXCEPT ![r] = t]
      /\ UNCHANGED <<projects, threadOf, resourceOf, checkpoints, post, restarts>>
  BY DEF StartInThread
<1>2. ProjectShape'
  BY <1>1 DEF ProjectInv, ProjectShape, Links, ThreadIds
<1>3. \A s \in ThreadRuns : /\ run'[s] = IF s = r THEN "active" ELSE run[s]
                            /\ link'[s] = IF s = r THEN [project |-> p, thread |-> t] ELSE link[s]
                            /\ begunIn'[s] = IF s = r THEN t ELSE begunIn[s]
  BY <1>1 DEF ProjectInv, ProjectShape
<1>4. ThreadsStayApart'
  BY <1>1, <1>3 DEF ProjectInv, ThreadsStayApart
<1>5. [project |-> p, thread |-> t] # NotLinked
  <2>1. [project |-> p, thread |-> t].project = p /\ NotLinked.project = None
    BY DEF NotLinked
  <2> QED BY <2>1, ProjectAssumption
<1>6. \A s \in ThreadRuns : RunHolds(s)'
  BY <1>1, <1>3, <1>5 DEF ProjectInv, RunHolds
<1>7. \A n \in DOMAIN checkpoints : checkpoints[n].run # r
  BY <1>1 DEF ProjectInv, RunHolds
<1>8. RunsSummarisedOnce'
  BY <1>1, <1>3, <1>7 DEF ProjectInv, RunsSummarisedOnce, OwnOf
<1> QED BY <1>2, <1>4, <1>6, <1>8 DEF ProjectInv

\* What the end of a run appends, or finds in the listing
LEMMA SummaryHolds ==
    ASSUME ProjectInv, NEW r \in ThreadRuns, run[r] \in {"active", "again"}, checkpoints' = Summarised(r),
           UNCHANGED <<threadOf, resourceOf, begunIn>>,
           \A s \in ThreadRuns : s # r => run'[s] = run[s]
    PROVE  /\ checkpoints' \in Seq(Checkpoints) /\ RunsSummarisedOnce'
           /\ \A n \in DOMAIN checkpoints' : threadOf[checkpoints'[n].thread] = checkpoints'[n].project
           /\ \A s \in ThreadRuns : s # r =>
                ((\A n \in DOMAIN checkpoints : checkpoints[n].run # s)
                   => \A n \in DOMAIN checkpoints' : checkpoints'[n].run # s)
<1>1. PICK p \in Projects, t \in Threads : link[r] = [project |-> p, thread |-> t]
  BY DEF ProjectInv, ProjectShape, RunHolds, Links
<1>2. begunIn[r] = t /\ threadOf[t] = p /\ link[r].project = p /\ link[r].thread = t /\ link[r] # NotLinked
  BY <1>1 DEF ProjectInv, RunHolds, ThreadsStayApart
<1>3. CASE Checkpointed(r)
  <2>1. checkpoints' = checkpoints
    BY <1>3 DEF Summarised
  <2>2. \E n \in DOMAIN checkpoints : checkpoints[n].run = r
    BY <1>3 DEF Checkpointed, Listed, OwnOf
  <2>3. RunsSummarisedOnce'
    BY <2>1, <2>2 DEF ProjectInv, RunsSummarisedOnce, OwnOf
  <2> QED BY <2>1, <2>3 DEF ProjectInv, ProjectShape, ThreadsStayApart
<1>4. CASE ~Checkpointed(r)
  <2>1. checkpoints' = Append(checkpoints, Checkpoint(p, t, r))
    BY <1>2, <1>4 DEF Summarised
  <2>2. r # None /\ ~ \E c \in Listed(p) : c.run = r
    BY <1>2, <1>4, ProjectAssumption DEF Checkpointed
  <2>3. checkpoints' \in Seq(Checkpoints) /\ RunsSummarisedOnce'
    BY <1>2, <2>1, <2>2, AppendKeeps
  <2>4. /\ DOMAIN checkpoints' = 1..(Len(checkpoints) + 1) /\ DOMAIN checkpoints = 1..Len(checkpoints)
        /\ checkpoints'[Len(checkpoints) + 1] = Checkpoint(p, t, r) /\ Len(checkpoints) \in Nat
        /\ \A n \in 1..Len(checkpoints) : checkpoints'[n] = checkpoints[n]
    BY <2>1, CheckpointIs DEF ProjectInv, ProjectShape
  <2>5. ASSUME NEW n \in DOMAIN checkpoints'
        PROVE  (n \in DOMAIN checkpoints /\ checkpoints'[n] = checkpoints[n]) \/ checkpoints'[n] = Checkpoint(p, t, r)
    BY <2>4
  <2> QED BY <1>2, <2>3, <2>5, CheckpointIs DEF ProjectInv, ThreadsStayApart
<1> QED BY <1>3, <1>4

\* A run ends once its summary is there, appended now or before.
LEMMA EndSteps ==
    ASSUME ProjectInv, NEW r \in ThreadRuns, Finish(r) \/ FinishThrows(r, TRUE) \/ FinishThrows(r, FALSE)
    PROVE  ProjectInv'
<1>1. CASE Finish(r)
  <2>1. /\ run[r] \in {"active", "again"} /\ checkpoints' = Summarised(r)
        /\ link' = [link EXCEPT ![r] = NotLinked] /\ run' = [run EXCEPT ![r] = "ended"]
        /\ UNCHANGED <<projects, threadOf, resourceOf, post, begunIn, restarts>>
    BY <1>1 DEF Finish
  <2>2. \A s \in ThreadRuns : /\ run'[s] = IF s = r THEN "ended" ELSE run[s]
                              /\ link'[s] = IF s = r THEN NotLinked ELSE link[s]
    BY <2>1 DEF ProjectInv, ProjectShape
  <2>3. /\ checkpoints' \in Seq(Checkpoints) /\ RunsSummarisedOnce'
        /\ \A n \in DOMAIN checkpoints' : threadOf[checkpoints'[n].thread] = checkpoints'[n].project
        /\ \A s \in ThreadRuns : s # r =>
             ((\A n \in DOMAIN checkpoints : checkpoints[n].run # s)
                => \A n \in DOMAIN checkpoints' : checkpoints'[n].run # s)
    BY <2>1, <2>2, SummaryHolds
  <2>4. ProjectShape'
    BY <2>1, <2>3 DEF ProjectInv, ProjectShape
  <2>5. ThreadsStayApart'
    BY <2>1, <2>2, <2>3 DEF ProjectInv, ThreadsStayApart
  <2>6. \A s \in ThreadRuns : RunHolds(s)'
    BY <2>1, <2>2, <2>3 DEF ProjectInv, RunHolds
  <2> QED BY <2>3, <2>4, <2>5, <2>6 DEF ProjectInv
<1>2. ASSUME NEW appended \in BOOLEAN, FinishThrows(r, appended) PROVE ProjectInv'
  <2>1. /\ run[r] = "active" /\ run' = [run EXCEPT ![r] = "again"]
        /\ checkpoints' = IF appended THEN Summarised(r) ELSE checkpoints
        /\ UNCHANGED <<projects, threadOf, resourceOf, post, link, begunIn, restarts>>
    BY <1>2 DEF FinishThrows
  <2>2. \A s \in ThreadRuns : run'[s] = IF s = r THEN "again" ELSE run[s]
    BY <2>1 DEF ProjectInv, ProjectShape
  <2>3. /\ checkpoints' \in Seq(Checkpoints) /\ RunsSummarisedOnce'
        /\ \A n \in DOMAIN checkpoints' : threadOf[checkpoints'[n].thread] = checkpoints'[n].project
        /\ \A s \in ThreadRuns : s # r =>
             ((\A n \in DOMAIN checkpoints : checkpoints[n].run # s)
                => \A n \in DOMAIN checkpoints' : checkpoints'[n].run # s)
    <3>1. CASE appended
      BY <2>1, <2>2, <3>1, SummaryHolds
    <3>2. CASE ~appended
      BY <2>1, <2>2, <3>2 DEF ProjectInv, ProjectShape, RunsSummarisedOnce, OwnOf, ThreadsStayApart
    <3> QED BY <3>1, <3>2
  <2>4. ProjectShape'
    BY <2>1, <2>3 DEF ProjectInv, ProjectShape
  <2>5. ThreadsStayApart'
    BY <2>1, <2>2, <2>3 DEF ProjectInv, ThreadsStayApart
  <2>6. \A s \in ThreadRuns : RunHolds(s)'
    BY <2>1, <2>2, <2>3 DEF ProjectInv, RunHolds
  <2> QED BY <2>3, <2>4, <2>5, <2>6 DEF ProjectInv
<1>3. CASE FinishThrows(r, TRUE) \/ FinishThrows(r, FALSE)
  <2>1. \E b \in BOOLEAN : FinishThrows(r, b)
    BY <1>3, Zenon
  <2> QED BY <1>2, <2>1
<1> QED BY <1>1, <1>3

\* After a restart no run is linked.
LEMMA RestartKeeps ==
    ASSUME ProjectInv, RestartProjects
    PROVE  ProjectInv'
<1>1. \A s \in ThreadRuns : run'[s] = (IF run[s] \in {"active", "again"} THEN "lost" ELSE run[s]) /\ link'[s] = NotLinked
  BY DEF RestartProjects
<1>2. ProjectShape'
  BY DEF RestartProjects, ProjectInv, ProjectShape
<1>3. ThreadsStayApart'
  BY <1>1 DEF RestartProjects, ProjectInv, ThreadsStayApart
<1>4. \A s \in ThreadRuns : RunHolds(s)'
  BY <1>1 DEF RestartProjects, ProjectInv, RunHolds, ProjectShape
<1>5. RunsSummarisedOnce'
  BY <1>1 DEF RestartProjects, ProjectInv, RunsSummarisedOnce, OwnOf
<1> QED BY <1>2, <1>3, <1>4, <1>5 DEF ProjectInv

\* The invariant holds at first and over every step.
LEMMA ProjectInvInit == ProjectInit => ProjectInv
<1> SUFFICES ASSUME ProjectInit PROVE ProjectInv
  OBVIOUS
<1>1. ProjectShape
  BY DEF ProjectInit, ProjectShape, ThreadIds
<1>2. ThreadsStayApart
  BY DEF ProjectInit, ThreadsStayApart, NotLinked
<1>3. RunsSummarisedOnce /\ \A r \in ThreadRuns : RunHolds(r)
  BY DEF ProjectInit, RunsSummarisedOnce, RunHolds
<1> QED BY <1>1, <1>2, <1>3 DEF ProjectInv

\* Each of the steps above, and a step of another part
LEMMA ProjectInvKept == ProjectInv /\ [ProjectNext]_projectVars => ProjectInv'
<1> SUFFICES ASSUME ProjectInv, [ProjectNext]_projectVars PROVE ProjectInv'
  OBVIOUS
<1>1. CASE UNCHANGED projectVars
  <2>1. ProjectShape' /\ ThreadsStayApart' /\ UNCHANGED <<checkpoints, run, link, begunIn>>
    BY <1>1 DEF projectVars, ProjectInv, ProjectShape, ThreadsStayApart
  <2> QED BY <2>1, RecordsMove
<1>2. CASE ProjectNext
  BY <1>2, RecordSteps, ThreadSteps, StartSteps, EndSteps, RestartKeeps DEF ProjectNext
<1> QED BY <1>1, <1>2

\* Threads stay in the project they were made in, with the checkpoints, the
\* resources and the runs linked to them, and a run that ends has left one
\* summary in its thread, a second one only where the first is out of the
\* listing, for any projects, threads, runs and requests and any length of the
\* listing (project-context.ts, sqlite-store.ts: listProjectCheckpoints).
THEOREM ProjectsHold == ProjectInit /\ [][ProjectNext]_projectVars => []ProjectsAgree
<1>1. ProjectInv => ProjectsAgree
  BY DEF ProjectInv, ProjectsAgree
<1> QED BY <1>1, ProjectInvInit, ProjectInvKept, PTL

-----------------------------------------------------------------------------
(* The assistant: revisions of its profile, and its surfaces *)

ProfileRows == [status : {"current", "historical"}, content : Content]
Pins == 0..MaxProfiles
ProfileReads == [kind : {"profile"}, revision : Nat, row : ProfileRows]
SurfaceReads == [kind : {"surface"}, surface : Surfaces]

\* A surface that is pinned is pinned on a revision that is there.
SurfaceHolds(row) ==
    \/ row = NoSurface
    \/ row.tracking = "current" /\ row.pinned \in Pins
    \/ row.tracking = "pinned" /\ row.pinned \in DOMAIN profiles

\* Each field holds what the tables hold; whoever serves has every surface.
ControlShape ==
    /\ profiles \in Seq(ProfileRows) /\ Len(profiles) <= MaxProfiles
    /\ surfaces = [s \in Surfaces |-> surfaces[s]] /\ \A s \in Surfaces : SurfaceHolds(surfaces[s])
    /\ posts \in [Posts -> {NoPost} \cup ProfileReads \cup SurfaceReads]
    /\ \A q \in Posts : posts[q].kind = "profile" => posts[q].revision \in DOMAIN profiles
    /\ serving \in BOOLEAN /\ torn \in BOOLEAN /\ deaths \in 0..MaxDeaths
    /\ serving => \A s \in Surfaces : surfaces[s] # NoSurface

(* What is still to be written *)
Closers == {SaveSurface(s, SeedSurface) : s \in Surfaces} \cup {Serve}

\* The surfaces that are not there, and then the process serves; nothing of a
\* handler
Ends(q) ==
    IF serving THEN q = <<>>
    ELSE /\ Len(q) > 0 /\ q[Len(q)] = Serve
         /\ \A i \in 1..Len(q) : i < Len(q) => q[i] # Serve
         /\ \A s \in Surfaces : surfaces[s] = NoSurface => \E i \in 1..Len(q) : q[i] = SaveSurface(s, SeedSurface)

LastIsCurrent == Len(profiles) \in CurrentRows
HasCurrent == CurrentRows # {} /\ (~torn => LastIsCurrent)

NotServing == ~serving /\ unsaved = <<>> /\ (~torn => profiles = <<>> \/ LastIsCurrent)
Ending == unsaved \in Seq(Closers) /\ Ends(unsaved) /\ HasCurrent
Binding ==
    /\ serving /\ HasCurrent
    /\ \E s \in Surfaces : \E row : /\ unsaved = <<SaveSurface(s, row)>>
                                    /\ row # NoSurface /\ SurfaceHolds(row)
\* The revision after n is to be written, the first one after none.
Heading ==
    \E n \in 0..Len(profiles), content \in Content, q \in Seq(Closers) :
        /\ unsaved = <<SaveProfile(n + 1, Profile("current", content))>> \o q
        /\ n < MaxProfiles /\ Ends(q) /\ (torn \/ LastIsCurrent \/ Len(profiles) = n)
Historying ==
    /\ ~torn => LastIsCurrent
    /\ \E n \in DOMAIN profiles, row \in ProfileRows, content \in Content, q \in Seq(Closers) :
         /\ unsaved = <<SaveProfile(n, row)>> \o (<<SaveProfile(n + 1, Profile("current", content))>> \o q)
         /\ n < MaxProfiles /\ Ends(q)

ControlInv == ControlShape /\ (NotServing \/ Ending \/ Binding \/ Heading \/ Historying)

\* The first write of a list, and the rest
LEMMA HeadAndTail ==
    ASSUME NEW S, NEW a, NEW q \in Seq(S)
    PROVE  Head(<<a>> \o q) = a /\ Tail(<<a>> \o q) = q /\ <<a>> \o q # <<>>
<1> DEFINE T == S \cup {a}
<1>1. <<a>> \in Seq(T) /\ q \in Seq(T)
  OBVIOUS
<1> HIDE DEF T
<1>2. <<a>> \o q \in Seq(T) /\ Len(<<a>> \o q) = Len(q) + 1
      /\ \A i \in 1..(Len(q) + 1) : (<<a>> \o q)[i] = IF i <= 1 THEN a ELSE q[i - 1]
  BY <1>1, ConcatProperties
<1>3. PICK p : p = <<a>> \o q
  OBVIOUS
<1>4. p \in Seq(T) /\ Len(p) = Len(q) + 1 /\ Len(q) \in Nat
      /\ \A i \in 1..(Len(q) + 1) : p[i] = IF i <= 1 THEN a ELSE q[i - 1]
  BY <1>1, <1>2, <1>3
<1>5. p # <<>> /\ Head(p) = a
  BY <1>4
<1>6. Tail(p) \in Seq(T) /\ Len(Tail(p)) = Len(q) /\ \A i \in 1..Len(q) : Tail(p)[i] = p[i + 1]
  BY <1>4, <1>5
<1>7. \A i \in 1..Len(q) : Tail(p)[i] = q[i]
  BY <1>4, <1>6
<1>8. Tail(p) = q
  BY <1>1, <1>6, <1>7, SeqEqual
<1> QED BY <1>3, <1>5, <1>8

\* Two writes, one after the other
LEMMA PairIs ==
    ASSUME NEW a, NEW b
    PROVE  <<a, b>> = <<a>> \o <<b>> /\ <<a, b>> = <<a>> \o (<<b>> \o <<>>)
<1> DEFINE T == {a, b}
<1>1. <<a>> \in Seq(T) /\ <<b>> \in Seq(T)
  OBVIOUS
<1> HIDE DEF T
<1>2. <<b>> \o <<>> = <<b>>
  BY <1>1, ConcatEmptySeq
<1>3. <<a, b>> = <<a>> \o <<b>>
  <2>1. PICK p : p = <<a>> \o <<b>>
    OBVIOUS
  <2>2. PICK u, v : u = <<a>> /\ v = <<b>>
    OBVIOUS
  <2>3. Len(u) = 1 /\ Len(v) = 1 /\ u[1] = a /\ v[1] = b /\ u \in Seq(T) /\ v \in Seq(T)
    BY <1>1, <2>2
  <2>4. p \in Seq(T) /\ Len(p) = 2 /\ \A i \in 1..2 : p[i] = IF i <= 1 THEN u[i] ELSE v[i - 1]
    BY <2>1, <2>2, <2>3, ConcatProperties
  <2>5. p[1] = a /\ p[2] = b
    BY <2>3, <2>4
  <2>6. p = <<a, b>>
    BY <2>4, <2>5
  <2> QED BY <2>1, <2>6
<1> QED BY <1>2, <1>3

\* Of the rows that are current there is a last one.
LEMMA CurrentIs ==
    ASSUME ControlShape, CurrentRows # {}
    PROVE  /\ CurrentRevision \in DOMAIN profiles /\ profiles[CurrentRevision].status = "current"
           /\ LastIsCurrent => CurrentRevision = Len(profiles)
<1>1. DOMAIN profiles = 1..Len(profiles) /\ Len(profiles) \in Nat
  BY DEF ControlShape
<1>2. CurrentRows \subseteq Nat /\ \A n \in CurrentRows : n <= Len(profiles)
  BY <1>1 DEF CurrentRows
<1>3. \E n \in CurrentRows : \A k \in CurrentRows : k <= n
  BY <1>1, <1>2, LastExists
<1>4. CurrentRevision \in CurrentRows /\ \A k \in CurrentRows : k <= CurrentRevision
  BY <1>3 DEF CurrentRevision
<1> QED BY <1>1, <1>2, <1>4 DEF CurrentRows, LastIsCurrent

-----------------------------------------------------------------------------
\* What a handler decides to write, while profiles and surfaces stay
LEMMA ShapeStays ==
    ASSUME ControlShape, UNCHANGED <<profiles, surfaces>>,
           posts' \in [Posts -> {NoPost} \cup ProfileReads \cup SurfaceReads],
           \A q \in Posts : posts'[q].kind = "profile" => posts'[q].revision \in DOMAIN profiles,
           serving' \in BOOLEAN, torn' \in BOOLEAN, deaths' \in 0..MaxDeaths, serving' => serving
    PROVE  ControlShape'
BY DEF ControlShape, SurfaceHolds

\* With nothing to write the process serves with all it needs, or is down.
LEMMA AtRestIs ==
    ASSUME ControlInv, AtRest
    PROVE  IF serving THEN Ending ELSE NotServing
<1>1. unsaved = <<>>
  BY DEF AtRest
<1>2. ~Binding
  BY <1>1 DEF Binding
<1>3. ~Heading
  BY <1>1, HeadAndTail DEF Heading
<1>4. ~Historying
  <2>1. ASSUME NEW a, NEW b, NEW q \in Seq(Closers) PROVE <<a>> \o (<<b>> \o q) # <<>>
    <3> DEFINE T == Closers \cup {b}
    <3>1. <<b>> \in Seq(T) /\ q \in Seq(T)
      OBVIOUS
    <3>2. <<b>> \o q \in Seq(T)
      BY <3>1, ConcatProperties
    <3> HIDE DEF T
    <3> QED BY <3>2, HeadAndTail
  <2> QED BY <1>1, <2>1 DEF Historying
<1>5. ~serving => ~Ending
  BY <1>1 DEF Ending, Ends
<1>6. serving => ~NotServing
  BY DEF NotServing
<1> QED BY <1>2, <1>3, <1>4, <1>5, <1>6 DEF ControlInv

\* A request reads, or is over.
LEMMA PostSteps ==
    ASSUME ControlInv, NEW q \in Posts,
           ReviseRead(q) \/ PostEnds(q) \/ \E s \in Surfaces : SurfaceRead(q, s)
    PROVE  ControlInv'
<1>1. /\ serving /\ AtRest /\ UNCHANGED <<profiles, surfaces, serving, unsaved, deaths, torn>> /\ ControlShape
  BY DEF ReviseRead, PostEnds, SurfaceRead, ControlInv
<1>2. CASE ReviseRead(q)
  <2>1. CurrentRevision \in DOMAIN profiles /\ CurrentRevision \in Nat /\ profiles[CurrentRevision] \in ProfileRows
    BY <1>1, <1>2, CurrentIs DEF ReviseRead, ControlShape
  <2> DEFINE x == [kind |-> "profile", revision |-> CurrentRevision, row |-> profiles[CurrentRevision]]
  <2>2. x \in ProfileReads /\ x.revision \in DOMAIN profiles /\ posts' = [posts EXCEPT ![q] = x]
    BY <1>2, <2>1 DEF ProfileReads, ReviseRead
  <2> HIDE DEF x
  <2> QED BY <1>1, <2>2, ShapeStays, AtRestIs DEF ControlInv, ControlShape, Ending, Ends, HasCurrent, LastIsCurrent, CurrentRows
<1>3. CASE PostEnds(q)
  <2>1. posts' = [posts EXCEPT ![q] = NoPost] /\ NoPost.kind # "profile"
    BY <1>3 DEF PostEnds, NoPost
  <2> QED BY <1>1, <2>1, ShapeStays, AtRestIs DEF ControlInv, ControlShape, Ending, Ends, HasCurrent, LastIsCurrent, CurrentRows
<1>4. ASSUME NEW s \in Surfaces, SurfaceRead(q, s) PROVE ControlInv'
  <2> DEFINE x == [kind |-> "surface", surface |-> s]
  <2>1. x \in SurfaceReads /\ x.kind # "profile" /\ posts' = [posts EXCEPT ![q] = x]
    BY <1>4 DEF SurfaceReads, SurfaceRead
  <2> HIDE DEF x
  <2> QED BY <1>1, <2>1, ShapeStays, AtRestIs DEF ControlInv, ControlShape, Ending, Ends, HasCurrent, LastIsCurrent, CurrentRows
<1> QED BY <1>2, <1>3, <1>4

\* A request decides what to write.
LEMMA ArrivalSteps ==
    ASSUME ControlInv, NEW q \in Posts,
           \/ \E support \in BOOLEAN : ReviseArrives(q, support)
           \/ \E tracking \in {"current", "pinned"}, pin \in 1..MaxProfiles : SurfaceArrives(q, tracking, pin)
    PROVE  ControlInv'
<1>1. ASSUME serving, AtRest, posts' = [posts EXCEPT ![q] = NoPost],
             UNCHANGED <<profiles, surfaces, serving, deaths, torn>>
      PROVE  ControlShape' /\ HasCurrent /\ HasCurrent' /\ serving' /\ (~torn => LastIsCurrent) /\ (~torn' => LastIsCurrent')
  <2>1. NoPost.kind # "profile"
    BY DEF NoPost
  <2>2. ControlShape'
    BY <1>1, <2>1, ShapeStays DEF ControlInv, ControlShape
  <2> QED BY <1>1, <2>2, AtRestIs DEF Ending, HasCurrent, LastIsCurrent, CurrentRows
<1>2. ASSUME NEW support \in BOOLEAN, ReviseArrives(q, support) PROVE ControlInv'
  <2>1. /\ serving /\ AtRest /\ posts[q].kind = "profile" /\ posts[q].revision < MaxProfiles
        /\ posts' = [posts EXCEPT ![q] = NoPost] /\ UNCHANGED <<profiles, surfaces, serving, deaths, torn>>
    BY <1>2 DEF ReviseArrives
  <2>2. posts[q] \in ProfileReads /\ posts[q].revision \in DOMAIN profiles
    BY <2>1 DEF ControlInv, ControlShape, NoPost, SurfaceReads
  <2>3. PICK n, row : n = posts[q].revision /\ row = posts[q].row
    OBVIOUS
  <2>4. row \in ProfileRows
    BY <2>2, <2>3 DEF ProfileReads
  <2>5. PICK content : content = [edits |-> row.content.edits \cup {q}, support |-> support]
    OBVIOUS
  <2>6. content \in Content
    BY <2>3, <2>4, <2>5 DEF Content, ProfileRows
  <2>7. PICK old : old = [row EXCEPT !.status = "historical"]
    OBVIOUS
  <2>8. old \in ProfileRows
    BY <2>4, <2>7 DEF ProfileRows
  <2>9. unsaved' = <<SaveProfile(n, old), SaveProfile(n + 1, Profile("current", content))>>
    BY <1>2, <2>3, <2>4, <2>5, <2>7 DEF ReviseArrives, Supersede
  <2>10. unsaved' = <<SaveProfile(n, old)>> \o (<<SaveProfile(n + 1, Profile("current", content))>> \o <<>>)
    BY <2>9, PairIs, Zenon
  <2>11. <<>> \in Seq(Closers) /\ Ends(<<>>)'
    BY <2>1 DEF Ends
  <2>12. ControlShape' /\ (~torn' => LastIsCurrent')
    BY <1>1, <2>1
  <2>13. Historying'
    <3>1. n \in DOMAIN profiles' /\ n < MaxProfiles
      BY <2>1, <2>2, <2>3
    <3> QED BY <2>6, <2>8, <2>10, <2>11, <2>12, <3>1 DEF Historying
  <2> QED BY <2>12, <2>13 DEF ControlInv
<1>3. ASSUME NEW tracking \in {"current", "pinned"}, NEW pin \in 1..MaxProfiles, SurfaceArrives(q, tracking, pin)
      PROVE  ControlInv'
  <2>1. /\ serving /\ AtRest /\ posts[q].kind = "surface" /\ (tracking = "pinned" => pin \in DOMAIN profiles)
        /\ posts' = [posts EXCEPT ![q] = NoPost] /\ UNCHANGED <<profiles, surfaces, serving, deaths, torn>>
    BY <1>3 DEF SurfaceArrives, PinExists
  <2>2. PICK row : row = Surface(tracking, pin)
    OBVIOUS
  <2>3. PICK s \in Surfaces : s = posts[q].surface
    BY <2>1 DEF ControlInv, ControlShape, NoPost, ProfileReads, SurfaceReads
  <2>4. unsaved' = <<SaveSurface(s, row)>>
    BY <1>3, <2>2, <2>3 DEF SurfaceArrives
  <2>5. row # NoSurface /\ SurfaceHolds(row)'
    <3>1. row = [tracking |-> tracking, pinned |-> IF tracking = "pinned" THEN pin ELSE 0]
      BY <2>2 DEF Surface
    <3>2. row.tracking = tracking /\ row.pinned = (IF tracking = "pinned" THEN pin ELSE 0)
      BY <3>1
    <3>3. NoSurface.tracking = "absent"
      BY DEF NoSurface
    <3> QED BY <2>1, <3>2, <3>3, ProfileAssumption DEF SurfaceHolds, Pins
  <2>6. Binding'
    BY <1>1, <2>1, <2>4, <2>5 DEF Binding
  <2> QED BY <1>1, <2>1, <2>6 DEF ControlInv
<1> QED BY <1>2, <1>3

\* The process dies: nothing is left to write.
LEMMA DeathKeeps ==
    ASSUME ControlInv, Dies
    PROVE  ControlInv'
<1>1. /\ deaths' = deaths + 1 /\ deaths < MaxDeaths /\ ~serving' /\ serving' = FALSE /\ unsaved' = <<>>
      /\ torn' = (torn \/ ~AtRest) /\ posts' = [q \in Posts |-> NoPost] /\ UNCHANGED <<profiles, surfaces>>
  BY DEF Dies
<1>2. ControlShape'
  <2>1. NoPost.kind # "profile" /\ torn' \in BOOLEAN
    BY <1>1 DEF NoPost
  <2>2. deaths' \in 0..MaxDeaths
    BY <1>1, ProfileAssumption DEF ControlInv, ControlShape
  <2> QED BY <1>1, <2>1, <2>2, ShapeStays DEF ControlInv
<1>3. ~torn' => profiles = <<>> \/ LastIsCurrent
  BY <1>1, AtRestIs DEF Ending, HasCurrent, NotServing
<1>4. NotServing'
  BY <1>1, <1>3 DEF NotServing, LastIsCurrent, CurrentRows
<1> QED BY <1>2, <1>4 DEF ControlInv

\* The start lists every surface that is not there.
LEMMA OrderLists ==
    ASSUME NEW order \in [1..Cardinality({s \in Surfaces : surfaces[s] = NoSurface}) ->
                            {s \in Surfaces : surfaces[s] = NoSurface}],
           \A i, j \in DOMAIN order : i # j => order[i] # order[j]
    PROVE  LET f == [i \in DOMAIN order |-> SaveSurface(order[i], SeedSurface)]
               q == f \o <<Serve>>
           IN  /\ f \in Seq(Closers) /\ q \in Seq(Closers) /\ Len(q) > 0 /\ q[Len(q)] = Serve
               /\ \A i \in 1..Len(q) : i < Len(q) => q[i] # Serve
               /\ \A s \in Surfaces : surfaces[s] = NoSurface =>
                    \E i \in 1..Len(q) : q[i] = SaveSurface(s, SeedSurface)
<1> DEFINE missing == {s \in Surfaces : surfaces[s] = NoSurface}
           n == Cardinality(missing)
<1>1. IsFiniteSet(missing) /\ n \in Nat
  BY ProfileAssumption, FS_Subset, FS_CardinalityType
<1>2. order \in Injection(1..n, missing)
  BY DEF Injection, IsInjective
<1>3. IsFiniteSet(1..n) /\ Cardinality(1..n) = n
  BY <1>1, FS_Interval
<1>4. order \in Surjection(1..n, missing)
  <2> HIDE DEF n, missing
  <2>1. Cardinality(missing) = n
    BY DEF n
  <2> QED BY <1>1, <1>2, <1>3, <2>1, FS_Injection
<1>5. \A s \in missing : \E i \in 1..n : order[i] = s
  BY <1>4 DEF Surjection
<1>6. PICK f : f = [i \in DOMAIN order |-> SaveSurface(order[i], SeedSurface)]
  OBVIOUS
<1>7. f \in Seq(Closers) /\ Len(f) = n /\ \A i \in 1..n : f[i] = SaveSurface(order[i], SeedSurface)
  <2>1. f = [i \in 1..n |-> SaveSurface(order[i], SeedSurface)] /\ \A i \in 1..n : order[i] \in Surfaces
    BY <1>6
  <2>2. f \in [1..n -> Closers]
    BY <2>1 DEF Closers
  <2> HIDE DEF n
  <2>3. f \in Seq(Closers) /\ Len(f) = n
    BY <1>1, <2>2
  <2> QED BY <2>1, <2>3
<1>8. PICK z : z = <<Serve>>
  OBVIOUS
<1>9. z \in Seq(Closers) /\ Len(z) = 1 /\ z[1] = Serve
  BY <1>8 DEF Closers
<1>10. PICK q : q = f \o z
  OBVIOUS
<1>11. q \in Seq(Closers) /\ Len(q) = n + 1
       /\ \A i \in 1..(n + 1) : q[i] = IF i <= n THEN f[i] ELSE z[i - n]
  <2> HIDE DEF n
  <2>1. /\ q \in Seq(Closers) /\ Len(q) = Len(f) + Len(z)
        /\ \A i \in 1..(Len(f) + Len(z)) : q[i] = IF i <= Len(f) THEN f[i] ELSE z[i - Len(f)]
    BY <1>7, <1>9, <1>10, ConcatProperties
  <2> QED BY <1>7, <1>9, <2>1
<1>12. q[n + 1] = Serve /\ \A i \in 1..n : q[i] = SaveSurface(order[i], SeedSurface)
  <2> HIDE DEF n
  <2> QED BY <1>1, <1>7, <1>9, <1>11
<1>13. \A s : SaveSurface(s, SeedSurface) # Serve
  <2>1. \A s : SaveSurface(s, SeedSurface).table = "surface" /\ Serve.table = "process"
    BY DEF SaveSurface, Serve
  <2> QED BY <2>1
<1>14. \A i \in 1..Len(q) : i < Len(q) => q[i] # Serve
  <2> HIDE DEF n
  <2> QED BY <1>1, <1>11, <1>12, <1>13
<1>15. \A s \in Surfaces : surfaces[s] = NoSurface => \E i \in 1..Len(q) : q[i] = SaveSurface(s, SeedSurface)
  <2>1. ASSUME NEW s \in missing PROVE \E i \in 1..Len(q) : q[i] = SaveSurface(s, SeedSurface)
    <3>1. PICK i \in 1..n : order[i] = s
      BY <1>5
    <3> HIDE DEF n
    <3>2. i \in 1..Len(q) /\ q[i] = SaveSurface(s, SeedSurface)
      BY <1>1, <1>11, <1>12, <3>1
    <3> QED BY <3>2
  <2> QED BY <2>1
<1>16. Len(q) > 0 /\ q[Len(q)] = Serve
  <2> HIDE DEF n
  <2> QED BY <1>1, <1>11, <1>12
<1>17. q = f \o <<Serve>>
  BY <1>8, <1>10
<1> QED BY <1>6, <1>7, <1>11, <1>14, <1>15, <1>16, <1>17

\* The start lists what it will write, in each of its three cases.
LEMMA BootKeeps ==
    ASSUME ControlInv, Boot
    PROVE  ControlInv'
<1>1. PICK n, row : /\ n = IF CurrentRows = {} THEN 1 ELSE CurrentRevision
                    /\ row = IF CurrentRows = {} THEN SeedProfile ELSE profiles[n]
  OBVIOUS
<1>2. PICK upgrade : upgrade = IF row.content.support \/ n >= MaxProfiles THEN <<>>
                               ELSE Supersede(n, row, WithSupport(row.content))
  OBVIOUS
<1>3. PICK order \in [1..Cardinality({s \in Surfaces : surfaces[s] = NoSurface}) ->
                        {s \in Surfaces : surfaces[s] = NoSurface}] :
        /\ \A i, j \in DOMAIN order : i # j => order[i] # order[j]
        /\ unsaved' = SeedIfNone \o upgrade
             \o [i \in DOMAIN order |-> SaveSurface(order[i], SeedSurface)] \o <<Serve>>
  BY <1>1, <1>2 DEF Boot
<1>4. PICK f : f = [i \in DOMAIN order |-> SaveSurface(order[i], SeedSurface)]
  OBVIOUS
<1>5. PICK q : q = f \o <<Serve>>
  OBVIOUS
<1>6. /\ ~serving /\ AtRest /\ UNCHANGED <<profiles, surfaces, serving, posts, deaths, torn>>
      /\ unsaved' = ((SeedIfNone \o upgrade) \o f) \o <<Serve>>
  BY <1>3, <1>4 DEF Boot
<1>7. /\ f \in Seq(Closers) /\ q \in Seq(Closers) /\ Len(q) > 0 /\ q[Len(q)] = Serve
      /\ \A i \in 1..Len(q) : i < Len(q) => q[i] # Serve
      /\ \A s \in Surfaces : surfaces[s] = NoSurface => \E i \in 1..Len(q) : q[i] = SaveSurface(s, SeedSurface)
  BY <1>3, <1>4, <1>5, OrderLists
<1>8. Ends(q)'
  BY <1>6, <1>7 DEF Ends
<1>9. ControlShape' /\ NotServing
  BY <1>6, ShapeStays, AtRestIs DEF ControlInv, ControlShape
<1>10. Serve \in Closers
  BY DEF Closers
<1>11. ASSUME NEW a, NEW b
       PROVE  /\ ((<<>> \o <<>>) \o f) \o <<Serve>> = q
              /\ ((<<a>> \o <<>>) \o f) \o <<Serve>> = <<a>> \o q
              /\ ((<<>> \o <<a, b>>) \o f) \o <<Serve>> = <<a>> \o (<<b>> \o q)
  <2>1. PICK v, w, x, u, T : /\ v = <<a>> /\ w = <<b>> /\ x = <<Serve>> /\ u = <<a, b>>
                             /\ T = Closers \cup {a, b}
    OBVIOUS
  <2>2. v \in Seq(T) /\ w \in Seq(T) /\ x \in Seq(T) /\ f \in Seq(T)
    BY <1>7, <1>10, <2>1
  <2>3. /\ ((<<>> \o <<>>) \o f) \o x = f \o x
        /\ ((v \o <<>>) \o f) \o x = v \o (f \o x)
        /\ ((<<>> \o u) \o f) \o x = v \o (w \o (f \o x))
    <3>1. <<a, b>> = <<a>> \o <<b>>
      BY PairIs, Zenon
    <3>2. u = v \o w
      BY <2>1, <3>1
    <3>3. PICK r : r = f \o x
      OBVIOUS
    <3>4. r \in Seq(T) /\ <<>> \in Seq(T) /\ u \in Seq(T)
      BY <2>2, <3>2, <3>3, ConcatProperties
    <3>5. <<>> \o <<>> = <<>> /\ <<>> \o f = f /\ v \o <<>> = v /\ <<>> \o u = u
      BY <2>2, <3>4, ConcatEmptySeq
    <3>6. (v \o f) \o x = v \o r
      BY <2>2, <3>3, ConcatAssociative, SMTT(60)
    <3>7. (u \o f) \o x = u \o r
      BY <2>2, <3>3, <3>4, ConcatAssociative, SMTT(60)
    <3>8. u \o r = v \o (w \o r)
      BY <2>2, <3>2, <3>4, ConcatAssociative, SMTT(60)
    <3> QED BY <3>3, <3>5, <3>6, <3>7, <3>8
  <2> QED BY <1>5, <2>1, <2>3
<1>12. CASE CurrentRows = {}
  <2>1. row.content = [edits |-> {}, support |-> TRUE] /\ row.content.support
    BY <1>1, <1>12 DEF SeedProfile, Profile
  <2>2. upgrade = <<>> /\ SeedIfNone = <<SaveProfile(1, SeedProfile)>>
    BY <1>2, <1>12, <2>1 DEF SeedIfNone
  <2>3. unsaved' = <<SaveProfile(1, SeedProfile)>> \o q
    BY <1>6, <1>11, <2>2
  <2>4. PICK content : content = [edits |-> {}, support |-> TRUE]
    OBVIOUS
  <2>5. content \in Content /\ SeedProfile = Profile("current", content)
    BY <2>4 DEF Content, SeedProfile
  <2>6. unsaved' = <<SaveProfile(0 + 1, Profile("current", content))>> \o q
    BY <2>3, <2>5
  <2>7. torn' \/ Len(profiles') = 0
    BY <1>6, <1>9, <1>12 DEF NotServing, LastIsCurrent, ControlShape
  <2>8. 0 \in 0..Len(profiles') /\ 0 < MaxProfiles
    BY <1>9, ProfileAssumption DEF ControlShape
  <2>9. Heading'
    BY <1>7, <1>8, <2>5, <2>6, <2>7, <2>8 DEF Heading
  <2> QED BY <1>9, <2>9 DEF ControlInv
<1>13. CASE CurrentRows # {} /\ upgrade = <<>>
  <2>1. unsaved' = q
    BY <1>6, <1>11, <1>13 DEF SeedIfNone
  <2>2. ~torn => LastIsCurrent
    BY <1>9, <1>13 DEF NotServing, LastIsCurrent, CurrentRows
  <2>3. HasCurrent'
    BY <1>6, <1>13, <2>2 DEF HasCurrent, LastIsCurrent, CurrentRows
  <2> QED BY <1>7, <1>8, <1>9, <2>1, <2>3 DEF ControlInv, Ending
<1>14. CASE CurrentRows # {} /\ upgrade # <<>>
  <2>1. n \in DOMAIN profiles /\ row \in ProfileRows /\ n < MaxProfiles /\ ControlShape
    <3>1. n \in DOMAIN profiles /\ row = profiles[n]
      BY <1>1, <1>14, CurrentIs DEF ControlInv
    <3>2. ~(n >= MaxProfiles)
      BY <1>2, <1>14
    <3> QED BY <3>1, <3>2, ProfileAssumption DEF ControlInv, ControlShape
  <2>2. PICK old : old = [row EXCEPT !.status = "historical"]
    OBVIOUS
  <2>3. PICK content : content = WithSupport(row.content)
    OBVIOUS
  <2>4. old \in ProfileRows /\ content \in Content
    BY <2>1, <2>2, <2>3 DEF ProfileRows, Content, WithSupport
  <2>5. upgrade = <<SaveProfile(n, old), SaveProfile(n + 1, Profile("current", content))>>
    BY <1>2, <1>14, <2>2, <2>3 DEF Supersede
  <2>6. unsaved' = <<SaveProfile(n, old)>> \o (<<SaveProfile(n + 1, Profile("current", content))>> \o q)
    BY <1>6, <1>11, <1>14, <2>5 DEF SeedIfNone
  <2>7. ~torn' => LastIsCurrent'
    BY <1>6, <1>9, <1>14 DEF NotServing, LastIsCurrent, CurrentRows
  <2>8. Historying'
    BY <1>6, <1>7, <1>8, <2>1, <2>4, <2>6, <2>7 DEF Historying
  <2> QED BY <1>9, <2>8 DEF ControlInv
<1> QED BY <1>12, <1>13, <1>14

-----------------------------------------------------------------------------
\* A revision is written over, or after, those that are there.
LEMMA SavesProfile ==
    ASSUME ControlShape, Save, NEW n, NEW row \in ProfileRows, Head(unsaved) = SaveProfile(n, row),
           n \in 1..(Len(profiles) + 1), n <= MaxProfiles
    PROVE  /\ ControlShape' /\ UNCHANGED <<surfaces, serving, torn>> /\ unsaved' = Tail(unsaved)
           /\ Len(profiles') = (IF n = Len(profiles) + 1 THEN n ELSE Len(profiles))
           /\ \A k \in DOMAIN profiles' : profiles'[k] = IF k = n THEN row ELSE profiles[k]
           /\ n \in DOMAIN profiles' /\ DOMAIN profiles \subseteq DOMAIN profiles'
<1>1. PICK w : w = Head(unsaved)
  OBVIOUS
<1>2. w.table = "profile" /\ w.key = n /\ w.value = row
  BY <1>1 DEF SaveProfile
<1>3. /\ profiles' = (IF n = Len(profiles) + 1 THEN Append(profiles, row) ELSE [profiles EXCEPT ![n] = row])
      /\ surfaces' = surfaces /\ serving' = serving /\ UNCHANGED <<posts, deaths, torn>>
      /\ unsaved' = Tail(unsaved)
  BY <1>1, <1>2 DEF Save
<1>4. profiles \in Seq(ProfileRows) /\ Len(profiles) \in Nat /\ DOMAIN profiles = 1..Len(profiles)
  BY DEF ControlShape
<1>5. /\ profiles' \in Seq(ProfileRows) /\ Len(profiles') = (IF n = Len(profiles) + 1 THEN n ELSE Len(profiles))
      /\ \A k \in DOMAIN profiles' : profiles'[k] = IF k = n THEN row ELSE profiles[k]
      /\ DOMAIN profiles' = 1..Len(profiles')
  <2>1. CASE n = Len(profiles) + 1
    BY <1>3, <1>4, <2>1
  <2>2. CASE n # Len(profiles) + 1
    BY <1>3, <1>4, <2>2
  <2> QED BY <2>1, <2>2
<1>6. n \in DOMAIN profiles' /\ DOMAIN profiles \subseteq DOMAIN profiles'
  BY <1>4, <1>5
<1>7. ControlShape'
  BY <1>3, <1>5, <1>6 DEF ControlShape, SurfaceHolds
<1> QED BY <1>3, <1>5, <1>6, <1>7

\* A surface is written; revisions stay.
LEMMA SavesSurface ==
    ASSUME ControlShape, Save, NEW s \in Surfaces, NEW row, row # NoSurface, SurfaceHolds(row),
           Head(unsaved) = SaveSurface(s, row)
    PROVE  /\ ControlShape' /\ UNCHANGED <<profiles, serving, torn>> /\ unsaved' = Tail(unsaved)
           /\ \A t \in Surfaces : surfaces'[t] = IF t = s THEN row ELSE surfaces[t]
<1>1. PICK w : w = Head(unsaved)
  OBVIOUS
<1>2. w.table = "surface" /\ w.key = s /\ w.value = row
  BY <1>1 DEF SaveSurface
<1>3. /\ surfaces' = [surfaces EXCEPT ![s] = row]
      /\ profiles' = profiles /\ serving' = serving /\ UNCHANGED <<posts, deaths, torn>>
      /\ unsaved' = Tail(unsaved)
  BY <1>1, <1>2 DEF Save
<1>4. \A t \in Surfaces : surfaces'[t] = IF t = s THEN row ELSE surfaces[t]
  BY <1>3 DEF ControlShape
<1>5. ControlShape'
  BY <1>3, <1>4 DEF ControlShape, SurfaceHolds
<1> QED BY <1>3, <1>4, <1>5

\* The surface a start writes is there and tracks the current revision.
LEMMA SeedHolds == SeedSurface # NoSurface /\ (MaxProfiles \in Nat => SurfaceHolds(SeedSurface))
<1>1. SeedSurface = [tracking |-> "current", pinned |-> 0]
  BY DEF SeedSurface, Surface
<1>2. SeedSurface.tracking = "current" /\ SeedSurface.pinned = 0 /\ NoSurface.tracking = "absent"
  BY <1>1 DEF NoSurface
<1> QED BY <1>2 DEF SurfaceHolds, Pins

\* The start writes its surfaces one by one, and serves in the end.
LEMMA EndingKeeps ==
    ASSUME ControlShape, Ending, Save
    PROVE  ControlInv'
<1>1. unsaved # <<>> /\ unsaved \in Seq(Closers) /\ Len(unsaved) \in Nat /\ Len(unsaved) # 0 /\ ~serving
  BY DEF Save, Ending, Ends
<1>2. /\ unsaved[Len(unsaved)] = Serve
      /\ \A i \in 1..Len(unsaved) : i < Len(unsaved) => unsaved[i] # Serve
      /\ \A s \in Surfaces : surfaces[s] = NoSurface => \E i \in 1..Len(unsaved) : unsaved[i] = SaveSurface(s, SeedSurface)
  BY <1>1 DEF Ending, Ends
<1>3. /\ Head(unsaved) = unsaved[1] /\ unsaved[1] \in Closers
      /\ Tail(unsaved) \in Seq(Closers) /\ Len(Tail(unsaved)) = Len(unsaved) - 1
      /\ \A i \in 1..(Len(unsaved) - 1) : Tail(unsaved)[i] = unsaved[i + 1]
  BY <1>1
<1>4. \A s : SaveSurface(s, SeedSurface) # Serve
  <2>1. \A s : SaveSurface(s, SeedSurface).table = "surface" /\ Serve.table = "process"
    BY DEF SaveSurface, Serve
  <2> QED BY <2>1
<1>5. CASE Len(unsaved) = 1
  <2>1. unsaved[1] = Serve /\ \A s \in Surfaces : surfaces[s] # NoSurface
    BY <1>2, <1>4, <1>5
  <2>2. PICK w : w = Head(unsaved)
    OBVIOUS
  <2>3. w.table = "process"
    BY <1>3, <2>1, <2>2 DEF Serve
  <2>4. serving' = TRUE /\ UNCHANGED <<profiles, surfaces, posts, deaths, torn>> /\ unsaved' = <<>>
    <3>1. Tail(unsaved) = <<>>
      <4>1. PICK t : t = Tail(unsaved)
        OBVIOUS
      <4>2. t \in Seq(Closers) /\ Len(t) = 0
        BY <1>3, <1>5, <4>1
      <4> QED BY <4>1, <4>2, EmptySeq
    <3> QED BY <2>2, <2>3, <3>1 DEF Save
  <2>5. ControlShape'
    BY <2>1, <2>4 DEF ControlShape, SurfaceHolds
  <2>6. Ending'
    BY <2>4 DEF Ending, Ends, HasCurrent, LastIsCurrent, CurrentRows
  <2> QED BY <2>5, <2>6 DEF ControlInv
<1>6. CASE Len(unsaved) # 1
  <2>1. unsaved[1] # Serve
    <3>1. 1 \in 1..Len(unsaved) /\ 1 < Len(unsaved)
      <4>1. PICK l \in Nat : l = Len(unsaved) /\ l # 0 /\ l # 1
        BY <1>1, <1>6
      <4> QED BY <4>1
    <3> QED BY <1>2, <3>1
  <2>2. PICK s \in Surfaces : Head(unsaved) = SaveSurface(s, SeedSurface)
    BY <1>3, <2>1 DEF Closers
  <2>3. /\ ControlShape' /\ UNCHANGED <<profiles, serving, torn>> /\ unsaved' = Tail(unsaved)
        /\ \A t \in Surfaces : surfaces'[t] = IF t = s THEN SeedSurface ELSE surfaces[t]
    BY <2>2, SeedHolds, SavesSurface, ProfileAssumption
  <2>4. \A t \in Surfaces : surfaces'[t] = NoSurface =>
          \E i \in 1..Len(unsaved') : unsaved'[i] = SaveSurface(t, SeedSurface)
    <3> SUFFICES ASSUME NEW t \in Surfaces, surfaces'[t] = NoSurface
                 PROVE  \E i \in 1..Len(unsaved') : unsaved'[i] = SaveSurface(t, SeedSurface)
      OBVIOUS
    <3>1. t # s /\ surfaces[t] = NoSurface
      BY <2>3, SeedHolds
    <3>2. PICK i \in 1..Len(unsaved) : unsaved[i] = SaveSurface(t, SeedSurface)
      BY <1>2, <3>1
    <3>3. i # 1
      <4>1. SaveSurface(t, SeedSurface).key = t /\ SaveSurface(s, SeedSurface).key = s
        BY DEF SaveSurface
      <4> QED BY <1>3, <2>2, <3>1, <3>2, <4>1
    <3>4. i - 1 \in 1..(Len(unsaved) - 1) /\ (i - 1) + 1 = i
      BY <1>1, <3>3
    <3> QED BY <1>3, <2>3, <3>2, <3>4
  <2>5. Len(unsaved') > 0 /\ unsaved'[Len(unsaved')] = Serve
        /\ \A i \in 1..Len(unsaved') : i < Len(unsaved') => unsaved'[i] # Serve
    BY <1>1, <1>2, <1>3, <1>6, <2>3
  <2>6. Ending'
    BY <1>1, <1>3, <2>3, <2>4, <2>5 DEF Ending, Ends, HasCurrent, LastIsCurrent, CurrentRows
  <2> QED BY <2>3, <2>6 DEF ControlInv
<1> QED BY <1>5, <1>6

\* A surface of a handler
LEMMA BindingKeeps ==
    ASSUME ControlShape, Binding, Save
    PROVE  ControlInv'
<1>0. PICK s \in Surfaces : \E row : unsaved = <<SaveSurface(s, row)>> /\ row # NoSurface /\ SurfaceHolds(row)
  BY DEF Binding
<1>1. PICK row : unsaved = <<SaveSurface(s, row)>> /\ row # NoSurface /\ SurfaceHolds(row)
  BY <1>0
<1>2. Head(unsaved) = SaveSurface(s, row) /\ Tail(unsaved) = <<>>
  BY <1>1
<1>3. ControlShape' /\ UNCHANGED <<profiles, serving, torn>> /\ unsaved' = <<>>
  BY <1>1, <1>2, SavesSurface
<1>4. Ending'
  BY <1>3 DEF Binding, Ending, Ends, HasCurrent, LastIsCurrent, CurrentRows
<1> QED BY <1>3, <1>4 DEF ControlInv

\* The revision that comes into force
LEMMA HeadingKeeps ==
    ASSUME ControlShape, Heading, Save
    PROVE  ControlInv'
<1>1. PICK n \in 0..Len(profiles), content \in Content, q \in Seq(Closers) :
        /\ unsaved = <<SaveProfile(n + 1, Profile("current", content))>> \o q
        /\ n < MaxProfiles /\ Ends(q) /\ (torn \/ LastIsCurrent \/ Len(profiles) = n)
  BY DEF Heading
<1>2. PICK row : row = Profile("current", content)
  OBVIOUS
<1>3. row \in ProfileRows /\ row.status = "current"
  BY <1>2 DEF Profile, ProfileRows
<1>4. Head(unsaved) = SaveProfile(n + 1, row) /\ Tail(unsaved) = q
  BY <1>1, <1>2, HeadAndTail
<1>5. n \in Nat /\ Len(profiles) \in Nat /\ n + 1 \in 1..(Len(profiles) + 1) /\ n + 1 <= MaxProfiles
      /\ DOMAIN profiles = 1..Len(profiles)
  BY <1>1, ProfileAssumption DEF ControlShape
<1>6. /\ ControlShape' /\ UNCHANGED <<surfaces, serving, torn>> /\ unsaved' = q
      /\ Len(profiles') = (IF n + 1 = Len(profiles) + 1 THEN n + 1 ELSE Len(profiles))
      /\ \A k \in DOMAIN profiles' : profiles'[k] = IF k = n + 1 THEN row ELSE profiles[k]
      /\ n + 1 \in DOMAIN profiles' /\ DOMAIN profiles \subseteq DOMAIN profiles'
  BY <1>3, <1>4, <1>5, SavesProfile
<1>7. n + 1 \in CurrentRows'
  BY <1>3, <1>6 DEF CurrentRows
<1>8. ~torn' => LastIsCurrent'
  <2>1. CASE Len(profiles) = n
    BY <1>6, <1>7, <2>1 DEF LastIsCurrent
  <2>2. CASE LastIsCurrent /\ Len(profiles) # n
    BY <1>3, <1>5, <1>6, <2>2 DEF LastIsCurrent, CurrentRows
  <2> QED BY <1>1, <1>6, <2>1, <2>2
<1>9. Ending'
  BY <1>1, <1>6, <1>7, <1>8 DEF Ending, Ends, HasCurrent
<1> QED BY <1>6, <1>9 DEF ControlInv

\* The revision that is superseded
LEMMA SupersedingKeeps ==
    ASSUME ControlShape, Historying, Save
    PROVE  ControlInv'
<1>1. PICK n \in DOMAIN profiles, row \in ProfileRows, content \in Content, q \in Seq(Closers) :
         /\ unsaved = <<SaveProfile(n, row)>> \o (<<SaveProfile(n + 1, Profile("current", content))>> \o q)
         /\ n < MaxProfiles /\ Ends(q)
  BY DEF Historying
<1>2. PICK b, rest : b = SaveProfile(n + 1, Profile("current", content)) /\ rest = <<b>> \o q
  OBVIOUS
<1>3. rest \in Seq(Closers \cup {b})
  <2>1. <<b>> \in Seq(Closers \cup {b}) /\ q \in Seq(Closers \cup {b})
    OBVIOUS
  <2> QED BY <1>2, <2>1, ConcatProperties
<1>4. Head(unsaved) = SaveProfile(n, row) /\ Tail(unsaved) = rest
  BY <1>1, <1>2, <1>3, HeadAndTail
<1>5. n \in Nat /\ Len(profiles) \in Nat /\ n \in 1..(Len(profiles) + 1) /\ n <= MaxProfiles
      /\ DOMAIN profiles = 1..Len(profiles) /\ n # Len(profiles) + 1
  BY <1>1, ProfileAssumption DEF ControlShape
<1>6. /\ ControlShape' /\ UNCHANGED <<surfaces, serving, torn>> /\ unsaved' = rest
      /\ Len(profiles') = Len(profiles)
      /\ \A k \in DOMAIN profiles' : profiles'[k] = IF k = n THEN row ELSE profiles[k]
      /\ DOMAIN profiles \subseteq DOMAIN profiles'
  BY <1>4, <1>5, SavesProfile
<1>7. torn' \/ LastIsCurrent' \/ Len(profiles') = n
  BY <1>5, <1>6 DEF Historying, LastIsCurrent, CurrentRows
<1>8. Ends(q)' /\ n \in 0..Len(profiles')
  <2>1. Ends(q)'
    BY <1>1, <1>6 DEF Ends
  <2>2. n \in 0..Len(profiles')
    BY <1>5, <1>6
  <2> QED BY <2>1, <2>2
<1>9. unsaved' = <<SaveProfile(n + 1, Profile("current", content))>> \o q
  BY <1>2, <1>6
<1>10. Heading'
  BY <1>1, <1>7, <1>8, <1>9 DEF Heading
<1> QED BY <1>6, <1>10 DEF ControlInv

-----------------------------------------------------------------------------
\* The invariant holds at first and over every step.
LEMMA ControlInvInit == ControlInit => ControlInv
<1> SUFFICES ASSUME ControlInit PROVE ControlInv
  OBVIOUS
<1>1. profiles = <<>> /\ unsaved = <<>> /\ ~serving /\ \A s \in Surfaces : surfaces[s] = NoSurface
  BY DEF ControlInit
<1>2. ControlShape
  <2>1. profiles \in Seq(ProfileRows) /\ Len(profiles) <= MaxProfiles
    BY <1>1, ProfileAssumption
  <2>2. \A q \in Posts : posts[q] = NoPost /\ NoPost.kind # "profile"
    BY DEF ControlInit, NoPost
  <2>3. surfaces = [s \in Surfaces |-> surfaces[s]] /\ posts \in [Posts -> {NoPost}]
    BY DEF ControlInit
  <2>4. serving \in BOOLEAN /\ torn \in BOOLEAN
    BY DEF ControlInit
  <2>5. deaths \in 0..MaxDeaths
    BY ProfileAssumption DEF ControlInit
  <2> QED BY <1>1, <2>1, <2>2, <2>3, <2>4, <2>5 DEF ControlShape, SurfaceHolds
<1>3. NotServing
  BY <1>1 DEF NotServing
<1> QED BY <1>2, <1>3 DEF ControlInv

\* Each of the steps above, and a step of another part
LEMMA ControlInvKept == ControlInv /\ [ControlNext]_controlVars => ControlInv'
<1> SUFFICES ASSUME ControlInv, [ControlNext]_controlVars PROVE ControlInv'
  OBVIOUS
<1>1. CASE UNCHANGED controlVars
  <2>1. UNCHANGED <<profiles, surfaces, serving, posts, unsaved, deaths, torn>>
    BY <1>1 DEF controlVars
  <2>2. ControlShape'
    BY <2>1 DEF ControlInv, ControlShape, SurfaceHolds
  <2>3. \A q : Ends(q)' = Ends(q)
    BY <2>1 DEF Ends
  <2>4. LastIsCurrent' = LastIsCurrent /\ HasCurrent' = HasCurrent /\ NotServing' = NotServing
    BY <2>1 DEF LastIsCurrent, HasCurrent, NotServing, CurrentRows
  <2>5. Binding => Binding'
    BY <2>1, <2>4 DEF Binding, SurfaceHolds
  <2>6. (Ending => Ending') /\ (Heading => Heading') /\ (Historying => Historying')
    BY <2>1, <2>3, <2>4 DEF Ending, Heading, Historying
  <2> QED BY <2>2, <2>4, <2>5, <2>6 DEF ControlInv
<1>2. CASE Save
  <2>1. ~NotServing
    BY <1>2 DEF Save, NotServing
  <2> QED BY <1>2, <2>1, EndingKeeps, BindingKeeps, HeadingKeeps, SupersedingKeeps DEF ControlInv
<1>3. CASE ControlNext
  BY <1>2, <1>3, PostSteps, ArrivalSteps, DeathKeeps, BootKeeps DEF ControlNext
<1> QED BY <1>1, <1>3

\* A process at rest that serves is at the end of its writes.
LEMMA ControlInvImplies == ControlInv => SurfacesServed
<1> SUFFICES ASSUME ControlInv PROVE SurfacesServed
  OBVIOUS
<1>1. ControlTypeOK
  <2>1. Len(profiles) \in Nat /\ DOMAIN profiles = 1..Len(profiles)
    BY DEF ControlInv, ControlShape
  <2>2. \A s \in Surfaces : surfaces[s] = NoSurface \/
          (surfaces[s].tracking \in {"current", "pinned"} /\ surfaces[s].pinned \in 0..MaxProfiles)
    BY <2>1, ProfileAssumption DEF ControlInv, ControlShape, SurfaceHolds, Pins
  <2> QED BY <2>2 DEF ControlInv, ControlShape, ControlTypeOK, ProfileRows
<1>2. ASSUME serving, AtRest PROVE CurrentRows # {} /\ (~torn => LastIsCurrent) /\ ControlShape
  BY <1>2, AtRestIs DEF Ending, HasCurrent, ControlInv
<1>3. Resolves
  BY <1>2 DEF Resolves, Resolvable, ControlShape, SurfaceHolds
<1>4. TracksLast
  BY <1>2, CurrentIs DEF TracksLast
<1> QED BY <1>1, <1>3, <1>4 DEF SurfacesServed

\* Whoever asks a serving process at rest for a surface gets a revision that is
\* there, and one that tracks gets the last revision unless the process has died
\* inside a handler, for any surfaces, requests and number of revisions
\* (assistant-control-plane.ts, server.ts: ensureLandingAssistantControlPlane).
THEOREM ControlHolds == ControlSpec => []SurfacesServed
BY ControlInvInit, ControlInvKept, ControlInvImplies, PTL DEF ControlSpec

-----------------------------------------------------------------------------
(* Recognition: consents and templates, faces, voices                        *)

HouseFiles == [Subjects -> [consented : BOOLEAN, template : BOOLEAN]]
ScriptSteps == {"none", "change", "changing", "check", "embedding", "store", "storing", "over"}
ScriptRecords ==
    [op : {"none", "enrol", "revoke", "forget"}, of : Subjects \cup {"nobody"}, at : ScriptSteps,
     copy : HouseFiles \cup {<<>>}]

\* A script that writes has a copy of the file and a subject.
ScriptHolds(x) ==
    /\ x \in ScriptRecords
    /\ x.at # "none" => x.of \in Subjects
    /\ x.at \in {"changing", "storing"} => x.copy \in HouseFiles

FileInv ==
    /\ vault \in HouseFiles /\ lost \in BOOLEAN /\ withdrawn \in [Subjects -> Nat]
    /\ script = [k \in Scripts |-> script[k]] /\ \A k \in Scripts : ScriptHolds(script[k])
    /\ TemplatesAllowed

\* The consent of x, since time t: there now, or withdrawn after it.
KnownSince(x, t) == vault[x].consented \/ withdrawn[x] >= t

PhotoRecords == [at : {"none", "embedding", "answered"}, asked : Nat, may : SUBSET Subjects]

\* Whom a photo at work may name, and whom the hint names, had consented not
\* long ago.
PhotoHolds(x) ==
    x.at = "embedding" =>
      /\ x.asked <= moment /\ moment - x.asked <= EmbedLimit
      /\ \A y \in x.may : KnownSince(y, x.asked)

HintHolds ==
    \/ faceHint = NoFace
    \/ /\ faceHint \in [of : Subjects, at : Nat]
       /\ faceHint.at <= moment /\ KnownSince(faceHint.of, faceHint.at - EmbedLimit)

FaceInv ==
    /\ moment \in Nat /\ photo \in [Photos -> PhotoRecords] /\ \A p \in Photos : PhotoHolds(photo[p])
    /\ HintHolds
    /\ led \in Seq([of : Subjects \cup {"nobody"}, gone : Int]) /\ WithdrawnSoonForgotten

\* The buffer holds what was spoken up to now.  Where an utterance waits to be
\* handled that is not aside, it holds nothing else; where none waits, it holds
\* the one that is spoken, unless that is aside.
AudioInv ==
    /\ spoken \in 1..(MaxSpoken + 1) /\ audio \in Seq(1..MaxSpoken) /\ finals \in Seq(1..MaxSpoken)
    /\ named \in [1..MaxSpoken -> Seq(1..MaxSpoken)]
    /\ \A i \in DOMAIN audio : audio[i] <= spoken
    /\ (finals # <<>> /\ \E i \in DOMAIN audio : audio[i] = spoken) =>
         spoken \in aside /\ \A i \in DOMAIN finals : finals[i] \in aside
    /\ finals # <<>> /\ Head(finals) \notin aside => \A i \in DOMAIN audio : audio[i] = Head(finals)
    /\ finals = <<>> /\ spoken \notin aside => \A i \in DOMAIN audio : audio[i] = spoken
    /\ HeardOnce

HouseInv == FileInv /\ FaceInv /\ AudioInv

LEMMA HouseStarts == ASSUME HouseInit PROVE HouseInv
<1>1. FileInv
  <2>1. vault \in HouseFiles
    BY DEF HouseInit, HouseFiles, NotKnown
  <2>2. \A k \in Scripts : script[k] = NotLaunchedYet
    BY DEF HouseInit
  <2>3. ScriptHolds(NotLaunchedYet)
    BY DEF ScriptHolds, NotLaunchedYet, ScriptRecords, ScriptSteps
  <2>4. script = [k \in Scripts |-> script[k]] /\ TemplatesAllowed /\ lost \in BOOLEAN /\ withdrawn \in [Subjects -> Nat]
    BY DEF HouseInit, TemplatesAllowed, NotKnown
  <2> QED BY <2>1, <2>2, <2>3, <2>4 DEF FileInv
<1>2. FaceInv
  <2>1. photo \in [Photos -> PhotoRecords] /\ \A p \in Photos : photo[p].at = "none"
    BY DEF HouseInit, NotPosted, PhotoRecords
  <2>2. led = <<>> /\ moment = 1 /\ faceHint = NoFace
    BY DEF HouseInit
  <2> QED BY <2>1, <2>2 DEF FaceInv, PhotoHolds, HintHolds, WithdrawnSoonForgotten
<1>3. AudioInv
  <2>1. /\ audio = <<>> /\ finals = <<>> /\ spoken = 1 /\ named = [u \in 1..MaxSpoken |-> <<>>]
    BY DEF HouseInit
  <2>2. MaxSpoken \in Nat
    BY RecognitionAssumption
  <2>3. named \in [1..MaxSpoken -> Seq(1..MaxSpoken)] /\ HeardOnce
    BY <2>1 DEF HeardOnce
  <2> QED BY <2>1, <2>2, <2>3 DEF AudioInv
<1> QED BY <1>1, <1>2, <1>3 DEF HouseInv

-----------------------------------------------------------------------------
(* The file *)

\* What a write leaves, if what it writes is in order.
LEMMA WritesKeep ==
    ASSUME FileInv, FaceInv, NEW k \in Scripts, script[k].at \in {"changing", "storing"},
           NEW subject \in [consented : BOOLEAN, template : BOOLEAN],
           subject.template => subject.consented,
           Writes(k, script[k].of, subject), UNCHANGED <<faceVars, moment>>
    PROVE  /\ vault' \in HouseFiles /\ lost' \in BOOLEAN /\ withdrawn' \in [Subjects -> Nat]
           /\ TemplatesAllowed' /\ FaceInv'
<1> DEFINE copy == script[k].copy
           x == script[k].of
<1>1. copy \in HouseFiles /\ x \in Subjects
  BY DEF FileInv, ScriptHolds
<1>2. /\ vault' = [copy EXCEPT ![x] = subject] /\ lost' = (lost \/ vault # copy)
      /\ withdrawn' = [y \in Subjects |-> IF vault[y].consented /\ ~vault'[y].consented THEN moment ELSE withdrawn[y]]
  BY DEF Writes
<1> HIDE DEF copy, x
<1>3. vault' \in HouseFiles /\ lost' \in BOOLEAN
  BY <1>1, <1>2 DEF HouseFiles, FileInv
<1>4. withdrawn' \in [Subjects -> Nat]
  BY <1>2 DEF FileInv, FaceInv
<1>5. TemplatesAllowed'
  <2> SUFFICES ASSUME ~lost', NEW y \in Subjects, vault'[y].template PROVE vault'[y].consented
    BY DEF TemplatesAllowed
  <2>1. ~lost /\ copy = vault
    BY <1>2 DEF FileInv
  <2>2. \A z \in Subjects : vault[z].template => vault[z].consented
    BY <2>1 DEF FileInv, TemplatesAllowed
  <2>3. CASE y = x
    <3>1. vault'[y] = subject
      BY <2>3, <1>1, <1>2 DEF HouseFiles
    <3> QED BY <3>1
  <2>4. CASE y # x
    <3>1. vault'[y] = vault[y]
      BY <2>1, <2>4, <1>1, <1>2 DEF HouseFiles
    <3> QED BY <3>1, <2>2
  <2> QED BY <2>3, <2>4
<1>6. ASSUME NEW y \in Subjects, NEW t \in Int, t <= moment, vault[y].consented \/ withdrawn[y] >= t
      PROVE  vault'[y].consented \/ withdrawn'[y] >= t
  BY <1>2, <1>6 DEF FaceInv
<1>7. FaceInv'
  <2>1. moment' = moment /\ photo' = photo /\ faceHint' = faceHint /\ led' = led
    BY DEF faceVars
  <2>2. \A p \in Photos : PhotoHolds(photo[p])'
    <3> SUFFICES ASSUME NEW p \in Photos, photo[p].at = "embedding", NEW y \in photo[p].may
                 PROVE  KnownSince(y, photo[p].asked)'
      BY <2>1 DEF PhotoHolds, FaceInv
    <3>1. y \in Subjects /\ photo[p].asked \in Nat
      BY DEF FaceInv, PhotoRecords
    <3>2. photo[p].asked <= moment /\ KnownSince(y, photo[p].asked)
      BY DEF FaceInv, PhotoHolds
    <3>3. photo[p].asked \in Int
      BY <3>1
    <3>4. vault'[y].consented \/ withdrawn'[y] >= photo[p].asked
      BY <3>1, <3>2, <3>3, <1>6 DEF KnownSince
    <3> QED BY <3>4, <2>1 DEF KnownSince
  <2>3. HintHolds'
    <3>1. CASE faceHint = NoFace
      BY <3>1, <2>1 DEF HintHolds
    <3>2. CASE faceHint # NoFace
      <4>1. /\ faceHint \in [of : Subjects, at : Nat] /\ faceHint.at <= moment
            /\ KnownSince(faceHint.of, faceHint.at - EmbedLimit)
        BY <3>2 DEF FaceInv, HintHolds
      <4>2. faceHint.at - EmbedLimit \in Int /\ faceHint.at - EmbedLimit <= moment
        BY <4>1, RecognitionAssumption DEF FaceInv
      <4>3. KnownSince(faceHint.of, faceHint.at - EmbedLimit)'
        BY <4>1, <4>2, <1>6, <2>1 DEF KnownSince
      <4> QED BY <4>1, <4>3, <2>1 DEF HintHolds
    <3> QED BY <3>1, <3>2
  <2> QED BY <2>1, <2>2, <2>3 DEF FaceInv, WithdrawnSoonForgotten
<1> QED BY <1>3, <1>4, <1>5, <1>7

\* A script moves on without a write.
LEMMA ScriptMoves ==
    ASSUME FileInv, NEW k \in Scripts, NEW x, ScriptHolds(x), script' = [script EXCEPT ![k] = x],
           vault' \in HouseFiles, lost' \in BOOLEAN, withdrawn' \in [Subjects -> Nat], TemplatesAllowed'
    PROVE  FileInv'
BY DEF FileInv

LEMMA StepMoves ==
    ASSUME FileInv, NEW k \in Scripts, NEW at \in ScriptSteps \ {"none", "changing", "storing"}, script[k].at # "none",
           At(k, at), vault' \in HouseFiles, lost' \in BOOLEAN, withdrawn' \in [Subjects -> Nat], TemplatesAllowed'
    PROVE  FileInv'
<1>1. ScriptHolds(script[k]) /\ script[k] \in ScriptRecords
  BY DEF FileInv, ScriptHolds
<1>2. PICK x : x = [script[k] EXCEPT !.at = at]
  OBVIOUS
<1>3. script' = [script EXCEPT ![k] = x]
  BY <1>2 DEF At
<1>4. x = [op |-> script[k].op, of |-> script[k].of, at |-> at, copy |-> script[k].copy]
  BY <1>1, <1>2 DEF ScriptRecords
<1>5. ScriptHolds(x)
  BY <1>1, <1>4 DEF ScriptHolds, ScriptRecords
<1> QED BY <1>3, <1>5, ScriptMoves

\* A script goes on and leaves the file as it is.
LEMMA StepRests ==
    ASSUME FileInv, FaceInv, UNCHANGED <<faceVars, moment>>, UNCHANGED <<vault, lost, withdrawn>>,
           NEW k \in Scripts, NEW x, ScriptHolds(x), script' = [script EXCEPT ![k] = x]
    PROVE  FileInv' /\ FaceInv'
<1>1. TemplatesAllowed'
  BY DEF FileInv, TemplatesAllowed
<1>2. vault' \in HouseFiles /\ lost' \in BOOLEAN /\ withdrawn' \in [Subjects -> Nat]
  BY DEF FileInv
<1>3. FaceInv'
  BY DEF FaceInv, faceVars, PhotoHolds, HintHolds, KnownSince, WithdrawnSoonForgotten
<1> QED BY <1>1, <1>2, <1>3, ScriptMoves

LEMMA AtRests ==
    ASSUME FileInv, FaceInv, UNCHANGED <<faceVars, moment>>, UNCHANGED <<vault, lost, withdrawn>>,
           NEW k \in Scripts, NEW at \in ScriptSteps \ {"none", "changing", "storing"}, script[k].at # "none", At(k, at)
    PROVE  FileInv' /\ FaceInv'
<1>1. TemplatesAllowed'
  BY DEF FileInv, TemplatesAllowed
<1>2. vault' \in HouseFiles /\ lost' \in BOOLEAN /\ withdrawn' \in [Subjects -> Nat]
  BY DEF FileInv
<1>3. FaceInv'
  BY DEF FaceInv, faceVars, PhotoHolds, HintHolds, KnownSince, WithdrawnSoonForgotten
<1> QED BY <1>1, <1>2, <1>3, StepMoves

LEMMA ScriptsKeep ==
    ASSUME HouseInv, ScriptNext
    PROVE  HouseInv'
<1> PICK k \in Scripts :
         \/ \E op \in {"enrol", "revoke", "forget"}, x \in Subjects : Launches(k, op, x)
         \/ \E usable \in BOOLEAN : Embeds(k, usable)
         \/ Reads(k) \/ Changes(k) \/ Checks(k) \/ Stores(k) \/ ScriptDies(k)
  BY DEF ScriptNext
<1>0. FileInv /\ FaceInv /\ AudioInv /\ UNCHANGED <<faceVars, moment>> /\ UNCHANGED audioVars
  BY DEF HouseInv, ScriptNext
<1>1. AudioInv'
  BY <1>0 DEF AudioInv, audioVars, HeardOnce
<1>2. script[k] \in ScriptRecords /\ ScriptHolds(script[k])
  BY <1>0 DEF FileInv, ScriptHolds
<1>4. ASSUME NEW op \in {"enrol", "revoke", "forget"}, NEW x \in Subjects, Launches(k, op, x) PROVE FileInv' /\ FaceInv'
  <2>1. script' = [script EXCEPT ![k] = [op |-> op, of |-> x, at |-> "change", copy |-> <<>>]]
        /\ UNCHANGED <<vault, lost, withdrawn>>
    BY <1>4 DEF Launches
  <2>2. ScriptHolds([op |-> op, of |-> x, at |-> "change", copy |-> <<>>])
    BY DEF ScriptHolds, ScriptRecords, ScriptSteps
  <2> QED BY <1>0, <2>1, <2>2, StepRests
<1>5. ASSUME NEW usable \in BOOLEAN, Embeds(k, usable) PROVE FileInv' /\ FaceInv'
  <2>1. /\ script[k].at = "embedding" /\ At(k, IF usable THEN "store" ELSE "over") /\ UNCHANGED <<vault, lost, withdrawn>>
    BY <1>5 DEF Embeds
  <2>2. (IF usable THEN "store" ELSE "over") \in ScriptSteps \ {"none", "changing", "storing"}
    BY DEF ScriptSteps
  <2> QED BY <1>0, <2>1, <2>2, AtRests
<1>6. ASSUME Reads(k) PROVE FileInv' /\ FaceInv'
  <2>1. PICK x : x = [script[k] EXCEPT !.at = IF @ = "change" THEN "changing" ELSE "storing", !.copy = vault]
    OBVIOUS
  <2>2. script[k].at # "none" /\ script' = [script EXCEPT ![k] = x] /\ UNCHANGED <<vault, lost, withdrawn>>
    BY <1>6, <2>1 DEF Reads
  <2>3. /\ x = [op |-> script[k].op, of |-> script[k].of,
                at |-> IF script[k].at = "change" THEN "changing" ELSE "storing", copy |-> vault]
    BY <1>2, <2>1 DEF ScriptRecords
  <2>4. ScriptHolds(x)
    <3>1. x.at \in ScriptSteps /\ x.copy \in HouseFiles
      BY <1>0, <2>3 DEF ScriptSteps, FileInv
    <3>2. x.op = script[k].op /\ x.of = script[k].of /\ x.of \in Subjects
      BY <1>2, <2>2, <2>3 DEF ScriptHolds
    <3>3. x \in ScriptRecords
      BY <1>2, <2>3, <3>1, <3>2 DEF ScriptRecords
    <3> QED BY <3>1, <3>2, <3>3 DEF ScriptHolds
  <2> QED BY <1>0, <2>2, <2>4, StepRests
<1>7. ASSUME Changes(k) PROVE FileInv' /\ FaceInv'
  <2> DEFINE x == script[k].of
             subject == IF script[k].op = "enrol" THEN [script[k].copy[x] EXCEPT !.consented = TRUE] ELSE NotKnown
             next == IF script[k].op = "enrol" THEN "check" ELSE "over"
  <2>1. script[k].at = "changing" /\ Writes(k, script[k].of, subject) /\ At(k, next)
    BY <1>7 DEF Changes
  <2>2. script[k].copy \in HouseFiles /\ x \in Subjects
    BY <1>2, <2>1 DEF ScriptHolds
  <2>3. script[k].copy[x] \in [consented : BOOLEAN, template : BOOLEAN]
    BY <2>2 DEF HouseFiles
  <2>4. subject \in [consented : BOOLEAN, template : BOOLEAN] /\ (subject.template => subject.consented)
    <3>1. CASE script[k].op = "enrol"
      BY <2>3, <3>1
    <3>2. CASE script[k].op # "enrol"
      BY <3>2 DEF NotKnown
    <3> QED BY <3>1, <3>2
  <2>5. next \in ScriptSteps \ {"none", "changing", "storing"}
    BY DEF ScriptSteps
  <2> HIDE DEF subject, next
  <2>6. /\ vault' \in HouseFiles /\ lost' \in BOOLEAN /\ withdrawn' \in [Subjects -> Nat]
        /\ TemplatesAllowed' /\ FaceInv'
    <3>1. script[k].at \in {"changing", "storing"}
      BY <2>1
    <3>2. Writes(k, script[k].of, subject)
      BY <2>1
    <3>3. FileInv /\ FaceInv /\ UNCHANGED <<faceVars, moment>>
      BY <1>0
    <3> QED BY <2>4, <3>1, <3>2, <3>3, WritesKeep
  <2> QED BY <1>0, <2>1, <2>5, <2>6, StepMoves
<1>8. ASSUME Checks(k) PROVE FileInv' /\ FaceInv'
  <2>1. script[k].at = "check" /\ UNCHANGED <<vault, lost, withdrawn>>
    BY <1>8 DEF Checks
  <2>2. PICK at \in ScriptSteps \ {"none", "changing", "storing"} : At(k, at)
    BY <1>8 DEF Checks, ScriptSteps
  <2> QED BY <1>0, <2>1, <2>2, AtRests
<1>9. ASSUME Stores(k) PROVE FileInv' /\ FaceInv'
  <2>1. script[k].at = "storing" /\ At(k, "over")
    BY <1>9 DEF Stores
  <2>2. "over" \in ScriptSteps \ {"none", "changing", "storing"}
    BY DEF ScriptSteps
  <2>3. script[k].copy \in HouseFiles /\ script[k].of \in Subjects
    BY <1>2, <2>1 DEF ScriptHolds
  <2>4. CASE script[k].copy[script[k].of].consented
    <3>1. PICK subject : subject = [script[k].copy[script[k].of] EXCEPT !.template = TRUE]
      OBVIOUS
    <3>2. script[k].copy[script[k].of] \in [consented : BOOLEAN, template : BOOLEAN]
      BY <2>3 DEF HouseFiles
    <3>3. subject \in [consented : BOOLEAN, template : BOOLEAN] /\ subject.consented
      BY <3>1, <3>2, <2>4
    <3>4. Writes(k, script[k].of, subject)
      BY <1>9, <2>4, <3>1 DEF Stores
    <3>5. /\ vault' \in HouseFiles /\ lost' \in BOOLEAN /\ withdrawn' \in [Subjects -> Nat]
          /\ TemplatesAllowed' /\ FaceInv'
      <4>1. script[k].at \in {"changing", "storing"}
        BY <2>1
      <4>2. FileInv /\ FaceInv /\ UNCHANGED <<faceVars, moment>>
        BY <1>0
      <4> QED BY <3>3, <3>4, <4>1, <4>2, WritesKeep
    <3> QED BY <1>0, <2>1, <2>2, <3>5, StepMoves
  <2>5. CASE ~script[k].copy[script[k].of].consented
    <3>1. UNCHANGED <<vault, lost, withdrawn>>
      BY <1>9, <2>5 DEF Stores
    <3> QED BY <1>0, <2>1, <2>2, <3>1, AtRests
  <2> QED BY <2>4, <2>5
<1>10. ASSUME ScriptDies(k) PROVE FileInv' /\ FaceInv'
  <2>1. script[k].at # "none" /\ At(k, "over") /\ UNCHANGED <<vault, lost, withdrawn>>
    BY <1>10 DEF ScriptDies
  <2>2. "over" \in ScriptSteps \ {"none", "changing", "storing"}
    BY DEF ScriptSteps
  <2> QED BY <1>0, <2>1, <2>2, AtRests
<1> QED BY <1>1, <1>4, <1>5, <1>6, <1>7, <1>8, <1>9, <1>10 DEF HouseInv

-----------------------------------------------------------------------------
(* Faces *)

LEMMA FacesKeep ==
    ASSUME HouseInv, FaceNext
    PROVE  HouseInv'
<1>0. FileInv /\ FaceInv /\ AudioInv /\ UNCHANGED fileVars /\ UNCHANGED audioVars /\ moment' = moment
  BY DEF HouseInv, FaceNext
<1>1. FileInv' /\ AudioInv'
  BY <1>0 DEF FileInv, TemplatesAllowed, fileVars, AudioInv, audioVars, HeardOnce
<1>2. vault' = vault /\ withdrawn' = withdrawn /\ moment \in Nat
  BY <1>0 DEF fileVars, FaceInv
<1>3. ASSUME UNCHANGED <<faceHint, led>>, photo' \in [Photos -> PhotoRecords], \A p \in Photos : PhotoHolds(photo[p])'
      PROVE  FaceInv'
  BY <1>0, <1>2, <1>3 DEF FaceInv, HintHolds, KnownSince, WithdrawnSoonForgotten
<1>4. ASSUME NEW p \in Photos, PostPhoto(p) PROVE FaceInv'
  <2> PICK new : new = [at |-> "embedding", asked |-> moment, may |-> Enrolled(vault)]
    OBVIOUS
  <2>1. photo' = [photo EXCEPT ![p] = new] /\ UNCHANGED <<faceHint, led>>
    BY <1>4 DEF PostPhoto
  <2>2. new \in PhotoRecords /\ \A y \in new.may : vault[y].consented
    BY <1>2 DEF PhotoRecords, Enrolled
  <2>3. \A q \in Photos : photo'[q] = IF q = p THEN new ELSE photo[q]
    BY <1>0, <2>1 DEF FaceInv
  <2>4. photo' \in [Photos -> PhotoRecords]
    BY <1>0, <2>1, <2>2 DEF FaceInv
  <2>5. \A q \in Photos : PhotoHolds(photo[q])'
    BY <1>0, <1>2, <2>2, <2>3, RecognitionAssumption DEF FaceInv, PhotoHolds, KnownSince
  <2> QED BY <1>3, <2>1, <2>4, <2>5
<1>5. ASSUME NEW p \in Photos, photo' = [photo EXCEPT ![p].at = "answered"]
      PROVE  photo' \in [Photos -> PhotoRecords] /\ \A q \in Photos : PhotoHolds(photo[q])'
  <2>1. photo[p] \in PhotoRecords
    BY <1>0 DEF FaceInv
  <2>2. PICK new : new = [photo[p] EXCEPT !.at = "answered"]
    OBVIOUS
  <2>3. new \in PhotoRecords /\ new.at = "answered"
    BY <2>1, <2>2 DEF PhotoRecords
  <2>4. \A q \in Photos : photo'[q] = IF q = p THEN new ELSE photo[q]
    BY <1>0, <1>5, <2>2 DEF FaceInv
  <2>5. photo' \in [Photos -> PhotoRecords]
    BY <1>0, <1>5, <2>2, <2>3 DEF FaceInv
  <2> QED BY <1>0, <1>2, <2>3, <2>4, <2>5 DEF FaceInv, PhotoHolds, KnownSince
<1>6. ASSUME NEW p \in Photos, NEW x \in Subjects \cup {"nobody"}, NamePhoto(p, x) PROVE FaceInv'
  <2>1. photo' \in [Photos -> PhotoRecords] /\ \A q \in Photos : PhotoHolds(photo[q])'
    BY <1>5, <1>6 DEF NamePhoto
  <2>2. HintHolds'
    <3>1. CASE x = "nobody"
      BY <1>6, <3>1 DEF NamePhoto, HintHolds
    <3>2. CASE x # "nobody"
      <4>1. faceHint' = [of |-> x, at |-> moment] /\ x \in photo[p].may /\ photo[p].at = "embedding" /\ x \in Subjects
        BY <1>6, <3>2 DEF NamePhoto
      <4>2. /\ moment - photo[p].asked <= EmbedLimit /\ photo[p].asked \in Nat
            /\ (vault[x].consented \/ withdrawn[x] >= photo[p].asked)
        BY <1>0, <4>1 DEF FaceInv, PhotoHolds, KnownSince, PhotoRecords
      <4>3. withdrawn[x] \in Nat /\ EmbedLimit \in Nat
        BY <1>0, <4>1, RecognitionAssumption DEF FileInv
      <4>4. vault[x].consented \/ withdrawn[x] >= moment - EmbedLimit
        BY <1>2, <4>2, <4>3
      <4> QED BY <1>0, <1>2, <4>1, <4>4 DEF HintHolds, KnownSince
    <3> QED BY <3>1, <3>2
  <2> QED BY <1>0, <1>2, <1>6, <2>1, <2>2 DEF NamePhoto, FaceInv, WithdrawnSoonForgotten
<1>7. ASSUME NEW p \in Photos, PhotoFails(p) PROVE FaceInv'
  BY <1>3, <1>5, <1>7 DEF PhotoFails
<1>8. ASSUME StartLed PROVE FaceInv'
  <2> PICK start : start = [of |-> FreshHint.of,
                            gone |-> IF FreshHint = NoFace \/ vault[FreshHint.of].consented THEN 0
                                     ELSE moment - withdrawn[FreshHint.of]]
    OBVIOUS
  <2>1. faceHint' = FreshHint /\ led' = Append(led, start) /\ photo' = photo
    BY <1>8 DEF StartLed
  <2>2. FreshHint = NoFace \/ (FreshHint = faceHint /\ faceHint # NoFace /\ ~(moment - faceHint.at > HintLife))
    BY DEF FreshHint
  <2>3. HintHolds'
    BY <1>0, <1>2, <2>1, <2>2 DEF FaceInv, HintHolds, KnownSince
  <2>4. HintLife \in Nat /\ EmbedLimit \in Nat
    BY RecognitionAssumption
  <2>5. start \in [of : Subjects \cup {"nobody"}, gone : Int] /\ start.gone <= HintLife + EmbedLimit
    <3>1. CASE FreshHint = NoFace
      BY <2>4, <3>1 DEF NoFace
    <3>2. CASE FreshHint # NoFace
      <4>1. /\ faceHint \in [of : Subjects, at : Nat] /\ FreshHint = faceHint /\ moment - faceHint.at <= HintLife
            /\ (vault[faceHint.of].consented \/ withdrawn[faceHint.of] >= faceHint.at - EmbedLimit)
        BY <1>0, <1>2, <2>2, <2>4, <3>2 DEF FaceInv, HintHolds, KnownSince
      <4>2. faceHint.of \in Subjects /\ faceHint.at \in Nat /\ withdrawn[faceHint.of] \in Nat
        BY <1>0, <4>1 DEF FileInv
      <4>3. start.of = faceHint.of
        BY <4>1
      <4>4. start.gone = IF vault[faceHint.of].consented THEN 0 ELSE moment - withdrawn[faceHint.of]
        BY <4>1, <3>2
      <4>5. start.gone \in Int /\ start.gone <= HintLife + EmbedLimit
        BY <1>2, <2>4, <4>1, <4>2, <4>4
      <4> QED BY <4>2, <4>3, <4>5
    <3> QED BY <3>1, <3>2
  <2>6. led \in Seq([of : Subjects \cup {"nobody"}, gone : Int])
    BY <1>0 DEF FaceInv
  <2>7. /\ led' \in Seq([of : Subjects \cup {"nobody"}, gone : Int])
        /\ \A i \in DOMAIN led' : led'[i] = start \/ (i \in DOMAIN led /\ led'[i] = led[i])
    BY <2>1, <2>5, <2>6, AppendProperties
  <2>8. WithdrawnSoonForgotten'
    BY <1>0, <2>5, <2>7 DEF WithdrawnSoonForgotten, FaceInv
  <2>9. \A q \in Photos : PhotoHolds(photo[q])'
    BY <1>0, <1>2, <2>1 DEF FaceInv, PhotoHolds, KnownSince
  <2> QED BY <1>0, <1>2, <2>1, <2>3, <2>7, <2>8, <2>9 DEF FaceInv
<1> QED BY <1>1, <1>4, <1>6, <1>7, <1>8 DEF FaceNext, HouseInv

-----------------------------------------------------------------------------
(* Voices *)

LEMMA HearsKeeps ==
    ASSUME AudioInv, Hears
    PROVE  AudioInv'
<1> PICK full : full = Append(audio, spoken)
  OBVIOUS
<1>1. /\ audio \in Seq(1..MaxSpoken) /\ spoken \in 1..MaxSpoken /\ finals \in Seq(1..MaxSpoken) /\ MaxSpoken \in Nat
      /\ \A i \in DOMAIN audio : audio[i] <= spoken
  BY RecognitionAssumption DEF AudioInv, Hears
<1>2. /\ full \in Seq(1..MaxSpoken) /\ Len(full) > 0
      /\ \A i \in DOMAIN full : full[i] = spoken \/ (i \in DOMAIN audio /\ full[i] = audio[i])
  BY <1>1, AppendProperties
<1>3. /\ audio' = full \/ audio' = Tail(full)
      /\ UNCHANGED <<finals, spoken, named>>
      /\ aside' = IF finals # <<>> THEN aside \cup {spoken} \cup {finals[i] : i \in DOMAIN finals} ELSE aside
  BY DEF Hears
<1>4. audio' \in Seq(1..MaxSpoken) /\ \A i \in DOMAIN audio' : \E j \in DOMAIN full : audio'[i] = full[j]
  <2>1. CASE audio' = full
    BY <1>2, <2>1
  <2>2. CASE audio' = Tail(full)
    BY <1>2, <2>2
  <2> QED BY <1>3, <2>1, <2>2
<1>5. \A i \in DOMAIN audio' : audio'[i] = spoken \/ (\E j \in DOMAIN audio : audio'[i] = audio[j])
  BY <1>2, <1>4
<1>6. \A i \in DOMAIN audio' : audio'[i] <= spoken
  <2> SUFFICES ASSUME NEW i \in DOMAIN audio' PROVE audio'[i] <= spoken
    OBVIOUS
  <2>1. CASE audio'[i] = spoken
    BY <1>1, <2>1
  <2>2. CASE \E j \in DOMAIN audio : audio'[i] = audio[j]
    BY <1>1, <2>2
  <2> QED BY <1>5, <2>1, <2>2
<1>7. HeardOnce'
  BY <1>3 DEF AudioInv, HeardOnce
<1>8. CASE finals # <<>>
  <2>1. spoken \in aside' /\ \A i \in DOMAIN finals : finals[i] \in aside'
    BY <1>3, <1>8
  <2>2. Head(finals) \in aside'
    BY <1>1, <1>8, <2>1
  <2> QED BY <1>3, <1>4, <1>6, <1>7, <1>8, <2>1, <2>2 DEF AudioInv
<1>9. CASE finals = <<>>
  <2>1. aside' = aside
    BY <1>3, <1>9
  <2>2. spoken \notin aside => \A i \in DOMAIN audio' : audio'[i] = spoken
    BY <1>5, <1>9 DEF AudioInv
  <2> QED BY <1>3, <1>4, <1>6, <1>7, <1>9, <2>1, <2>2 DEF AudioInv
<1> QED BY <1>8, <1>9

LEMMA EndsKeeps ==
    ASSUME AudioInv, EndsUtterance
    PROVE  AudioInv'
<1>1. /\ audio \in Seq(1..MaxSpoken) /\ spoken \in 1..MaxSpoken /\ finals \in Seq(1..MaxSpoken) /\ MaxSpoken \in Nat
      /\ \A i \in DOMAIN audio : audio[i] <= spoken /\ audio[i] \in Nat
  <2>1. /\ audio \in Seq(1..MaxSpoken) /\ spoken \in 1..(MaxSpoken + 1) /\ finals \in Seq(1..MaxSpoken)
        /\ \A i \in DOMAIN audio : audio[i] <= spoken
    BY DEF AudioInv
  <2>2. MaxSpoken \in Nat
    BY RecognitionAssumption
  <2>3. spoken \in 1..MaxSpoken
    BY <2>1, <2>2 DEF EndsUtterance
  <2>4. \A i \in DOMAIN audio : audio[i] \in 1..MaxSpoken
    BY <2>1, LenProperties, ElementOfSeq
  <2> QED BY <2>1, <2>2, <2>3, <2>4
<1>2. finals' = Append(finals, spoken) /\ spoken' = spoken + 1 /\ UNCHANGED <<audio, named, aside>>
      /\ \E i \in DOMAIN audio : audio[i] = spoken
  BY DEF EndsUtterance
<1>3. /\ finals' \in Seq(1..MaxSpoken) /\ finals' # <<>> /\ Head(finals') = IF finals = <<>> THEN spoken ELSE Head(finals)
  <2>1. /\ finals' \in Seq(1..MaxSpoken) /\ Len(finals') = Len(finals) + 1 /\ Len(finals) \in Nat
        /\ finals'[Len(finals) + 1] = spoken /\ \A i \in 1..Len(finals) : finals'[i] = finals[i]
    BY <1>1, <1>2, AppendProperties
  <2>2. finals' # <<>> /\ Head(finals') = finals'[1]
    BY <2>1
  <2>3. finals # <<>> => Head(finals) = finals[1] /\ 1 \in 1..Len(finals)
    BY <1>1
  <2>4. finals = <<>> => Len(finals) = 0
    OBVIOUS
  <2> QED BY <2>1, <2>2, <2>3, <2>4
<1>4. \A i \in DOMAIN audio : audio[i] # spoken' /\ audio[i] <= spoken'
  BY <1>1, <1>2
<1>5. Head(finals') \notin aside => \A i \in DOMAIN audio : audio[i] = Head(finals')
  <2>1. CASE finals = <<>>
    BY <1>3, <2>1 DEF AudioInv
  <2>2. CASE finals # <<>>
    <3>1. Head(finals) = finals[1] /\ 1 \in DOMAIN finals
      BY <1>1, <2>2
    <3> QED BY <1>2, <1>3, <2>2, <3>1 DEF AudioInv
  <2> QED BY <2>1, <2>2
<1>6. HeardOnce'
  BY <1>2 DEF AudioInv, HeardOnce
<1>7. spoken' \in 1..(MaxSpoken + 1)
  BY <1>1, <1>2
<1>8. named' \in [1..MaxSpoken -> Seq(1..MaxSpoken)]
  BY <1>2 DEF AudioInv
<1>9. /\ audio' \in Seq(1..MaxSpoken) /\ (\A i \in DOMAIN audio' : audio'[i] # spoken' /\ audio'[i] <= spoken')
      /\ (Head(finals') \notin aside' => \A i \in DOMAIN audio' : audio'[i] = Head(finals'))
  BY <1>1, <1>2, <1>4, <1>5
<1> QED BY <1>3, <1>6, <1>7, <1>8, <1>9 DEF AudioInv

LEMMA UnheardKeeps ==
    ASSUME AudioInv, EndsUnheard
    PROVE  AudioInv'
<1>1. /\ audio \in Seq(1..MaxSpoken) /\ spoken \in 1..MaxSpoken /\ MaxSpoken \in Nat
      /\ \A i \in DOMAIN audio : audio[i] <= spoken /\ audio[i] \in Nat
  <2>1. /\ audio \in Seq(1..MaxSpoken) /\ spoken \in 1..(MaxSpoken + 1) /\ finals \in Seq(1..MaxSpoken)
        /\ \A i \in DOMAIN audio : audio[i] <= spoken
    BY DEF AudioInv
  <2>2. MaxSpoken \in Nat
    BY RecognitionAssumption
  <2>3. spoken \in 1..MaxSpoken
    BY <2>1, <2>2 DEF EndsUnheard
  <2>4. \A i \in DOMAIN audio : audio[i] \in 1..MaxSpoken
    BY <2>1, LenProperties, ElementOfSeq
  <2> QED BY <2>1, <2>2, <2>3, <2>4
<1>2. spoken' = spoken + 1 /\ aside' = aside \cup {spoken, spoken + 1} /\ UNCHANGED <<audio, finals, named>>
  BY DEF EndsUnheard
<1>3. \A i \in DOMAIN audio : audio[i] # spoken' /\ audio[i] <= spoken'
  BY <1>1, <1>2
<1>4. HeardOnce'
  BY <1>2 DEF AudioInv, HeardOnce
<1>5. spoken' \in 1..(MaxSpoken + 1)
  BY <1>1, <1>2
<1>6. /\ audio' \in Seq(1..MaxSpoken) /\ (\A i \in DOMAIN audio' : audio'[i] # spoken' /\ audio'[i] <= spoken')
      /\ spoken' \in aside'
  BY <1>1, <1>2, <1>3
<1>7. finals # <<>> /\ Head(finals) \notin aside => \A i \in DOMAIN audio : audio[i] = Head(finals)
  BY DEF AudioInv
<1>8. finals \in Seq(1..MaxSpoken) /\ named \in [1..MaxSpoken -> Seq(1..MaxSpoken)]
  BY DEF AudioInv
<1> QED BY <1>2, <1>4, <1>5, <1>6, <1>7, <1>8 DEF AudioInv

LEMMA IdentifyKeeps ==
    ASSUME AudioInv, Identify
    PROVE  AudioInv'
<1>1. /\ audio \in Seq(1..MaxSpoken) /\ finals \in Seq(1..MaxSpoken) /\ finals # <<>> /\ named \in [1..MaxSpoken -> Seq(1..MaxSpoken)]
  BY DEF AudioInv, Identify
<1>2. /\ named' = [named EXCEPT ![Head(finals)] = audio] /\ audio' = <<>> /\ finals' = Tail(finals)
      /\ UNCHANGED <<spoken, aside>>
  BY DEF Identify, Drained
<1>3. Head(finals) \in 1..MaxSpoken /\ finals' \in Seq(1..MaxSpoken)
  BY <1>1, <1>2, HeadTailProperties
<1>4. named' \in [1..MaxSpoken -> Seq(1..MaxSpoken)]
  BY <1>1, <1>2, <1>3
<1>5. HeardOnce'
  <2> SUFFICES ASSUME NEW u \in 1..MaxSpoken, u \notin aside, NEW i \in DOMAIN named'[u] PROVE named'[u][i] = u
    BY <1>2 DEF HeardOnce
  <2>1. CASE u = Head(finals)
    BY <1>1, <1>2, <1>3, <2>1 DEF AudioInv
  <2>2. CASE u # Head(finals)
    BY <1>1, <1>2, <2>2 DEF AudioInv, HeardOnce
  <2> QED BY <2>1, <2>2
<1>6. \A i \in DOMAIN <<>> : FALSE
  OBVIOUS
<1> QED BY <1>2, <1>3, <1>4, <1>5, <1>6 DEF AudioInv

LEMMA VoicesKeep ==
    ASSUME HouseInv, VoiceNext
    PROVE  HouseInv'
<1>1. FileInv /\ FaceInv /\ AudioInv /\ UNCHANGED fileVars /\ UNCHANGED faceVars /\ moment' = moment
  BY DEF HouseInv, VoiceNext
<1>2. FileInv' /\ FaceInv'
  BY <1>1 DEF FileInv, TemplatesAllowed, fileVars, FaceInv, faceVars, PhotoHolds, HintHolds, KnownSince, WithdrawnSoonForgotten
<1> QED BY <1>1, <1>2, HearsKeeps, EndsKeeps, UnheardKeeps, IdentifyKeeps DEF VoiceNext, HouseInv

-----------------------------------------------------------------------------

LEMMA MomentKeeps ==
    ASSUME HouseInv, MomentPasses
    PROVE  HouseInv'
<1>1. /\ FileInv /\ FaceInv /\ AudioInv /\ UNCHANGED fileVars /\ UNCHANGED faceVars /\ UNCHANGED audioVars
      /\ moment' = moment + 1 /\ moment \in Nat /\ EmbedLimit \in Nat
      /\ \A p \in Photos : photo[p].at = "embedding" => moment - photo[p].asked < EmbedLimit
  BY RecognitionAssumption DEF HouseInv, MomentPasses, FaceInv
<1>2. FileInv' /\ AudioInv'
  BY <1>1 DEF FileInv, TemplatesAllowed, fileVars, AudioInv, audioVars, HeardOnce
<1>3. \A p \in Photos : PhotoHolds(photo[p])'
  <2> SUFFICES ASSUME NEW p \in Photos PROVE PhotoHolds(photo[p])'
    OBVIOUS
  <2>1. photo' = photo /\ vault' = vault /\ withdrawn' = withdrawn
    BY <1>1 DEF faceVars, fileVars
  <2>2. CASE photo[p].at # "embedding"
    BY <2>1, <2>2 DEF PhotoHolds
  <2>3. CASE photo[p].at = "embedding"
    <3>1. photo[p].asked \in Nat
      BY <1>1 DEF FaceInv, PhotoRecords
    <3>2. photo[p].asked <= moment /\ \A y \in photo[p].may : vault[y].consented \/ withdrawn[y] >= photo[p].asked
      BY <1>1, <2>3 DEF FaceInv, PhotoHolds, KnownSince
    <3>3. photo[p].asked <= moment + 1 /\ moment + 1 - photo[p].asked <= EmbedLimit
      BY <1>1, <2>3, <3>1, <3>2
    <3>4. moment' = moment + 1
      BY <1>1
    <3>5. photo[p].asked <= moment' /\ moment' - photo[p].asked <= EmbedLimit
      BY <1>1, <3>1, <3>3, <3>4
    <3>6. \A y \in photo[p].may : vault'[y].consented \/ withdrawn'[y] >= photo[p].asked
      BY <2>1, <3>2
    <3> QED BY <2>1, <3>5, <3>6 DEF PhotoHolds, KnownSince
  <2> QED BY <2>2, <2>3
<1>4. HintHolds'
  <2>1. CASE faceHint = NoFace
    BY <1>1, <2>1 DEF HintHolds, faceVars
  <2>2. CASE faceHint # NoFace
    BY <1>1, <2>2 DEF FaceInv, HintHolds, KnownSince, faceVars, fileVars
  <2> QED BY <2>1, <2>2
<1>5. FaceInv'
  BY <1>1, <1>3, <1>4 DEF FaceInv, faceVars, WithdrawnSoonForgotten
<1> QED BY <1>2, <1>5 DEF HouseInv

LEMMA HouseRestarts ==
    ASSUME HouseInv, RestartHouse
    PROVE  HouseInv'
<1>1. /\ FileInv /\ FaceInv /\ AudioInv /\ UNCHANGED <<fileVars, led, named, aside, moment>>
      /\ faceHint' = NoFace /\ audio' = <<>> /\ finals' = <<>>
      /\ photo' = [p \in Photos |-> IF photo[p].at = "embedding" THEN [photo[p] EXCEPT !.at = "answered"] ELSE photo[p]]
      /\ spoken' = IF spoken \in {audio[i] : i \in DOMAIN audio} THEN spoken + 1 ELSE spoken
  BY DEF HouseInv, RestartHouse
<1>2. FileInv'
  BY <1>1 DEF FileInv, TemplatesAllowed, fileVars
<1>3. \A p \in Photos : photo'[p] \in PhotoRecords /\ photo'[p].at # "embedding"
  <2> SUFFICES ASSUME NEW p \in Photos PROVE photo'[p] \in PhotoRecords /\ photo'[p].at # "embedding"
    OBVIOUS
  <2>1. photo[p] \in PhotoRecords
    BY <1>1 DEF FaceInv
  <2>2. CASE photo[p].at = "embedding"
    BY <1>1, <2>1, <2>2 DEF PhotoRecords
  <2>3. CASE photo[p].at # "embedding"
    BY <1>1, <2>1, <2>3
  <2> QED BY <2>2, <2>3
<1>4. FaceInv'
  <2>1. photo' \in [Photos -> PhotoRecords] /\ \A p \in Photos : PhotoHolds(photo[p])'
    BY <1>1, <1>3 DEF PhotoHolds
  <2> QED BY <1>1, <2>1 DEF FaceInv, HintHolds, WithdrawnSoonForgotten
<1>5. AudioInv'
  <2>1. spoken' \in 1..(MaxSpoken + 1)
    <3>1. MaxSpoken \in Nat /\ spoken \in 1..(MaxSpoken + 1)
      BY <1>1, RecognitionAssumption DEF AudioInv
    <3>2. CASE spoken <= MaxSpoken
      BY <1>1, <3>1, <3>2
    <3>3. CASE spoken = MaxSpoken + 1
      <4>1. \A i \in DOMAIN audio : audio[i] \in 1..MaxSpoken
        <5>1. audio \in Seq(1..MaxSpoken)
          BY <1>1 DEF AudioInv
        <5>2. DOMAIN audio = 1..Len(audio)
          BY <5>1, LenProperties
        <5>3. \A i \in 1..Len(audio) : audio[i] \in 1..MaxSpoken
          BY <5>1, ElementOfSeq
        <5> QED BY <5>2, <5>3
      <4>2. spoken \notin {audio[i] : i \in DOMAIN audio}
        BY <3>1, <3>3, <4>1
      <4> QED BY <1>1, <3>1, <4>2
    <3> QED BY <3>1, <3>2, <3>3
  <2>2. HeardOnce'
    BY <1>1 DEF AudioInv, HeardOnce
  <2>3. \A i \in DOMAIN <<>> : FALSE
    OBVIOUS
  <2> QED BY <1>1, <2>1, <2>2, <2>3 DEF AudioInv
<1> QED BY <1>2, <1>4, <1>5 DEF HouseInv

LEMMA HouseKept ==
    ASSUME HouseInv, [HouseNext]_houseVars
    PROVE  HouseInv'
<1>1. CASE UNCHANGED houseVars
  <2>1. UNCHANGED fileVars /\ UNCHANGED faceVars /\ UNCHANGED audioVars /\ moment' = moment
    BY <1>1 DEF houseVars
  <2>2. FileInv' /\ AudioInv'
    BY <2>1 DEF HouseInv, FileInv, TemplatesAllowed, fileVars, AudioInv, audioVars, HeardOnce
  <2>3. FaceInv'
    BY <2>1 DEF HouseInv, FaceInv, faceVars, fileVars, PhotoHolds, HintHolds, KnownSince, WithdrawnSoonForgotten
  <2> QED BY <2>2, <2>3 DEF HouseInv
<1> QED BY <1>1, ScriptsKeep, FacesKeep, VoicesKeep, MomentKeeps, HouseRestarts DEF HouseNext

\* No template without a consent unless two processes wrote at once, no run led
\* for long by a face whose consent is gone, no utterance identified by the
\* audio of another unless they overlapped: for any subjects, scripts, photos,
\* limits and bounds (face-id and speaker-id: enroll, identify; server.ts:
\* freshFaceHint).
THEOREM RecognitionHolds == HouseInit /\ [][HouseNext]_houseVars => []RecognitionAgrees
<1>1. HouseInv => RecognitionAgrees
  BY DEF HouseInv, FileInv, FaceInv, AudioInv, RecognitionAgrees
<1> QED BY <1>1, HouseStarts, HouseKept, PTL

-----------------------------------------------------------------------------
(* References and bindings in force                                          *)

Files == [stamp : Clock, urls : [References -> Urls \cup {Absent}]]
RecordsOf(subject) == {c \in chronology : c.subject = subject}

\* While edits raise the stamps, what was written of a reference under the
\* stamp of now is what the files say now; what a start took over is the last.
ReferenceInv ==
    ~careless =>
        /\ \A r \in References : \A c \in RecordsOf(ReferenceOf(r)) :
             /\ c.at <= MergedStamp
             /\ c.at = MergedStamp => c.value = MergedUrls[r] /\ c.source = 0
        /\ running /\ AllListed =>
             \A r \in References : loaded[r] # Absent =>
                 \E c \in InForce(ReferenceOf(r)) : c.value = loaded[r]

\* While bindings come at instants that grow, the one accepted last is there
\* and every other is older.
BindingInv ==
    ~slipped => \A r \in References :
        IF bound[r] = NotBound THEN RecordsOf(BindingOf(r)) = {}
        ELSE \E c \in RecordsOf(BindingOf(r)) :
               /\ c.at = bound[r].at /\ c.value = bound[r].entity
               /\ \A other \in RecordsOf(BindingOf(r)) : other = c \/ other.at < c.at

ChronologyInv ==
    /\ base \in Files /\ overlay \in Files /\ now \in Clock /\ running \in BOOLEAN
    /\ IsFiniteSet(chronology) /\ \A c \in chronology : c.at \in Nat /\ c = Record(c.subject, c.at, c.value, c.source)
    /\ bound = [r \in References |-> bound[r]] /\ \A r \in References : bound[r].at \in Nat
    /\ careless \in BOOLEAN /\ slipped \in BOOLEAN

FounderInv == ChronologyInv /\ ReferenceInv /\ BindingInv

LEMMA SubjectsDiffer ==
    /\ \A r, q : ReferenceOf(r) = ReferenceOf(q) => r = q
    /\ \A r, q : BindingOf(r) = BindingOf(q) => r = q
    /\ \A r, q : ReferenceOf(r) # BindingOf(q)
    /\ \A r, n : <<"run", n>> # ReferenceOf(r) /\ <<"run", n>> # BindingOf(r)
<1>1. \A r, q : ReferenceOf(r)[2] = r /\ BindingOf(q)[2] = q
  BY DEF ReferenceOf, BindingOf
<1>2. \A r, q : ReferenceOf(r)[1] = "reference" /\ BindingOf(q)[1] = "binding"
  BY DEF ReferenceOf, BindingOf
<1>3. \A n : <<"run", n>>[1] = "run"
  OBVIOUS
<1> QED BY <1>1, <1>2, <1>3

\* Records that are no more than a listing has are all listed.
LEMMA ListedWhole ==
    ASSUME NEW records, IsFiniteSet(records), Cardinality(records) <= ChronologyLimit
    PROVE  {c \in records : Cardinality({d \in records : d # c /\ Before(d, c)}) < ChronologyLimit} = records
<1> SUFFICES ASSUME NEW c \in records
             PROVE  Cardinality({d \in records : d # c /\ Before(d, c)}) < ChronologyLimit
  OBVIOUS
<1> DEFINE earlier == {d \in records : d # c /\ Before(d, c)}
<1>1. /\ IsFiniteSet(records \ {c}) /\ earlier \subseteq records \ {c}
      /\ Cardinality(records \ {c}) = Cardinality(records) - 1
  BY FS_RemoveElement
<1>2. Cardinality(earlier) <= Cardinality(records \ {c})
  BY <1>1, FS_Subset
<1>3. Cardinality(earlier) \in Nat /\ Cardinality(records) \in Nat /\ ChronologyLimit \in Nat
  BY <1>1, FS_Subset, FS_CardinalityType, ReferenceAssumption
<1>4. Cardinality(earlier) < ChronologyLimit
  BY <1>1, <1>2, <1>3
<1> QED BY <1>4

LEMMA ListedBefore ==
    ASSUME IsFiniteSet(chronology'), chronology \subseteq chronology', AllListed'
    PROVE  AllListed /\ IsFiniteSet(chronology)
<1>1. IsFiniteSet(chronology) /\ Cardinality(chronology) <= Cardinality(chronology')
  BY FS_Subset
<1>2. Cardinality(chronology) \in Nat /\ Cardinality(chronology') \in Nat /\ ChronologyLimit \in Nat
  BY <1>1, FS_CardinalityType, ReferenceAssumption
<1> QED BY <1>1, <1>2 DEF AllListed

\* The newest record of a subject is in force.
LEMMA NewestInForce ==
    ASSUME IsFiniteSet(chronology), AllListed, NEW s, NEW c \in RecordsOf(s),
           \A other \in RecordsOf(s) : other = c \/ other.at < c.at
    PROVE  c \in InForce(s)
<1>1. Listing = chronology
  BY ListedWhole DEF AllListed, Listing
<1> QED BY <1>1 DEF InForce, RecordsOf, Before

LEMMA WrittenShape ==
    ASSUME ChronologyInv
    PROVE  /\ IsFiniteSet(Written) /\ MergedStamp \in Clock
           /\ \A c \in Written : \E r \in References :
                /\ c.subject = ReferenceOf(r) /\ c.at = MergedStamp /\ c.value = MergedUrls[r] /\ c.source = 0
                /\ NeedsUpdate(r)
           /\ \A r \in References : MergedUrls[r] # Absent /\ NeedsUpdate(r) =>
                Record(ReferenceOf(r), MergedStamp, MergedUrls[r], 0) \in Written
           /\ \A r \in References, c \in Written : c.subject = ReferenceOf(r) =>
                c.at = MergedStamp /\ c.value = MergedUrls[r] /\ c.source = 0 /\ NeedsUpdate(r)
           /\ \A r, c : c \in Written => c.subject # BindingOf(r)
<1> DEFINE due == {q \in References : MergedUrls[q] # Absent /\ NeedsUpdate(q)}
           of(r) == Record(ReferenceOf(r), MergedStamp, MergedUrls[r], 0)
<1>1. IsFiniteSet(due)
  BY FS_Subset, ReferenceAssumption
<1>2. Written = {of(r) : r \in due}
  BY DEF Written
<1>3. IsFiniteSet({of(r) : r \in due})
  <2> DEFINE file == [r \in due |-> of(r)]
  <2>1. file \in Surjection(due, {of(r) : r \in due})
    BY DEF Surjection
  <2> QED BY <1>1, <2>1, FS_Surjection
<1>4. MergedStamp \in Clock
  BY DEF ChronologyInv, Files, MergedStamp
<1>5. \A c \in Written : \E r \in due : c = of(r)
  BY <1>2
<1>6. \A r : of(r).subject = ReferenceOf(r) /\ of(r).at = MergedStamp /\ of(r).value = MergedUrls[r] /\ of(r).source = 0
  BY DEF Record
<1>7. \A c \in Written : \E r \in References :
        /\ c.subject = ReferenceOf(r) /\ c.at = MergedStamp /\ c.value = MergedUrls[r] /\ c.source = 0
        /\ NeedsUpdate(r)
  BY <1>5, <1>6
<1> QED BY <1>2, <1>3, <1>4, <1>7, SubjectsDiffer

\* What a start, or a part of one, writes is under the stamp of now.
LEMMA StartWrites ==
    ASSUME FounderInv, NEW some \in SUBSET Written, chronology' = chronology \cup some,
           UNCHANGED <<base, overlay, bound, now, careless, slipped>>, running' \in BOOLEAN
    PROVE  /\ ChronologyInv' /\ BindingInv'
           /\ ~careless => \A r \in References : \A c \in RecordsOf(ReferenceOf(r))' :
                /\ c.at <= MergedStamp'
                /\ c.at = MergedStamp' => c.value = MergedUrls'[r] /\ c.source = 0
<1>1. ChronologyInv /\ ReferenceInv /\ BindingInv
  BY DEF FounderInv
<1>2. MergedStamp' = MergedStamp /\ MergedUrls' = MergedUrls
  BY DEF MergedStamp, MergedUrls
<1>3. IsFiniteSet(some) /\ \A c \in some : c.at = MergedStamp /\ MergedStamp \in Nat
  BY <1>1, WrittenShape, FS_Subset DEF Clock
<1>4. ChronologyInv'
  <2>1. IsFiniteSet(chronology')
    BY <1>1, <1>3, FS_Union DEF ChronologyInv
  <2>2. \A c \in chronology' : c.at \in Nat
    BY <1>1, <1>3 DEF ChronologyInv
  <2>3. \A c \in chronology' : c = Record(c.subject, c.at, c.value, c.source)
    <3>1. \A c \in Written : c = Record(c.subject, c.at, c.value, c.source)
      BY DEF Written, Record
    <3> QED BY <1>1, <3>1 DEF ChronologyInv
  <2> QED BY <1>1, <2>1, <2>2, <2>3 DEF ChronologyInv, Record
<1>5. BindingInv'
  <2>1. \A r : RecordsOf(BindingOf(r))' = RecordsOf(BindingOf(r))
    <3>1. \A c \in some : \A r : c.subject # BindingOf(r)
      BY <1>1, WrittenShape
    <3> QED BY <3>1 DEF RecordsOf, BindingOf
  <2>2. \A r : BindingOf(r)' = BindingOf(r)
    BY DEF BindingOf
  <2> QED BY <1>1, <2>1, <2>2 DEF BindingInv
<1>6. ASSUME ~careless, NEW r \in References, NEW c \in RecordsOf(ReferenceOf(r))'
      PROVE  c.at <= MergedStamp /\ (c.at = MergedStamp => c.value = MergedUrls[r] /\ c.source = 0)
  <2>1. (c \in chronology \/ c \in some) /\ c.subject = ReferenceOf(r)
    BY <1>6 DEF RecordsOf, ReferenceOf
  <2>2. CASE c \in chronology
    BY <1>1, <1>6, <2>1, <2>2 DEF ReferenceInv, RecordsOf
  <2>3. CASE c \in some
    BY <1>1, <1>3, <2>1, <2>3, WrittenShape
  <2> QED BY <2>1, <2>2, <2>3
<1> QED BY <1>2, <1>4, <1>5, <1>6

LEMMA LibraryLoads ==
    ASSUME FounderInv, StartUp
    PROVE  FounderInv'
<1>1. ChronologyInv /\ ReferenceInv /\ BindingInv
  BY DEF FounderInv
<1>2. /\ Written \cap chronology = {} /\ chronology' = chronology \cup Written /\ running' = TRUE
      /\ loaded' = MergedUrls /\ UNCHANGED <<base, overlay, bound, now, careless, slipped>>
  BY DEF StartUp
<1>3. /\ ChronologyInv' /\ BindingInv'
      /\ ~careless => \A r \in References : \A c \in RecordsOf(ReferenceOf(r))' :
           /\ c.at <= MergedStamp'
           /\ c.at = MergedStamp' => c.value = MergedUrls'[r] /\ c.source = 0
  BY <1>2, StartWrites
<1>4. ASSUME ~careless, AllListed', NEW r \in References, loaded'[r] # Absent
      PROVE  \E c \in InForce(ReferenceOf(r))' : c.value = loaded'[r]
  <2>1. AllListed
    BY <1>2, <1>3, <1>4, ListedBefore DEF ChronologyInv
  <2>2. Listing = chronology /\ Listing' = chronology'
    <3>1. Listing = chronology
      BY <1>1, <2>1, ListedWhole DEF ChronologyInv, AllListed, Listing
    <3>2. Listing' = chronology'
      BY <1>3, <1>4, ListedWhole DEF ChronologyInv, AllListed, Listing, Before
    <3> QED BY <3>1, <3>2
  <2>3. CASE NeedsUpdate(r)
    <3> DEFINE new == Record(ReferenceOf(r), MergedStamp, MergedUrls[r], 0)
    <3>1. new \in Written /\ new.subject = ReferenceOf(r) /\ new.at = MergedStamp /\ new.value = MergedUrls[r]
      BY <1>1, <1>2, <1>4, <2>3, WrittenShape DEF Record
    <3>2. ASSUME NEW other \in RecordsOf(ReferenceOf(r))', other # new
          PROVE  other.at < new.at
      <4>1. other.subject = ReferenceOf(r) /\ (other \in chronology \/ other \in Written)
        BY <1>2 DEF RecordsOf, ReferenceOf
      <4>2. CASE other \in Written
        <5>1. PICK q \in References : MergedUrls[q] # Absent /\ other = Record(ReferenceOf(q), MergedStamp, MergedUrls[q], 0)
          BY <4>2 DEF Written
        <5>2. q = r
          BY <4>1, <5>1, SubjectsDiffer DEF Record
        <5> QED BY <3>2, <5>1, <5>2
      <4>3. CASE other \in chronology /\ other.at = MergedStamp
        <5>1. other.value = MergedUrls[r] /\ other.source = 0
          BY <1>1, <1>4, <4>1, <4>3 DEF ReferenceInv, RecordsOf
        <5>2. other = Record(other.subject, other.at, other.value, other.source)
          BY <1>1, <4>3 DEF ChronologyInv
        <5>3. other = new
          BY <4>1, <4>3, <5>1, <5>2
        <5> QED BY <3>2, <5>3
      <4>4. CASE other \in chronology /\ other.at # MergedStamp
        <5>1. other.at <= MergedStamp /\ other.at \in Nat /\ MergedStamp \in Nat
          BY <1>1, <1>4, <4>1, <4>4, WrittenShape DEF ReferenceInv, RecordsOf, ChronologyInv, Clock
        <5> QED BY <3>1, <4>4, <5>1
      <4> QED BY <4>1, <4>2, <4>3, <4>4
    <3>3. new \in RecordsOf(ReferenceOf(r))'
      BY <1>2, <3>1 DEF RecordsOf, ReferenceOf
    <3>4. \A other \in RecordsOf(ReferenceOf(r))' : other = new \/ Before(other, new)
      BY <3>2 DEF Before
    <3>5. new \in InForce(ReferenceOf(r))'
      BY <2>2, <3>3, <3>4 DEF InForce, RecordsOf, Before, ReferenceOf
    <3> QED BY <1>2, <3>1, <3>5
  <2>4. CASE ~NeedsUpdate(r)
    <3>1. PICK c \in InForce(ReferenceOf(r)) : c.value = MergedUrls[r]
      BY <2>4 DEF NeedsUpdate
    <3>2. RecordsOf(ReferenceOf(r))' = RecordsOf(ReferenceOf(r))
      BY <1>1, <1>2, <2>4, WrittenShape DEF RecordsOf, ReferenceOf
    <3>3. InForce(ReferenceOf(r))' = InForce(ReferenceOf(r))
      BY <2>2, <3>2 DEF InForce, RecordsOf, Before, ReferenceOf
    <3> QED BY <1>2, <3>1, <3>3
  <2> QED BY <2>3, <2>4
<1> QED BY <1>2, <1>3, <1>4 DEF FounderInv, ReferenceInv

\* A step that writes of other subjects alone leaves the references in force.
LEMMA OthersKeepReferences ==
    ASSUME FounderInv, IsFiniteSet(chronology'), chronology \subseteq chronology',
           \A r \in References : \A c \in chronology' \ chronology : c.subject # ReferenceOf(r),
           UNCHANGED <<base, overlay, running, loaded, careless>>
    PROVE  ReferenceInv'
<1>1. ReferenceInv
  BY DEF FounderInv
<1>2. \A r \in References : RecordsOf(ReferenceOf(r))' = RecordsOf(ReferenceOf(r))
  BY DEF RecordsOf, ReferenceOf
<1>3. MergedStamp' = MergedStamp /\ MergedUrls' = MergedUrls
  BY DEF MergedStamp, MergedUrls
<1>4. AllListed' => AllListed /\ Listing = chronology /\ Listing' = chronology'
  <2> SUFFICES ASSUME AllListed' PROVE AllListed /\ Listing = chronology /\ Listing' = chronology'
    OBVIOUS
  <2>1. AllListed /\ IsFiniteSet(chronology)
    BY ListedBefore
  <2>2. Listing = chronology
    BY <2>1, ListedWhole DEF AllListed, Listing
  <2>3. Listing' = chronology'
    BY ListedWhole DEF AllListed, Listing, Before
  <2> QED BY <2>1, <2>2, <2>3
<1>5. AllListed' => \A r \in References : InForce(ReferenceOf(r))' = InForce(ReferenceOf(r))
  BY <1>2, <1>4 DEF InForce, RecordsOf, Before, ReferenceOf
<1>6. \A r \in References : ReferenceOf(r)' = ReferenceOf(r)
  BY DEF ReferenceOf
<1> QED BY <1>1, <1>2, <1>3, <1>4, <1>5, <1>6 DEF ReferenceInv

LEMMA FailedStartKeeps ==
    ASSUME FounderInv, StartUpFails
    PROVE  FounderInv'
<1>1. PICK some \in SUBSET (Written \ chronology) : chronology' = chronology \cup some
  BY DEF StartUpFails
<1>2. running = FALSE /\ running' = FALSE /\ UNCHANGED <<base, overlay, bound, now, careless, slipped>>
  BY DEF StartUpFails, FounderInv, ChronologyInv
<1>3. some \in SUBSET Written
  OBVIOUS
<1>4. /\ ChronologyInv' /\ BindingInv'
      /\ ~careless => \A r \in References : \A c \in RecordsOf(ReferenceOf(r))' :
           /\ c.at <= MergedStamp'
           /\ c.at = MergedStamp' => c.value = MergedUrls'[r] /\ c.source = 0
  BY <1>1, <1>2, <1>3, StartWrites
<1> QED BY <1>2, <1>4 DEF FounderInv, ReferenceInv

LEMMA EditsKeep ==
    ASSUME FounderInv, NEW r \in References, NEW url \in Urls \cup {Absent}, NEW stamp \in Clock, EditFile(r, url, stamp)
    PROVE  FounderInv'
<1>1. ChronologyInv /\ ReferenceInv /\ BindingInv
  BY DEF FounderInv
<1>2. /\ \/ base' = Edited(base, r, url, stamp) /\ overlay' = overlay
         \/ overlay' = Edited(overlay, r, url, stamp) /\ base' = base
      /\ careless' = (careless \/ stamp <= base.stamp \/ stamp <= overlay.stamp)
      /\ UNCHANGED <<chronology, running, loaded, bound, now, slipped>>
  BY DEF EditFile
<1>3. /\ base' \in Files /\ overlay' \in Files
      /\ base'.stamp = stamp \/ overlay'.stamp = stamp
      /\ base'.stamp \in {stamp, base.stamp} /\ overlay'.stamp \in {stamp, overlay.stamp}
  BY <1>1, <1>2 DEF ChronologyInv, Files, Edited
<1>4. base.stamp \in Nat /\ overlay.stamp \in Nat /\ stamp \in Nat
  BY <1>1 DEF ChronologyInv, Files, Clock
<1>5. ASSUME ~careless' PROVE ~careless /\ MergedStamp' = stamp /\ MergedStamp < stamp /\ MergedStamp \in Nat
  <2>1. ~careless /\ ~(stamp <= base.stamp) /\ ~(stamp <= overlay.stamp)
    BY <1>2, <1>5
  <2>2. base.stamp < stamp /\ overlay.stamp < stamp
    BY <1>4, <2>1
  <2>3. MergedStamp' = stamp
    BY <1>3, <1>4, <2>2 DEF MergedStamp
  <2> QED BY <1>4, <2>1, <2>2, <2>3 DEF MergedStamp
<1>6. ChronologyInv'
  BY <1>1, <1>2, <1>3 DEF ChronologyInv
<1>7. ASSUME ~careless', NEW q \in References, NEW c \in RecordsOf(ReferenceOf(q))'
      PROVE  c.at < MergedStamp' /\ c.at \in Nat
  <2>1. c \in chronology /\ c \in RecordsOf(ReferenceOf(q))
    BY <1>2, <1>7 DEF RecordsOf, ReferenceOf
  <2>2. c.at <= MergedStamp /\ c.at \in Nat
    BY <1>1, <1>5, <1>7, <2>1 DEF ReferenceInv, ChronologyInv
  <2> QED BY <1>4, <1>5, <1>7, <2>2
<1>8. ASSUME ~careless', running', AllListed', NEW q \in References, loaded'[q] # Absent
      PROVE  \E c \in InForce(ReferenceOf(q))' : c.value = loaded'[q]
  <2>1. InForce(ReferenceOf(q))' = InForce(ReferenceOf(q))
    BY <1>2 DEF InForce, Listing, Before, ReferenceOf
  <2> QED BY <1>1, <1>2, <1>5, <1>8, <2>1 DEF ReferenceInv, AllListed
<1>9. MergedStamp' \in Nat
  BY <1>3, <1>4 DEF MergedStamp
<1>10. ReferenceInv'
  <2> SUFFICES ASSUME ~careless' PROVE
        /\ \A q \in References : \A c \in RecordsOf(ReferenceOf(q))' :
             c.at <= MergedStamp' /\ (c.at = MergedStamp' => c.value = MergedUrls'[q] /\ c.source = 0)
        /\ running' /\ AllListed' => \A q \in References : loaded'[q] # Absent =>
             \E c \in InForce(ReferenceOf(q))' : c.value = loaded'[q]
    BY DEF ReferenceInv
  <2>1. \A q \in References : \A c \in RecordsOf(ReferenceOf(q))' : c.at < MergedStamp' /\ c.at \in Nat
    BY <1>7
  <2> QED BY <1>8, <1>9, <2>1
<1>11. BindingInv'
  BY <1>1, <1>2 DEF BindingInv, RecordsOf, BindingOf
<1> QED BY <1>6, <1>10, <1>11 DEF FounderInv

LEMMA BindKeeps ==
    ASSUME FounderInv, NEW r \in References, NEW entity \in Entities, Bind(r, entity)
    PROVE  FounderInv'
<1> DEFINE new == NewBinding(r, entity)
<1>1. ChronologyInv /\ BindingInv
  BY DEF FounderInv
<1>2. /\ chronology' = chronology \cup {new} /\ bound' = [bound EXCEPT ![r] = [entity |-> entity, at |-> now]]
      /\ slipped' = (slipped \/ now <= bound[r].at)
      /\ UNCHANGED <<base, overlay, running, loaded, now, careless>>
  BY DEF Bind
<1>3. new.subject = BindingOf(r) /\ new.at = now /\ new.value = entity /\ now \in Nat /\ now > 0
  BY <1>1 DEF NewBinding, Record, ChronologyInv, Clock
<1>4. /\ IsFiniteSet(chronology') /\ bound' = [q \in References |-> bound'[q]]
      /\ bound'[r] = [entity |-> entity, at |-> now] /\ \A q \in References \ {r} : bound'[q] = bound[q]
  <2>1. IsFiniteSet(chronology')
    BY <1>1, <1>2, FS_AddElement DEF ChronologyInv
  <2> QED BY <1>1, <1>2, <2>1 DEF ChronologyInv
<1>5. ChronologyInv'
  <2>1. new = Record(new.subject, new.at, new.value, new.source)
    BY DEF NewBinding, Record
  <2>2. \A c \in chronology' : c.at \in Nat /\ c = Record(c.subject, c.at, c.value, c.source)
    BY <1>1, <1>2, <1>3, <2>1 DEF ChronologyInv
  <2> QED BY <1>1, <1>2, <1>3, <1>4, <2>2 DEF ChronologyInv, Record
<1>6. ReferenceInv'
  <2>1. \A q \in References : \A c \in chronology' \ chronology : c.subject # ReferenceOf(q)
    BY <1>2, <1>3, SubjectsDiffer
  <2> QED BY <1>2, <1>4, <2>1, OthersKeepReferences
<1>7. ASSUME ~slipped', NEW q \in References
      PROVE  IF bound'[q] = NotBound THEN RecordsOf(BindingOf(q))' = {}
             ELSE \E c \in RecordsOf(BindingOf(q))' :
                    /\ c.at = bound'[q].at /\ c.value = bound'[q].entity
                    /\ \A other \in RecordsOf(BindingOf(q))' : other = c \/ other.at < c.at
  <2>1. ~slipped /\ ~(now <= bound[r].at) /\ bound[r].at \in Nat
    BY <1>1, <1>2, <1>7 DEF ChronologyInv
  <2>2. CASE q # r
    <3>1. RecordsOf(BindingOf(q))' = RecordsOf(BindingOf(q))
      BY <1>2, <1>3, <2>2, SubjectsDiffer DEF RecordsOf, BindingOf
    <3> QED BY <1>1, <1>4, <2>1, <2>2, <3>1 DEF BindingInv
  <2>3. CASE q = r
    <3>1. RecordsOf(BindingOf(r))' = RecordsOf(BindingOf(r)) \cup {new}
      BY <1>2, <1>3 DEF RecordsOf, BindingOf
    <3>2. bound'[r] # NotBound /\ bound'[r].at = now /\ bound'[r].entity = entity
      BY <1>3, <1>4 DEF NotBound
    <3>3. \A other \in RecordsOf(BindingOf(r)) : other.at \in Nat /\ other.at < now
      <4>1. CASE bound[r] = NotBound
        BY <1>1, <2>1, <4>1 DEF BindingInv
      <4>2. CASE bound[r] # NotBound
        <5>1. PICK c \in RecordsOf(BindingOf(r)) :
                /\ c.at = bound[r].at /\ \A other \in RecordsOf(BindingOf(r)) : other = c \/ other.at < c.at
          BY <1>1, <2>1, <4>2 DEF BindingInv
        <5>2. \A other \in RecordsOf(BindingOf(r)) : other.at \in Nat
          BY <1>1 DEF ChronologyInv, RecordsOf
        <5> QED BY <1>3, <2>1, <5>1, <5>2
      <4> QED BY <4>1, <4>2
    <3>4. \A other \in RecordsOf(BindingOf(r))' : other = new \/ other.at < new.at
      BY <1>3, <3>1, <3>3
    <3> QED BY <1>3, <2>3, <3>1, <3>2, <3>4
  <2> QED BY <2>2, <2>3
<1>8. BindingInv'
  <2>1. \A q : BindingOf(q)' = BindingOf(q)
    BY DEF BindingOf
  <2> QED BY <1>7, <2>1 DEF BindingInv
<1> QED BY <1>5, <1>6, <1>8 DEF FounderInv

LEMMA RunsAreRecorded ==
    ASSUME FounderInv, Recorded
    PROVE  FounderInv'
<1> DEFINE new == Record(<<"run", recorded'>>, now, recorded', 0)
<1>1. ChronologyInv /\ BindingInv
  BY DEF FounderInv
<1>2. chronology' = chronology \cup {new} /\ UNCHANGED <<base, overlay, running, loaded, bound, now, careless, slipped>>
  BY DEF Recorded
<1>3. new.subject = <<"run", recorded'>> /\ new.at = now /\ now \in Nat
  BY <1>1 DEF Record, ChronologyInv, Clock
<1>4. IsFiniteSet(chronology')
  BY <1>1, <1>2, FS_AddElement DEF ChronologyInv
<1>5. ChronologyInv'
  <2>1. new = Record(new.subject, new.at, new.value, new.source)
    BY DEF NewBinding, Record
  <2>2. \A c \in chronology' : c.at \in Nat /\ c = Record(c.subject, c.at, c.value, c.source)
    BY <1>1, <1>2, <1>3, <2>1 DEF ChronologyInv
  <2> QED BY <1>1, <1>2, <1>3, <1>4, <2>2 DEF ChronologyInv, Record
<1>6. \A q \in References : \A c \in chronology' \ chronology : c.subject # ReferenceOf(q)
  BY <1>2, <1>3, SubjectsDiffer
<1>7. ReferenceInv'
  BY <1>2, <1>4, <1>6, OthersKeepReferences
<1>8. \A q : RecordsOf(BindingOf(q))' = RecordsOf(BindingOf(q)) /\ BindingOf(q)' = BindingOf(q)
  BY <1>2, <1>3, SubjectsDiffer DEF RecordsOf, BindingOf
<1>9. BindingInv'
  BY <1>1, <1>2, <1>8 DEF BindingInv
<1> QED BY <1>5, <1>7, <1>9 DEF FounderInv

\* A step that writes nothing.
LEMMA NothingWritten ==
    ASSUME FounderInv, UNCHANGED <<base, overlay, chronology, loaded, bound, careless, slipped>>,
           now' \in Clock, running' \in BOOLEAN, running' => running
    PROVE  FounderInv'
<1>1. ChronologyInv /\ ReferenceInv /\ BindingInv
  BY DEF FounderInv
<1>2. ChronologyInv'
  BY <1>1 DEF ChronologyInv
<1>3. BindingInv'
  BY <1>1 DEF BindingInv, RecordsOf, BindingOf
<1>4. MergedStamp' = MergedStamp /\ MergedUrls' = MergedUrls /\ (AllListed' <=> AllListed)
  BY DEF MergedStamp, MergedUrls, AllListed
<1>5. \A r : InForce(ReferenceOf(r))' = InForce(ReferenceOf(r)) /\ RecordsOf(ReferenceOf(r))' = RecordsOf(ReferenceOf(r))
  BY DEF InForce, Listing, Before, ReferenceOf, RecordsOf
<1>6. ReferenceInv'
  BY <1>1, <1>4, <1>5 DEF ReferenceInv, ReferenceOf
<1> QED BY <1>2, <1>3, <1>6 DEF FounderInv

LEMMA FounderKept ==
    ASSUME FounderInv, [FounderNext]_founderVars
    PROVE  FounderInv'
<1>1. now \in Clock /\ running \in BOOLEAN
  BY DEF FounderInv, ChronologyInv
<1>2. CASE ShutDown
  BY <1>1, <1>2, NothingWritten DEF ShutDown
<1>3. CASE Tick
  <2>1. now' \in Clock
    BY <1>1, <1>3, ReferenceAssumption DEF Tick, Clock
  <2> QED BY <1>1, <1>3, <2>1, NothingWritten DEF Tick
<1>4. CASE StepBack
  <2>1. now' \in Clock
    BY <1>1, <1>4, ReferenceAssumption DEF StepBack, Clock
  <2> QED BY <1>1, <1>4, <2>1, NothingWritten DEF StepBack
<1>5. CASE UNCHANGED founderVars
  BY <1>1, <1>5, NothingWritten DEF founderVars
<1> QED BY <1>2, <1>3, <1>4, <1>5, LibraryLoads, FailedStartKeeps, EditsKeep, BindKeeps, RunsAreRecorded DEF FounderNext

LEMMA FounderStarts == ASSUME FounderInit PROVE FounderInv
<1>1. PICK r \in References, url \in Urls :
        base = [stamp |-> 1, urls |-> [q \in References |-> IF q = r THEN url ELSE Absent]]
  BY DEF FounderInit
<1>2. /\ overlay = [stamp |-> 1, urls |-> [q \in References |-> Absent]]
      /\ chronology = {} /\ running = FALSE /\ bound = [q \in References |-> NotBound]
      /\ now = 1 /\ careless = FALSE /\ slipped = FALSE
  BY DEF FounderInit
<1>3. 1 \in Clock
  BY ReferenceAssumption DEF Clock
<1>4. base \in Files /\ overlay \in Files
  BY <1>1, <1>2, <1>3 DEF Files
<1>5. ChronologyInv
  BY <1>2, <1>3, <1>4, FS_EmptySet DEF ChronologyInv, NotBound
<1> QED BY <1>2, <1>5 DEF FounderInv, ReferenceInv, BindingInv, RecordsOf

\* After a start the chronology has in force of every reference what the files
\* said, and of every binding the one accepted last, as long as edits raise
\* the stamps, bindings come at instants that grow and the listing has it all:
\* for any references, files, bindings and limits, through failed starts and a
\* clock set back (ensureFounderReferenceLibrary, the bind endpoint,
\* reconstructContinuity).
THEOREM ReferencesHold == FounderInit /\ [][FounderNext]_founderVars => []InForceIsLast
<1>1. ASSUME FounderInv PROVE InForceIsLast
  <2>1. ChronologyInv /\ ReferenceInv /\ BindingInv
    BY <1>1 DEF FounderInv
  <2>2. ASSUME AllListed, ~slipped, NEW r \in References, bound[r] # NotBound
        PROVE  \E c \in InForce(BindingOf(r)) : c.value = bound[r].entity
    <3>1. PICK c \in RecordsOf(BindingOf(r)) :
            /\ c.value = bound[r].entity
            /\ \A other \in RecordsOf(BindingOf(r)) : other = c \/ other.at < c.at
      BY <2>1, <2>2 DEF BindingInv
    <3>2. c \in InForce(BindingOf(r))
      BY <2>1, <2>2, <3>1, NewestInForce DEF ChronologyInv
    <3> QED BY <3>1, <3>2
  <2> QED BY <2>1, <2>2 DEF ReferenceInv, InForceIsLast
<1> QED BY <1>1, FounderStarts, FounderKept, PTL

-----------------------------------------------------------------------------
(* Drafts of flows                                                           *)

Ids == 1 .. MaxNodes
Acyclic(connections) ==
    \A c \in connections : c[3] # "error" => c[1] \notin Reached(connections, {c[2]})

\* A draft that the engine would take for its graph and its approvals, with
\* whatever nodes on.
Sound(d) ==
    /\ \A n \in NodesIn(d) : d.nodes[n].risky => d.nodes[n].approval
    /\ \A c \in d.connections : {c[1], c[2]} \subseteq NodesIn(d)
    /\ Acyclic(d.connections)

SoundDrafts == {d \in FlowDrafts : Sound(d)}

\* What may be on the screen and in the history
Drawn == IF foreign THEN FlowDrafts ELSE SoundDrafts

EditorInv ==
    /\ foreign \in BOOLEAN /\ kept \in BOOLEAN
    /\ opened \in Drawn /\ past \in Seq(Drawn) /\ future \in Seq(Drawn)
    /\ stored = NoDraft \/ (stored \in Drawn /\ ~Blocked(stored))
    /\ kept => IF stored = NoDraft THEN Blocked(opened) \/ past = <<>>
               ELSE stored = opened \/ (Refused(stored) /\ past = <<>> /\ future = <<>>)

LEMMA DraftParts ==
    ASSUME NEW d \in FlowDrafts
    PROVE  /\ NodesIn(d) \subseteq Ids /\ d.nodes \in [NodesIn(d) -> FlowNodes]
           /\ d.connections \in SUBSET (Ids \X Ids \X Branches) /\ d.look \in {0, 1}
           /\ \E nodes, connections, look : d = [nodes |-> nodes, connections |-> connections, look |-> look]
<1>1. PICK ids \in SUBSET Ids : d.nodes \in [ids -> FlowNodes]
  BY DEF FlowDrafts, Ids
<1>2. NodesIn(d) = ids
  BY <1>1 DEF NodesIn
<1> QED BY <1>1, <1>2 DEF FlowDrafts, Ids

LEMMA DraftMade ==
    ASSUME NEW ids \in SUBSET Ids, NEW nodes \in [ids -> FlowNodes],
           NEW connections \in SUBSET (Ids \X Ids \X Branches), NEW look \in {0, 1},
           NEW d, d = [nodes |-> nodes, connections |-> connections, look |-> look]
    PROVE  d \in FlowDrafts /\ NodesIn(d) = ids
  BY DEF FlowDrafts, Ids, NodesIn

\* A node is not reached exactly when a closed set keeps it out.
LEMMA KeptOut ==
    ASSUME NEW connections, NEW from, NEW n \in Ids, n \notin Reached(connections, {from})
    PROVE  \E nodes \in SUBSET Ids : from \in nodes /\ Closed(nodes, connections) /\ n \notin nodes
  BY DEF Reached, Ids

LEMMA NotReached ==
    ASSUME NEW connections, NEW from, NEW n, NEW nodes \in SUBSET Ids,
           from \in nodes, Closed(nodes, connections), n \notin nodes
    PROVE  n \notin Reached(connections, {from})
  BY DEF Reached, Ids

LEMMA FewerAcyclic ==
    ASSUME NEW connections \in SUBSET (Ids \X Ids \X Branches), NEW fewer \in SUBSET connections, Acyclic(connections)
    PROVE  Acyclic(fewer)
<1> SUFFICES ASSUME NEW c \in fewer, c[3] # "error" PROVE c[1] \notin Reached(fewer, {c[2]})
  BY DEF Acyclic
<1>1. c[1] \in Ids /\ c[1] \notin Reached(connections, {c[2]})
  BY DEF Acyclic
<1>2. PICK nodes \in SUBSET Ids : c[2] \in nodes /\ Closed(nodes, connections) /\ c[1] \notin nodes
  BY <1>1, KeptOut
<1>3. Closed(nodes, fewer)
  BY <1>2 DEF Closed
<1> QED BY <1>2, <1>3, NotReached

\* A connection from a node that the other end does not reach closes no cycle.
LEMMA LinkAcyclic ==
    ASSUME NEW connections \in SUBSET (Ids \X Ids \X Branches), Acyclic(connections),
           NEW from \in Ids, NEW to \in Ids, NEW branch \in Branches,
           branch = "error" \/ from \notin Reached(connections, {to})
    PROVE  Acyclic(connections \cup {<<from, to, branch>>})
<1> DEFINE more == connections \cup {<<from, to, branch>>}
<1> SUFFICES ASSUME NEW c \in more, c[3] # "error" PROVE c[1] \notin Reached(more, {c[2]})
  BY DEF Acyclic
<1>1. CASE branch = "error"
  <2>1. c \in connections
    BY <1>1
  <2>2. c[1] \in Ids /\ c[1] \notin Reached(connections, {c[2]})
    BY <2>1 DEF Acyclic
  <2>3. PICK nodes \in SUBSET Ids : c[2] \in nodes /\ Closed(nodes, connections) /\ c[1] \notin nodes
    BY <2>2, KeptOut
  <2>4. Closed(nodes, more)
    BY <1>1, <2>3 DEF Closed
  <2> QED BY <2>3, <2>4, NotReached
<1>2. CASE branch # "error"
  <2>1. PICK beyond \in SUBSET Ids : to \in beyond /\ Closed(beyond, connections) /\ from \notin beyond
    BY <1>2, KeptOut
  <2>2. Closed(beyond, more)
    BY <2>1 DEF Closed
  <2>3. CASE c = <<from, to, branch>>
    BY <2>1, <2>2, <2>3, NotReached
  <2>4. CASE c \in connections
    <3>1. c[1] \in Ids /\ c[1] \notin Reached(connections, {c[2]})
      BY <2>4 DEF Acyclic
    <3>2. PICK nodes \in SUBSET Ids : c[2] \in nodes /\ Closed(nodes, connections) /\ c[1] \notin nodes
      BY <3>1, KeptOut
    <3>3. CASE c[1] \notin beyond
      <4>1. Closed(nodes \cup beyond, more)
        BY <2>1, <2>2, <3>2 DEF Closed
      <4> QED BY <2>1, <3>2, <3>3, <4>1, NotReached
    <3>4. CASE c[1] \in beyond
      <4>1. c[2] \in beyond
        BY <2>1, <2>4, <3>4 DEF Closed
      <4>2. Closed(nodes \cap beyond, more)
        BY <2>1, <2>2, <3>2 DEF Closed
      <4> QED BY <3>2, <4>1, <4>2, NotReached
    <3> QED BY <3>3, <3>4
  <2> QED BY <2>3, <2>4
<1> QED BY <1>1, <1>2

\* What the engine and the editor would object to in a sound draft.
LEMMA SoundTolerated ==
    ASSUME NEW d \in SoundDrafts
    PROVE  DraftErrors(d) \subseteq Tolerated
<1> DEFINE live == {n \in NodesIn(d) : ~d.nodes[n].disabled}
           flows == {c \in d.connections : {c[1], c[2]} \subseteq live /\ c[3] # "error"}
<1>1. d \in FlowDrafts /\ Sound(d)
  BY DEF SoundDrafts
<1>2. d.connections \in SUBSET (Ids \X Ids \X Branches)
  BY <1>1, DraftParts
<1>3. Acyclic(flows)
  BY <1>1, <1>2, FewerAcyclic DEF Sound
<1>4. ~\E c \in flows : c[1] \in Reached(flows, {c[2]})
  BY <1>3 DEF Acyclic
<1>5. /\ ~\E n \in NodesIn(d) : d.nodes[n].risky /\ ~d.nodes[n].approval
      /\ ~\E c \in d.connections : ~{c[1], c[2]} \subseteq NodesIn(d)
  BY <1>1 DEF Sound
<1>6. \A e \in DraftErrors(d) : e \in {"no trigger", "approval", "unknown node", "cycle", "secret"}
  BY DEF DraftErrors
<1>7. "approval" \notin DraftErrors(d) /\ "unknown node" \notin DraftErrors(d) /\ "cycle" \notin DraftErrors(d)
  BY <1>4, <1>5 DEF DraftErrors
<1> QED BY <1>6, <1>7 DEF Tolerated

\* A file whose draft has no other error with all its nodes on is sound.
LEMMA FilesSound ==
    ASSUME NEW d \in FlowDrafts, DraftErrors(AllOn(d)) \subseteq Tolerated
    PROVE  Sound(d)
<1> DEFINE on == AllOn(d)
<1>1. /\ d.nodes \in [NodesIn(d) -> FlowNodes] /\ d.connections \in SUBSET (Ids \X Ids \X Branches)
      /\ \E nodes, connections, look : d = [nodes |-> nodes, connections |-> connections, look |-> look]
  BY DraftParts
<1>2. on.nodes = [n \in NodesIn(d) |-> [d.nodes[n] EXCEPT !.disabled = FALSE]] /\ on.connections = d.connections
  BY <1>1 DEF AllOn
<1>3. /\ NodesIn(on) = NodesIn(d)
      /\ \A n \in NodesIn(d) : /\ ~on.nodes[n].disabled /\ (on.nodes[n].risky <=> d.nodes[n].risky)
                               /\ (on.nodes[n].approval <=> d.nodes[n].approval)
  BY <1>1, <1>2 DEF NodesIn, FlowNodes
<1>4. /\ "approval" \notin DraftErrors(on) /\ "unknown node" \notin DraftErrors(on) /\ "cycle" \notin DraftErrors(on)
  BY DEF Tolerated
<1> DEFINE live == {n \in NodesIn(on) : ~on.nodes[n].disabled}
           flows == {c \in on.connections : {c[1], c[2]} \subseteq live /\ c[3] # "error"}
<1>5. /\ ~\E n \in NodesIn(on) : on.nodes[n].risky /\ ~on.nodes[n].approval
      /\ ~\E c \in on.connections : ~{c[1], c[2]} \subseteq NodesIn(on)
      /\ ~\E c \in flows : c[1] \in Reached(flows, {c[2]})
  BY <1>4 DEF DraftErrors
<1>6. flows = {c \in d.connections : c[3] # "error"}
  <2>1. live = NodesIn(on)
    BY <1>3
  <2>2. \A c \in d.connections : {c[1], c[2]} \subseteq live
    BY <1>2, <1>5, <2>1
  <2> QED BY <1>2, <2>2
<1>7. ASSUME NEW c \in d.connections, c[3] # "error" PROVE c[1] \notin Reached(d.connections, {c[2]})
  <2>1. c[1] \in Ids /\ c[1] \notin Reached(flows, {c[2]})
    BY <1>1, <1>5, <1>6, <1>7
  <2>2. PICK nodes \in SUBSET Ids : c[2] \in nodes /\ Closed(nodes, flows) /\ c[1] \notin nodes
    BY <2>1, KeptOut
  <2>3. Closed(nodes, d.connections)
    BY <1>6, <2>2 DEF Closed
  <2> QED BY <2>2, <2>3, NotReached
<1>8. \A n \in NodesIn(d) : d.nodes[n].risky => d.nodes[n].approval
  BY <1>3, <1>5
<1>9. \A c \in d.connections : {c[1], c[2]} \subseteq NodesIn(d)
  BY <1>2, <1>3, <1>5
<1> QED BY <1>7, <1>8, <1>9 DEF Sound, Acyclic

\* A normalized node asks for approval when it is risky.
LEMMA NormalizedAsks ==
    ASSUME NEW node \in FlowNodes
    PROVE  Normalized(node) \in FlowNodes /\ (Normalized(node).risky => Normalized(node).approval)
<1>1. PICK kind \in NodeKinds, risky \in BOOLEAN, approval \in BOOLEAN, sends \in BOOLEAN,
           disabled \in BOOLEAN, secret \in BOOLEAN :
        node = [kind |-> kind, risky |-> risky, approval |-> approval, sends |-> sends,
                disabled |-> disabled, secret |-> secret]
  BY DEF FlowNodes
<1> DEFINE danger == risky \/ sends
           asks == approval \/ kind = "approval" \/ danger
<1>2. Normalized(node) = [kind |-> kind, risky |-> danger, approval |-> asks, sends |-> sends,
                          disabled |-> disabled, secret |-> secret]
  <2>1. node.risky = risky /\ node.sends = sends /\ node.approval = approval /\ node.kind = kind
    BY <1>1
  <2>2. Normalized(node) = [node EXCEPT !.risky = danger, !.approval = asks]
    BY <2>1, Zenon DEF Normalized
  <2> HIDE DEF danger, asks
  <2> QED BY <1>1, <2>2
<1>3. danger \in BOOLEAN /\ asks \in BOOLEAN /\ (danger => asks)
  OBVIOUS
<1> HIDE DEF danger, asks
<1> QED BY <1>2, <1>3 DEF FlowNodes

LEMMA NewNodeAsks ==
    ASSUME NEW kind \in NodeKinds
    PROVE  NewNode(kind) \in FlowNodes /\ (NewNode(kind).risky => NewNode(kind).approval)
<1>1. [kind |-> kind, risky |-> FALSE, approval |-> FALSE, sends |-> FALSE, disabled |-> FALSE, secret |-> FALSE] \in FlowNodes
  BY DEF FlowNodes
<1> QED BY <1>1, NormalizedAsks DEF NewNode

\* A draft with another node, or another in the place of one
LEMMA WithNodeIs ==
    ASSUME NEW d \in FlowDrafts, NEW id \in Ids, NEW node \in FlowNodes
    PROVE  /\ WithNode(d, id, node) \in FlowDrafts
           /\ NodesIn(WithNode(d, id, node)) = NodesIn(d) \cup {id}
           /\ WithNode(d, id, node).connections = d.connections
           /\ Sound(d) /\ (node.risky => node.approval) => Sound(WithNode(d, id, node))
<1> DEFINE nodes == [n \in NodesIn(d) \cup {id} |-> IF n = id THEN node ELSE d.nodes[n]]
           new == WithNode(d, id, node)
<1>1. /\ NodesIn(d) \subseteq Ids /\ d.nodes \in [NodesIn(d) -> FlowNodes]
      /\ d.connections \in SUBSET (Ids \X Ids \X Branches) /\ d.look \in {0, 1}
  BY DraftParts
<1>2. new = [nodes |-> nodes, connections |-> d.connections, look |-> d.look]
  <2>1. PICK n, c, l : d = [nodes |-> n, connections |-> c, look |-> l]
    BY DraftParts
  <2> HIDE DEF nodes
  <2>2. [d EXCEPT !.nodes = nodes] = [nodes |-> nodes, connections |-> c, look |-> l]
    BY <2>1
  <2> QED BY <2>1, <2>2 DEF WithNode, nodes
<1>3. nodes \in [NodesIn(d) \cup {id} -> FlowNodes]
  BY <1>1
<1>4. new \in FlowDrafts /\ NodesIn(new) = NodesIn(d) \cup {id}
  <2> HIDE DEF nodes, new
  <2>1. NodesIn(d) \cup {id} \in SUBSET Ids
    BY <1>1
  <2> QED BY <1>1, <1>2, <1>3, <2>1, DraftMade
<1>5. new.connections = d.connections /\ new.nodes = nodes
  BY <1>2
<1>6. ASSUME Sound(d), node.risky => node.approval PROVE Sound(new)
  <2>1. \A n \in NodesIn(new) : new.nodes[n].risky => new.nodes[n].approval
    BY <1>4, <1>5, <1>6 DEF Sound
  <2>2. \A c \in new.connections : {c[1], c[2]} \subseteq NodesIn(new)
    BY <1>4, <1>5, <1>6 DEF Sound
  <2>3. Acyclic(new.connections)
    BY <1>5, <1>6 DEF Sound
  <2> QED BY <2>1, <2>2, <2>3 DEF Sound
<1> QED BY <1>4, <1>5, <1>6

\* A draft with other connections
LEMMA LinkedIs ==
    ASSUME NEW d \in FlowDrafts, NEW links \in SUBSET (Ids \X Ids \X Branches), NEW new,
           new = [d EXCEPT !.connections = links]
    PROVE  /\ new \in FlowDrafts /\ NodesIn(new) = NodesIn(d)
           /\ /\ Sound(d) /\ Acyclic(links) /\ \A c \in links : {c[1], c[2]} \subseteq NodesIn(d)
              => Sound(new)
<1>1. NodesIn(d) \in SUBSET Ids /\ d.nodes \in [NodesIn(d) -> FlowNodes] /\ d.look \in {0, 1}
  BY DraftParts
<1>2. new = [nodes |-> d.nodes, connections |-> links, look |-> d.look]
  <2>1. PICK n, c, l : d = [nodes |-> n, connections |-> c, look |-> l]
    BY DraftParts
  <2> QED BY <2>1
<1>3. new \in FlowDrafts /\ NodesIn(new) = NodesIn(d)
  BY <1>1, <1>2, DraftMade
<1> QED BY <1>2, <1>3 DEF Sound

\* A draft with another mark
LEMMA RestyledIs ==
    ASSUME NEW d \in FlowDrafts
    PROVE  LET new == [d EXCEPT !.look = 1 - @]
           IN  new \in FlowDrafts /\ (Sound(d) => Sound(new))
<1> DEFINE new == [d EXCEPT !.look = 1 - @]
<1>1. PICK nodes, connections, look : d = [nodes |-> nodes, connections |-> connections, look |-> look]
  BY DraftParts
<1>2. new = [nodes |-> nodes, connections |-> connections, look |-> 1 - look] /\ look \in {0, 1}
  BY <1>1, DraftParts
<1>3. nodes = d.nodes /\ connections = d.connections /\ 1 - look \in {0, 1}
  BY <1>1, <1>2
<1> HIDE DEF new
<1>4. new \in FlowDrafts /\ NodesIn(new) = NodesIn(d) /\ new.nodes = d.nodes /\ new.connections = d.connections
  BY <1>2, <1>3, DraftParts, DraftMade
<1> QED BY <1>4 DEF Sound, new

LEMMA ConnectedIs ==
    ASSUME NEW d \in FlowDrafts, NEW from, NEW to, NEW branch \in Branches, Connectable(d, from, to, branch)
    PROVE  Connected(d, from, to, branch) \in FlowDrafts /\ (Sound(d) => Sound(Connected(d, from, to, branch)))
<1> DEFINE links == d.connections \cup {<<from, to, branch>>}
<1>1. d.connections \in SUBSET (Ids \X Ids \X Branches) /\ NodesIn(d) \subseteq Ids
  BY DraftParts
<1>2. from \in NodesIn(d) /\ to \in NodesIn(d) /\ (branch = "error" \/ from \notin Reached(d.connections, {to}))
  BY DEF Connectable, NoCycle
<1>3. links \in SUBSET (Ids \X Ids \X Branches)
  BY <1>1, <1>2
<1>4. Connected(d, from, to, branch) = [d EXCEPT !.connections = links]
  BY DEF Connected
<1>5. Sound(d) => Acyclic(links)
  BY <1>1, <1>2, LinkAcyclic DEF Sound
<1>6. Sound(d) => \A c \in links : {c[1], c[2]} \subseteq NodesIn(d)
  BY <1>2 DEF Sound
<1> QED BY <1>3, <1>4, <1>5, <1>6, LinkedIs

LEMMA WithoutIs ==
    ASSUME NEW d \in FlowDrafts, NEW id
    PROVE  Without(d, id) \in FlowDrafts /\ (Sound(d) => Sound(Without(d, id)))
<1> DEFINE nodes == [n \in NodesIn(d) \ {id} |-> d.nodes[n]]
           links == {c \in d.connections : id \notin {c[1], c[2]}}
           new == Without(d, id)
<1>1. /\ NodesIn(d) \subseteq Ids /\ d.nodes \in [NodesIn(d) -> FlowNodes]
      /\ d.connections \in SUBSET (Ids \X Ids \X Branches) /\ d.look \in {0, 1}
  BY DraftParts
<1>2. new = [nodes |-> nodes, connections |-> links, look |-> d.look]
  <2>1. PICK n, c, l : d = [nodes |-> n, connections |-> c, look |-> l]
    BY DraftParts
  <2>2. new = [d EXCEPT !.nodes = nodes, !.connections = links]
    BY <2>1 DEF Without
  <2> HIDE DEF nodes, links
  <2> QED BY <2>1, <2>2
<1>3. nodes \in [NodesIn(d) \ {id} -> FlowNodes] /\ links \in SUBSET d.connections
  BY <1>1
<1>4. new \in FlowDrafts /\ NodesIn(new) = NodesIn(d) \ {id}
  <2> HIDE DEF nodes, links, new
  <2>1. NodesIn(d) \ {id} \in SUBSET Ids
    BY <1>1
  <2> QED BY <1>1, <1>2, <1>3, <2>1, DraftMade
<1>5. ASSUME Sound(d) PROVE Sound(new)
  <2>1. Acyclic(links)
    BY <1>1, <1>3, <1>5, FewerAcyclic DEF Sound
  <2>2. \A c \in links : {c[1], c[2]} \subseteq NodesIn(d) \ {id}
    BY <1>5 DEF Sound
  <2>3. \A n \in NodesIn(new) : nodes[n].risky => nodes[n].approval
    <3>1. \A n \in NodesIn(new) : n \in NodesIn(d) \ {id} /\ nodes[n] = d.nodes[n]
      BY <1>4
    <3> QED BY <1>5, <3>1 DEF Sound
  <2>4. new.nodes = nodes /\ new.connections = links
    BY <1>2
  <2> HIDE DEF nodes, links, new
  <2> QED BY <1>4, <2>1, <2>2, <2>3, <2>4 DEF Sound
<1> QED BY <1>4, <1>5

-----------------------------------------------------------------------------
LEMMA PersistKeeps ==
    ASSUME NEW D, NEW d \in D, stored = NoDraft \/ (stored \in D /\ ~Blocked(stored)), D \subseteq FlowDrafts,
           opened' = d, Persist(d)
    PROVE  /\ stored' = NoDraft \/ (stored' \in D /\ ~Blocked(stored'))
           /\ kept' \in BOOLEAN
           /\ kept' => IF stored' = NoDraft THEN Blocked(opened') ELSE stored' = opened'
<1>1. d # NoDraft
  BY DraftParts DEF NoDraft
<1> QED BY <1>1 DEF Persist

\* What an edit does, of a draft that may be drawn once it is made
LEMMA CommitKeeps ==
    ASSUME EditorInv, NEW d \in Drawn', Drawn \subseteq Drawn', Commit(d), foreign' \in BOOLEAN
    PROVE  EditorInv'
<1>1. /\ opened \in Drawn' /\ past \in Seq(Drawn') /\ Drawn' \subseteq FlowDrafts
      /\ stored = NoDraft \/ (stored \in Drawn' /\ ~Blocked(stored))
  BY SeqMonotonic DEF EditorInv, Drawn, SoundDrafts
<1>2. opened' = d /\ future' = <<>> /\ Persist(d)
  BY DEF Commit
<1>3. past' = IF Len(Append(past, opened)) > MaxHistory THEN Tail(Append(past, opened)) ELSE Append(past, opened)
  BY DEF Commit
<1>4. Append(past, opened) \in Seq(Drawn') /\ Append(past, opened) # <<>>
  BY <1>1, AppendProperties
<1>5. Tail(Append(past, opened)) \in Seq(Drawn')
  BY <1>4, HeadTailProperties
<1>6. past' \in Seq(Drawn')
  BY <1>3, <1>4, <1>5
<1>7. future' \in Seq(Drawn')
  BY <1>2, EmptySeq
<1>8. /\ stored' = NoDraft \/ (stored' \in Drawn' /\ ~Blocked(stored'))
      /\ kept' \in BOOLEAN
      /\ kept' => IF stored' = NoDraft THEN Blocked(opened') ELSE stored' = opened'
  BY <1>1, <1>2, PersistKeeps
<1> QED BY <1>2, <1>6, <1>7, <1>8 DEF EditorInv, Blocked

\* The last of a history, and the rest of it
LEMMA LastOf ==
    ASSUME NEW S, NEW s \in Seq(S), s # <<>>
    PROVE  Last(s) \in S /\ Front(s) \in Seq(S)
<1>1. Len(s) \in Nat \ {0}
  BY EmptySeq
<1>2. \A i \in 1 .. Len(s) - 1 : s[i] \in S
  BY <1>1, ElementOfSeq
<1>3. SubSeq(s, 1, Len(s) - 1) \in Seq(S)
  BY <1>1, <1>2, SubSeqProperties
<1>4. s[Len(s)] \in S
  BY <1>1, ElementOfSeq
<1> QED BY <1>3, <1>4 DEF Last, Front

LEMMA ShownKeeps ==
    ASSUME EditorInv, NEW d \in Drawn, ShownDraft(d), past' \in Seq(Drawn), future' \in Seq(Drawn), foreign' = foreign
    PROVE  EditorInv'
<1>1. Drawn' = Drawn /\ Drawn \subseteq FlowDrafts
  BY DEF Drawn, SoundDrafts
<1>2. stored = NoDraft \/ (stored \in Drawn /\ ~Blocked(stored))
  BY DEF EditorInv
<1>3. opened' = d /\ Persist(d)
  BY DEF ShownDraft
<1>4. /\ stored' = NoDraft \/ (stored' \in Drawn /\ ~Blocked(stored'))
      /\ kept' \in BOOLEAN
      /\ kept' => IF stored' = NoDraft THEN Blocked(opened') ELSE stored' = opened'
  BY <1>1, <1>2, <1>3, PersistKeeps
<1> QED BY <1>1, <1>3, <1>4 DEF EditorInv, Blocked

LEMMA HistoryKeeps ==
    ASSUME EditorInv, Undo \/ Redo
    PROVE  EditorInv'
<1>1. opened \in Drawn /\ past \in Seq(Drawn) /\ future \in Seq(Drawn)
  BY DEF EditorInv
<1>2. CASE Undo
  <2>1. past # <<>> /\ past' = Front(past) /\ future' = Append(future, opened) /\ ShownDraft(Last(past)) /\ foreign' = foreign
    BY <1>2 DEF Undo
  <2> QED BY <1>1, <2>1, LastOf, AppendProperties, ShownKeeps
<1>3. CASE Redo
  <2>1. future # <<>> /\ future' = Front(future) /\ past' = Append(past, opened) /\ ShownDraft(Last(future)) /\ foreign' = foreign
    BY <1>3 DEF Redo
  <2> QED BY <1>1, <2>1, LastOf, AppendProperties, ShownKeeps
<1> QED BY <1>2, <1>3

\* An edit of the draft on the screen that keeps it sound
LEMMA EditKeeps ==
    ASSUME EditorInv, NEW d \in FlowDrafts, Sound(opened) => Sound(d), Commit(d), foreign' = foreign
    PROVE  EditorInv'
<1>1. Drawn' = Drawn
  BY DEF Drawn, SoundDrafts
<1>2. d \in Drawn
  BY DEF EditorInv, Drawn, SoundDrafts
<1> QED BY <1>1, <1>2, CommitKeeps DEF EditorInv

LEMMA FreshIs == ASSUME NEW d, FreeIds(d) # {} PROVE FreshId(d) \in Ids
<1>1. FreeIds(d) \subseteq Nat
  BY EditorAssumption DEF FreeIds
<1>2. PICK first \in FreeIds(d) : \A other \in FreeIds(d) : first <= other
  BY <1>1, FirstExists
<1>3. FreshId(d) \in FreeIds(d)
  BY <1>2 DEF FreshId
<1> QED BY <1>3 DEF FreeIds, Ids

LEMMA AddKeeps ==
    ASSUME EditorInv, NEW kind \in NodeKinds, NEW near \in 0 .. MaxNodes, AddNode(kind, near)
    PROVE  EditorInv'
<1> DEFINE id == FreshId(opened)
           wider == WithNode(opened, id, NewNode(kind))
<1>1. opened \in FlowDrafts /\ id \in Ids
  BY FreshIs DEF EditorInv, Drawn, SoundDrafts, AddNode
<1>2. wider \in FlowDrafts /\ (Sound(opened) => Sound(wider))
  BY <1>1, NewNodeAsks, WithNodeIs
<1>3. foreign' = foreign
  BY DEF AddNode
<1>4. CASE Commit(wider)
  BY <1>2, <1>3, <1>4, EditKeeps
<1>5. CASE Connectable(wider, near, id, "main") /\ Commit(Connected(wider, near, id, "main"))
  <2> HIDE DEF wider, id
  <2>1. "main" \in Branches
    BY DEF Branches
  <2>2. /\ Connected(wider, near, id, "main") \in FlowDrafts
        /\ Sound(opened) => Sound(Connected(wider, near, id, "main"))
    BY <1>2, <1>5, <2>1, ConnectedIs
  <2> QED BY <1>3, <1>5, <2>2, EditKeeps
<1> QED BY <1>4, <1>5 DEF AddNode

LEMMA NodesKeep ==
    ASSUME EditorInv, NEW id \in Ids,
           DuplicateNode(id) \/ RemoveNode(id) \/ SetParameter(id) \/ \E field \in Fields : UpdateNode(id, field)
    PROVE  EditorInv'
<1>1. opened \in FlowDrafts
  BY DEF EditorInv, Drawn, SoundDrafts
<1>2. opened.nodes \in [NodesIn(opened) -> FlowNodes]
  BY <1>1, DraftParts
<1>3. CASE DuplicateNode(id)
  <2>1. /\ id \in NodesIn(opened) /\ FreeIds(opened) # {} /\ foreign' = foreign
        /\ Commit(WithNode(opened, FreshId(opened), opened.nodes[id]))
    BY <1>3 DEF DuplicateNode
  <2>2. opened.nodes[id] \in FlowNodes /\ FreshId(opened) \in Ids
    BY <1>2, <2>1, FreshIs
  <2>3. Sound(opened) => (opened.nodes[id].risky => opened.nodes[id].approval)
    BY <2>1 DEF Sound
  <2>4. /\ WithNode(opened, FreshId(opened), opened.nodes[id]) \in FlowDrafts
        /\ Sound(opened) => Sound(WithNode(opened, FreshId(opened), opened.nodes[id]))
    BY <1>1, <2>2, <2>3, WithNodeIs
  <2> QED BY <2>1, <2>4, EditKeeps
<1>4. CASE RemoveNode(id)
  <2>1. Commit(Without(opened, id)) /\ foreign' = foreign
    BY <1>4 DEF RemoveNode
  <2> QED BY <1>1, <2>1, WithoutIs, EditKeeps
<1>5. ASSUME NEW field \in Fields, UpdateNode(id, field) PROVE EditorInv'
  <2> DEFINE edited == [opened.nodes[id] EXCEPT ![field] = ~@]
  <2>1. /\ id \in NodesIn(opened) /\ Commit(WithNode(opened, id, Normalized(edited))) /\ foreign' = foreign
    BY <1>5 DEF UpdateNode
  <2>2. edited \in FlowNodes
    <3>1. PICK kind \in NodeKinds, risky \in BOOLEAN, approval \in BOOLEAN, sends \in BOOLEAN,
               disabled \in BOOLEAN, secret \in BOOLEAN :
            opened.nodes[id] = [kind |-> kind, risky |-> risky, approval |-> approval, sends |-> sends,
                                disabled |-> disabled, secret |-> secret]
      BY <1>2, <2>1 DEF FlowNodes
    <3>2. field \in {"risky", "approval", "sends", "disabled", "secret"}
      BY DEF Fields
    <3>3. CASE field = "risky"
      <4>1. edited = [kind |-> kind, risky |-> ~risky, approval |-> approval, sends |-> sends, disabled |-> disabled, secret |-> secret]
        BY <3>1, <3>3
      <4> QED BY <4>1 DEF FlowNodes
    <3>4. CASE field = "approval"
      <4>1. edited = [kind |-> kind, risky |-> risky, approval |-> ~approval, sends |-> sends, disabled |-> disabled, secret |-> secret]
        BY <3>1, <3>4
      <4> QED BY <4>1 DEF FlowNodes
    <3>5. CASE field = "sends"
      <4>1. edited = [kind |-> kind, risky |-> risky, approval |-> approval, sends |-> ~sends, disabled |-> disabled, secret |-> secret]
        BY <3>1, <3>5
      <4> QED BY <4>1 DEF FlowNodes
    <3>6. CASE field = "disabled"
      <4>1. edited = [kind |-> kind, risky |-> risky, approval |-> approval, sends |-> sends, disabled |-> ~disabled, secret |-> secret]
        BY <3>1, <3>6
      <4> QED BY <4>1 DEF FlowNodes
    <3>7. CASE field = "secret"
      <4>1. edited = [kind |-> kind, risky |-> risky, approval |-> approval, sends |-> sends, disabled |-> disabled, secret |-> ~secret]
        BY <3>1, <3>7
      <4> QED BY <4>1 DEF FlowNodes
    <3> QED BY <3>2, <3>3, <3>4, <3>5, <3>6, <3>7
  <2> HIDE DEF edited
  <2>3. Normalized(edited) \in FlowNodes /\ (Normalized(edited).risky => Normalized(edited).approval)
    BY <2>2, NormalizedAsks
  <2>4. /\ WithNode(opened, id, Normalized(edited)) \in FlowDrafts
        /\ Sound(opened) => Sound(WithNode(opened, id, Normalized(edited)))
    BY <1>1, <2>3, WithNodeIs
  <2> QED BY <2>1, <2>4, EditKeeps
<1>6. CASE SetParameter(id)
  <2> DEFINE wider == WithNode(opened, id, Normalized(opened.nodes[id]))
             new == [wider EXCEPT !.look = 1 - @]
  <2>1. id \in NodesIn(opened) /\ Commit(new) /\ foreign' = foreign
    BY <1>6 DEF SetParameter
  <2>2. /\ Normalized(opened.nodes[id]) \in FlowNodes
        /\ Normalized(opened.nodes[id]).risky => Normalized(opened.nodes[id]).approval
    BY <1>2, <2>1, NormalizedAsks
  <2>3. wider \in FlowDrafts /\ (Sound(opened) => Sound(wider))
    BY <1>1, <2>2, WithNodeIs
  <2> HIDE DEF wider
  <2>4. new \in FlowDrafts /\ (Sound(wider) => Sound(new))
    BY <2>3, RestyledIs
  <2> HIDE DEF new
  <2> QED BY <2>1, <2>3, <2>4, EditKeeps
<1> QED BY <1>3, <1>4, <1>5, <1>6

LEMMA LinksKeep ==
    ASSUME EditorInv,
           \/ \E from, to \in Ids, branch \in Branches : TryLink(from, to, branch)
           \/ \E c \in opened.connections : Disconnect(c)
           \/ Restyle
    PROVE  EditorInv'
<1>1. opened \in FlowDrafts
  BY DEF EditorInv, Drawn, SoundDrafts
<1>2. ASSUME NEW from \in Ids, NEW to \in Ids, NEW branch \in Branches, TryLink(from, to, branch) PROVE EditorInv'
  <2>1. Connectable(opened, from, to, branch) /\ Commit(Connected(opened, from, to, branch)) /\ foreign' = foreign
    BY <1>2 DEF TryLink
  <2> QED BY <1>1, <2>1, ConnectedIs, EditKeeps
<1>3. ASSUME NEW c \in opened.connections, Disconnect(c) PROVE EditorInv'
  <2> DEFINE links == opened.connections \ {c}
             new == [opened EXCEPT !.connections = links]
  <2>1. Commit(new) /\ foreign' = foreign
    BY <1>3 DEF Disconnect
  <2>2. opened.connections \in SUBSET (Ids \X Ids \X Branches) /\ links \in SUBSET opened.connections
    BY <1>1, DraftParts
  <2>3. Sound(opened) => Acyclic(links) /\ \A e \in links : {e[1], e[2]} \subseteq NodesIn(opened)
    BY <2>2, FewerAcyclic DEF Sound
  <2>4. new \in FlowDrafts /\ (Sound(opened) => Sound(new))
    <3> HIDE DEF links
    <3> QED BY <1>1, <2>2, <2>3, LinkedIs
  <2> HIDE DEF new
  <2> QED BY <2>1, <2>4, EditKeeps
<1>4. CASE Restyle
  <2> DEFINE new == [opened EXCEPT !.look = 1 - @]
  <2>1. Commit(new) /\ foreign' = foreign
    BY <1>4 DEF Restyle
  <2>2. new \in FlowDrafts /\ (Sound(opened) => Sound(new))
    BY <1>1, RestyledIs
  <2> HIDE DEF new
  <2> QED BY <2>1, <2>2, EditKeeps
<1> QED BY <1>2, <1>3, <1>4

LEMMA NewIsSound == NewDraft \in SoundDrafts
<1>1. "trigger" \in NodeKinds
  BY DEF NodeKinds
<1>2. NewNode("trigger") \in FlowNodes /\ (NewNode("trigger").risky => NewNode("trigger").approval)
  BY <1>1, NewNodeAsks
<1>3. <<NewNode("trigger")>> \in [{1} -> FlowNodes] /\ {1} \in SUBSET Ids
  BY <1>2, EditorAssumption DEF Ids
<1>4. NewDraft \in FlowDrafts /\ NodesIn(NewDraft) = {1}
  BY <1>3, DraftMade DEF NewDraft
<1> QED BY <1>2, <1>4 DEF SoundDrafts, Sound, Acyclic, NewDraft

LEMMA StartIsSound == StartDraft \in SoundDrafts
  BY EditorAssumption, StartAssumption, FilesSound DEF SoundDrafts

LEMMA FilesKeep ==
    ASSUME EditorInv, NEW d \in Imports \cup {NewDraft, StartDraft}, LoadDraft(d)
    PROVE  EditorInv'
<1>1. d \in FlowDrafts
  BY NewIsSound, EditorAssumption DEF SoundDrafts
<1>2. Commit(d) /\ foreign' = (foreign \/ ~DraftErrors(AllOn(d)) \subseteq Tolerated) /\ foreign \in BOOLEAN
  BY DEF LoadDraft, EditorInv
<1>3. d \in Drawn'
  BY <1>1, <1>2, FilesSound DEF Drawn, SoundDrafts
<1>4. Drawn \subseteq Drawn'
  BY <1>2 DEF Drawn, SoundDrafts
<1> QED BY <1>2, <1>3, <1>4, CommitKeeps

LEMMA ReopenKeeps == ASSUME EditorInv, Reopen PROVE EditorInv'
<1>1. /\ opened' = (IF stored # NoDraft /\ ~Refused(stored) THEN stored ELSE StartDraft)
      /\ past' = <<>> /\ future' = <<>> /\ kept' = TRUE /\ stored' = stored /\ foreign' = foreign
  BY DEF Reopen, ReadSaved
<1>2. Drawn' = Drawn /\ StartDraft \in Drawn
  BY <1>1, StartIsSound DEF Drawn, SoundDrafts
<1>3. <<>> \in Seq(Drawn)
  BY EmptySeq
<1> QED BY <1>1, <1>2, <1>3 DEF EditorInv, Blocked

LEMMA EditorKept == ASSUME EditorInv, [EditorNext]_editorVars PROVE EditorInv'
<1>1. CASE UNCHANGED editorVars
  BY <1>1 DEF editorVars, EditorInv, Drawn, Blocked
<1>2. CASE \E id \in 1 .. MaxNodes : DuplicateNode(id) \/ RemoveNode(id) \/ SetParameter(id) \/ \E field \in Fields : UpdateNode(id, field)
  BY <1>2, NodesKeep DEF Ids
<1>3. CASE \E id \in 1 .. MaxNodes, to \in 1 .. MaxNodes, branch \in Branches : TryLink(id, to, branch)
  BY <1>3, LinksKeep DEF Ids
<1>4. CASE Restyle \/ \E c \in opened.connections : Disconnect(c)
  BY <1>4, LinksKeep
<1>5. CASE Undo \/ Redo
  BY <1>5, HistoryKeeps
<1> QED BY <1>1, <1>2, <1>3, <1>4, <1>5, AddKeeps, FilesKeep, ReopenKeeps DEF EditorNext

LEMMA EditorStarts == ASSUME EditorInit PROVE EditorInv
<1>1. /\ opened = StartDraft /\ past = <<>> /\ future = <<>> /\ stored = NoDraft /\ kept = TRUE /\ foreign = FALSE
  BY DEF EditorInit
<1>2. StartDraft \in Drawn
  BY <1>1, StartIsSound DEF Drawn
<1> QED BY <1>1, <1>2, EmptySeq DEF EditorInv

\* Edits, undone and redone, never lead to a draft that the engine refuses for
\* its graph or its approvals, and the device keeps the draft on the screen,
\* without keys, unless it keeps one that it does not read back and nothing has
\* been edited since: for any bounds on nodes and history, whatever texts are
\* refused, and whatever files bring, as long as they bring nothing of the
\* kind (model.ts: connect, normalizeNode, parseDraft; browser.ts: commit,
\* persist, readSaved).
THEOREM EditorHolds == EditorInit /\ [][EditorNext]_editorVars => []DraftsHold
<1>1. ASSUME EditorInv PROVE DraftsHold
  <2>1. ASSUME ~foreign, NEW d \in {opened} \cup ToSet(past) \cup ToSet(future)
        PROVE  DraftErrors(d) \subseteq Tolerated
    <3>1. opened \in SoundDrafts /\ past \in Seq(SoundDrafts) /\ future \in Seq(SoundDrafts)
      BY <1>1, <2>1 DEF EditorInv, Drawn
    <3>2. \A q \in Seq(SoundDrafts) : ToSet(q) \subseteq SoundDrafts
      BY LenProperties, ElementOfSeq DEF ToSet
    <3>3. d \in SoundDrafts
      BY <3>1, <3>2
    <3> QED BY <3>3, SoundTolerated
  <2> QED BY <1>1, <2>1 DEF EditorInv, DraftsHold
<1> QED BY <1>1, EditorStarts, EditorKept, PTL

-----------------------------------------------------------------------------
(* The library: what a selection visits                                      *)

\* The status of every revision is known, and one of an item is current.
OneCurrent(lib) ==
    \A k, other \in DOMAIN lib :
        lib[k].status = "current" /\ lib[other].status = "current" /\ k[1] = other[1] => k = other

LibraryInv ==
    /\ DOMAIN library \subseteq Items \X Nat /\ OneCurrent(library)
    /\ SelectionsResolve

LEMMA UsesThere == ASSUME NEW lib, NEW k PROVE Uses(lib, k) \subseteq DOMAIN lib
<1>1. \A d : ResolvedBy(lib, d) \subseteq DOMAIN lib
  BY DEF ResolvedBy, LatestCurrent, Revisions
<1> QED BY <1>1 DEF Uses

LEMMA VisitedComplete ==
    ASSUME NEW lib, NEW S, S \subseteq DOMAIN lib
    PROVE  /\ Visited(lib, S) \subseteq DOMAIN lib /\ S \subseteq Visited(lib, S)
           /\ Complete(lib, Visited(lib, S))
<1>1. ASSUME NEW k \in Visited(lib, S), NEW u \in Uses(lib, k) PROVE u \in Visited(lib, S)
  <2>1. u \in DOMAIN lib
    BY UsesThere
  <2>2. ASSUME NEW T \in SUBSET DOMAIN lib, S \subseteq T, Complete(lib, T) PROVE u \in T
    <3>1. k \in T
      BY <2>2 DEF Visited
    <3> QED BY <2>2, <3>1 DEF Complete
  <2> QED BY <2>1, <2>2 DEF Visited
<1>2. Visited(lib, S) \subseteq DOMAIN lib /\ S \subseteq Visited(lib, S)
  BY DEF Visited
<1> QED BY <1>1, <1>2 DEF Complete

\* A revision is on no cycle exactly when a complete set keeps it out.
LEMMA OffCycle ==
    ASSUME NEW lib, NEW k \in DOMAIN lib, ~OnCycle(lib, k)
    PROVE  \E T \in SUBSET DOMAIN lib : Uses(lib, k) \subseteq T /\ Complete(lib, T) /\ k \notin T
  BY DEF OnCycle, Visited

LEMMA KeptOffCycle ==
    ASSUME NEW lib, NEW k, NEW T \in SUBSET DOMAIN lib, Uses(lib, k) \subseteq T, Complete(lib, T), k \notin T
    PROVE  ~OnCycle(lib, k)
  BY DEF OnCycle, Visited

LEMMA FewerUses ==
    ASSUME NEW lib, NEW new, DOMAIN new = DOMAIN lib, \A k \in DOMAIN lib : Uses(new, k) \subseteq Uses(lib, k),
           \A k \in DOMAIN lib : ~OnCycle(lib, k)
    PROVE  \A k \in DOMAIN new : ~OnCycle(new, k)
<1> SUFFICES ASSUME NEW k \in DOMAIN lib PROVE ~OnCycle(new, k)
  OBVIOUS
<1>1. PICK T \in SUBSET DOMAIN lib : Uses(lib, k) \subseteq T /\ Complete(lib, T) /\ k \notin T
  BY OffCycle
<1>2. Complete(new, T)
  BY <1>1 DEF Complete
<1>3. Uses(new, k) \subseteq T
  BY <1>1
<1> QED BY <1>1, <1>2, <1>3, KeptOffCycle

\* Only what a new revision visits can be on a new cycle.
LEMMA OneMore ==
    ASSUME NEW lib, NEW new, NEW w, DOMAIN new = DOMAIN lib \cup {w},
           \A k \in DOMAIN lib \ {w} : Uses(new, k) \subseteq Uses(lib, k) \cup {w},
           \A k \in DOMAIN lib : ~OnCycle(lib, k), \A k \in Visited(new, {w}) : ~OnCycle(new, k)
    PROVE  \A k \in DOMAIN new : ~OnCycle(new, k)
<1> DEFINE V == Visited(new, {w})
<1>1. V \subseteq DOMAIN new /\ w \in V /\ Complete(new, V)
  BY VisitedComplete
<1> SUFFICES ASSUME NEW k \in DOMAIN new, k \notin V PROVE ~OnCycle(new, k)
  OBVIOUS
<1>2. k \in DOMAIN lib \ {w}
  BY <1>1
<1>3. PICK T \in SUBSET DOMAIN lib : Uses(lib, k) \subseteq T /\ Complete(lib, T) /\ k \notin T
  BY <1>2, OffCycle
<1> HIDE DEF V
<1>4. Uses(new, k) \subseteq T \cup V
  BY <1>1, <1>2, <1>3
<1>5. Complete(new, T \cup V)
  <2> SUFFICES ASSUME NEW t \in T \cup V PROVE Uses(new, t) \subseteq T \cup V
    BY DEF Complete
  <2>1. CASE t \in V
    BY <1>1, <2>1 DEF Complete
  <2>2. CASE t \in T /\ t # w
    <3>1. Uses(lib, t) \subseteq T /\ t \in DOMAIN lib \ {w}
      BY <1>3, <2>2 DEF Complete
    <3> QED BY <1>1, <3>1
  <2> QED BY <1>1, <2>1, <2>2
<1> QED BY <1>1, <1>3, <1>4, <1>5, KeptOffCycle

-----------------------------------------------------------------------------
(* Posts *)

LEMMA SupersedingIs ==
    ASSUME NEW i \in Items, DOMAIN library \subseteq Items \X Nat, OneCurrent(library)
    PROVE  /\ DOMAIN Superseding(i) = DOMAIN library
           /\ \A k \in DOMAIN library :
                /\ Superseding(i)[k].dependencies = library[k].dependencies
                /\ k[1] # i => Superseding(i)[k] = library[k]
                /\ k[1] = i => Superseding(i)[k].status # "current"
           /\ OneCurrent(Superseding(i))
<1> DEFINE new == Superseding(i)
<1>1. /\ DOMAIN new = DOMAIN library
      /\ \A k \in DOMAIN library : new[k] = IF k \in LatestCurrent(library, i) THEN Revised("historical", library[k].dependencies)
                                            ELSE library[k]
  BY DEF Superseding
<1>2. \A k \in DOMAIN library : new[k].dependencies = library[k].dependencies
  BY <1>1 DEF Revised
<1>3. \A k \in DOMAIN library : k[1] # i => new[k] = library[k]
  BY <1>1 DEF LatestCurrent, Revisions
<1>4. ASSUME NEW k \in DOMAIN library, k[1] = i PROVE new[k].status # "current"
  <2>1. CASE k \in LatestCurrent(library, i)
    BY <1>1, <2>1 DEF Revised
  <2>2. CASE library[k].status = "current"
    <3>1. \A other \in Revisions(library, i) : library[other].status = "current" => other = k
      BY <1>4, <2>2 DEF OneCurrent, Revisions
    <3>2. k[2] <= k[2]
      OBVIOUS
    <3>3. k \in LatestCurrent(library, i)
      BY <1>4, <2>2, <3>1, <3>2 DEF LatestCurrent, Revisions
    <3> QED BY <2>1, <3>3
  <2>3. CASE library[k].status # "current" /\ k \notin LatestCurrent(library, i)
    BY <1>1, <2>3
  <2> QED BY <2>1, <2>2, <2>3
<1>5. OneCurrent(new)
  BY <1>1, <1>3, <1>4 DEF OneCurrent
<1> QED BY <1>1, <1>2, <1>3, <1>4, <1>5

\* The revision that comes next is after every current one of its item.
LEMMA NextIs ==
    ASSUME LibraryInv, NEW i \in Items
    PROVE  /\ NextOf(i) \in Nat
           /\ \A k \in DOMAIN library : k[1] = i /\ library[k].status = "current" => k[2] < NextOf(i)
<1>1. DOMAIN library \subseteq Items \X Nat /\ OneCurrent(library)
  BY DEF LibraryInv
<1>2. CASE LatestCurrent(library, i) = {}
  <2>1. NextOf(i) = 1
    BY <1>2 DEF NextOf
  <2>2. ASSUME NEW k \in DOMAIN library, k[1] = i, library[k].status = "current" PROVE FALSE
    <3>1. \A other \in Revisions(library, i) : library[other].status = "current" => other = k
      BY <1>1, <2>2 DEF OneCurrent, Revisions
    <3>2. k[2] <= k[2]
      BY <1>1, <2>2
    <3> QED BY <1>2, <2>2, <3>1, <3>2 DEF LatestCurrent, Revisions
  <2> QED BY <2>1, <2>2
<1>3. CASE LatestCurrent(library, i) # {}
  <2> DEFINE last == CHOOSE k \in LatestCurrent(library, i) : TRUE
  <2>1. last \in LatestCurrent(library, i) /\ NextOf(i) = last[2] + 1
    BY <1>3 DEF NextOf
  <2> HIDE DEF last
  <2>2. last \in DOMAIN library /\ last[1] = i /\ library[last].status = "current"
    BY <2>1 DEF LatestCurrent, Revisions
  <2>3. last[2] \in Nat
    BY <1>1, <2>2
  <2>4. \A k \in DOMAIN library : k[1] = i /\ library[k].status = "current" => k = last
    BY <1>1, <2>2 DEF OneCurrent
  <2> QED BY <2>1, <2>3, <2>4
<1> QED BY <1>2, <1>3

\* The new revision is the last current one of its item, and the rest stays.
Newer(lib, new, w) ==
    /\ w[2] \in Nat /\ DOMAIN new = DOMAIN lib \cup {w} /\ new[w].status = "current"
    /\ \A k \in DOMAIN lib \ {w} : /\ new[k].dependencies = lib[k].dependencies
                                   /\ k[1] # w[1] => new[k].status = lib[k].status
                                   /\ k[1] = w[1] /\ new[k].status = "current" => k[2] < w[2]
    /\ \A k \in DOMAIN new : k[2] \in Nat

\* The uses of the others grow by it alone, and none of them misses more.
LEMMA NewerUses ==
    ASSUME NEW lib, NEW new, NEW w, Newer(lib, new, w)
    PROVE  /\ \A k \in DOMAIN lib \ {w} : Uses(new, k) \subseteq Uses(lib, k) \cup {w}
           /\ \A k \in DOMAIN lib \ {w} : Missing(new, k) \subseteq Missing(lib, k)
           /\ LatestCurrent(new, w[1]) = {w}
<1> DEFINE i == w[1]
<1> USE DEF Newer
<1>1. LatestCurrent(new, i) = {w}
  <2>1. w \in Revisions(new, i) /\ \A k \in Revisions(new, i) : k # w /\ new[k].status = "current" => k[2] < w[2]
    BY DEF Revisions
  <2>2. \A k \in Revisions(new, i) : k[2] \in Nat
    BY DEF Revisions
  <2>3. ASSUME NEW k \in LatestCurrent(new, i) PROVE k = w
    <3>1. k \in Revisions(new, i) /\ new[k].status = "current" /\ w[2] <= k[2]
      BY <2>1, <2>3 DEF LatestCurrent
    <3> QED BY <2>1, <2>2, <3>1
  <2>4. w \in LatestCurrent(new, i)
    BY <2>1, <2>2 DEF LatestCurrent
  <2> QED BY <2>3, <2>4
<1>2. \A j : j # i => LatestCurrent(new, j) = LatestCurrent(lib, j)
  <2> SUFFICES ASSUME NEW j, j # i PROVE LatestCurrent(new, j) = LatestCurrent(lib, j)
    OBVIOUS
  <2>1. Revisions(new, j) = Revisions(lib, j)
    BY DEF Revisions
  <2>2. \A k \in Revisions(lib, j) : new[k].status = lib[k].status
    BY DEF Revisions
  <2> QED BY <2>1, <2>2 DEF LatestCurrent
<1>3. \A d : ResolvedBy(new, d) \subseteq ResolvedBy(lib, d) \cup {w} /\ (ResolvedBy(new, d) = {} => ResolvedBy(lib, d) = {})
  <2> SUFFICES ASSUME NEW d
               PROVE  ResolvedBy(new, d) \subseteq ResolvedBy(lib, d) \cup {w} /\ (ResolvedBy(new, d) = {} => ResolvedBy(lib, d) = {})
    OBVIOUS
  <2>1. CASE d.revision # Current
    BY <2>1 DEF ResolvedBy
  <2>2. CASE d.revision = Current /\ d.item = i
    BY <1>1, <2>2 DEF ResolvedBy
  <2>3. CASE d.revision = Current /\ d.item # i
    BY <1>2, <2>3 DEF ResolvedBy
  <2> QED BY <2>1, <2>2, <2>3
<1>4. \A k \in DOMAIN lib \ {w} : Uses(new, k) \subseteq Uses(lib, k) \cup {w}
  BY <1>3 DEF Uses
<1>5. \A k \in DOMAIN lib \ {w} : Missing(new, k) \subseteq Missing(lib, k)
  BY <1>3 DEF Missing
<1> QED BY <1>1, <1>4, <1>5

\* Two tables in which each item has one latest current revision and every
\* revision the same dependencies resolve alike.
LEMMA SameResolution ==
    ASSUME NEW lib, NEW new, DOMAIN new = DOMAIN lib,
           \A k \in DOMAIN lib : new[k].dependencies = lib[k].dependencies,
           \A j : LatestCurrent(new, j) = LatestCurrent(lib, j)
    PROVE  /\ \A S : Visited(new, S) = Visited(lib, S)
           /\ \A k \in DOMAIN lib : /\ OnCycle(new, k) <=> OnCycle(lib, k)
                                    /\ Missing(new, k) = Missing(lib, k)
<1>1. \A d : ResolvedBy(new, d) = ResolvedBy(lib, d)
  BY DEF ResolvedBy
<1>2. \A k \in DOMAIN lib : Uses(new, k) = Uses(lib, k)
  BY <1>1 DEF Uses
<1>3. \A T \in SUBSET DOMAIN lib : Complete(new, T) <=> Complete(lib, T)
  BY <1>2 DEF Complete
<1>4. \A S : Visited(new, S) = Visited(lib, S)
  BY <1>3 DEF Visited
<1>5. \A k \in DOMAIN lib : OnCycle(new, k) <=> OnCycle(lib, k)
  BY <1>2, <1>4 DEF OnCycle
<1>6. \A k \in DOMAIN lib : Missing(new, k) = Missing(lib, k)
  BY <1>1 DEF Missing
<1> QED BY <1>4, <1>5, <1>6

LEMMA PostItemKeeps ==
    ASSUME LibraryInv, NEW i \in Items, NEW dependencies, PostItem(i, dependencies)
    PROVE  LibraryInv'
<1> DEFINE w == <<i, NextOf(i)>>
           row == Revised("current", dependencies)
           shown == WithItem(i, dependencies)
<1>1. /\ library' = Stored(Superseding(i), w, row) /\ tornItems' = tornItems /\ Selectable(shown, w)
      /\ shown = Stored(library, w, row)
  BY DEF PostItem, Accepted, WithItem
<1>2. /\ DOMAIN library \subseteq Items \X Nat /\ OneCurrent(library)
      /\ \A k \in DOMAIN library : ~OnCycle(library, k)
      /\ \A k \in DOMAIN library : \A d \in Missing(library, k) : d.revision = Current /\ d.item \in tornItems
  BY DEF LibraryInv, SelectionsResolve
<1>3. w \in Items \X Nat /\ w[1] = i /\ w[2] = NextOf(i) /\ w[2] \in Nat
  BY NextIs
<1>4. row.status = "current" /\ row.dependencies = dependencies
  BY DEF Revised
<1> HIDE DEF w, row, shown
<1>5. /\ DOMAIN shown = DOMAIN library \cup {w} /\ shown[w] = row
      /\ \A k \in DOMAIN library \ {w} : shown[k] = library[k]
  BY <1>1 DEF Stored
<1>6. /\ DOMAIN library' = DOMAIN library \cup {w} /\ library'[w] = row
      /\ \A k \in DOMAIN library \ {w} :
           /\ library'[k].dependencies = library[k].dependencies
           /\ k[1] # i => library'[k] = library[k]
           /\ k[1] = i => library'[k].status # "current"
  <2>1. /\ DOMAIN Superseding(i) = DOMAIN library
        /\ \A k \in DOMAIN library : /\ Superseding(i)[k].dependencies = library[k].dependencies
                                     /\ k[1] # i => Superseding(i)[k] = library[k]
                                     /\ k[1] = i => Superseding(i)[k].status # "current"
    BY <1>2, SupersedingIs
  <2>2. /\ DOMAIN library' = DOMAIN Superseding(i) \cup {w} /\ library'[w] = row
        /\ \A k \in DOMAIN Superseding(i) \ {w} : library'[k] = Superseding(i)[k]
    BY <1>1 DEF Stored
  <2>3. DOMAIN library' = DOMAIN library \cup {w}
    BY <2>1, <2>2
  <2>4. \A k \in DOMAIN library \ {w} : library'[k] = Superseding(i)[k]
    BY <2>1, <2>2
  <2>5. \A k \in DOMAIN library \ {w} :
           /\ library'[k].dependencies = library[k].dependencies
           /\ k[1] # i => library'[k] = library[k]
           /\ k[1] = i => library'[k].status # "current"
    <3> TAKE k \in DOMAIN library \ {w}
    <3>1. library'[k] = Superseding(i)[k]
      BY <2>4
    <3> QED BY <2>1, <3>1
  <2> QED BY <2>2, <2>3, <2>5
<1>7. \A k \in DOMAIN library \cup {w} : k[2] \in Nat
  BY <1>2, <1>3
<1>8. /\ \A k \in DOMAIN library \ {w} : Uses(library', k) \subseteq Uses(library, k) \cup {w}
      /\ \A k \in DOMAIN library \ {w} : Missing(library', k) \subseteq Missing(library, k)
      /\ LatestCurrent(library', i) = {w}
  <2>1. library'[w].status = "current" /\ \A k \in DOMAIN library' : k[2] \in Nat
    BY <1>4, <1>6, <1>7
  <2>2. \A k \in DOMAIN library \ {w} : /\ library'[k].dependencies = library[k].dependencies
                                        /\ k[1] # i => library'[k].status = library[k].status
                                        /\ k[1] = i /\ library'[k].status = "current" => k[2] < w[2]
    BY <1>6
  <2>3. Newer(library, library', w)
    BY <1>3, <1>6, <2>1, <2>2 DEF Newer
  <2> QED BY <1>3, <2>3, NewerUses
<1>9. LatestCurrent(shown, i) = {w}
  <2>1. \A k \in DOMAIN library \ {w} : k[1] = i /\ shown[k].status = "current" => k[2] < w[2]
    BY <1>3, <1>5, NextIs
  <2>2. shown[w].status = "current" /\ \A k \in DOMAIN shown : k[2] \in Nat
    BY <1>4, <1>5, <1>7
  <2>3. \A k \in DOMAIN library \ {w} : /\ shown[k].dependencies = library[k].dependencies
                                        /\ k[1] # i => shown[k].status = library[k].status
                                        /\ k[1] = i /\ shown[k].status = "current" => k[2] < w[2]
    BY <1>5, <2>1
  <2>4. Newer(library, shown, w)
    BY <1>3, <1>5, <2>2, <2>3 DEF Newer
  <2> QED BY <1>3, <2>4, NewerUses
<1>10. \A j : LatestCurrent(library', j) = LatestCurrent(shown, j)
  <2> SUFFICES ASSUME NEW j, j # i PROVE LatestCurrent(library', j) = LatestCurrent(shown, j)
    BY <1>8, <1>9
  <2>1. Revisions(library', j) = Revisions(shown, j) /\ w \notin Revisions(shown, j)
    BY <1>3, <1>5, <1>6 DEF Revisions
  <2>2. \A k \in Revisions(shown, j) : library'[k] = shown[k]
    BY <1>5, <1>6, <2>1 DEF Revisions
  <2> QED BY <2>1, <2>2 DEF LatestCurrent
<1>11. DOMAIN library' = DOMAIN shown /\ \A k \in DOMAIN shown : library'[k].dependencies = shown[k].dependencies
  BY <1>5, <1>6
<1>12. /\ \A S : Visited(library', S) = Visited(shown, S)
       /\ \A k \in DOMAIN shown : (OnCycle(library', k) <=> OnCycle(shown, k)) /\ Missing(library', k) = Missing(shown, k)
  BY <1>10, <1>11, SameResolution
<1>13. /\ \A k \in Visited(library', {w}) : ~OnCycle(library', k) /\ Missing(library', k) = {}
       /\ w \in Visited(library', {w})
  <2>1. Visited(shown, {w}) \subseteq DOMAIN shown /\ w \in Visited(shown, {w})
    BY <1>5, VisitedComplete
  <2> QED BY <1>1, <1>12, <2>1 DEF Selectable
<1>14. \A k \in DOMAIN library' : ~OnCycle(library', k)
  BY <1>2, <1>6, <1>8, <1>13, OneMore
<1>15. OneCurrent(library')
  <2>1. \A k \in DOMAIN library' : library'[k].status = "current" /\ k[1] = i => k = w
    BY <1>6
  <2>2. \A k \in DOMAIN library' : k[1] # i => k \in DOMAIN library /\ library'[k] = library[k]
    BY <1>3, <1>6
  <2> QED BY <1>2, <2>1, <2>2 DEF OneCurrent
<1>16. \A k \in DOMAIN library' : \A d \in Missing(library', k) : d.revision = Current /\ d.item \in tornItems'
  BY <1>1, <1>2, <1>6, <1>8, <1>13
<1>17. DOMAIN library' \subseteq Items \X Nat
  BY <1>2, <1>3, <1>6
<1>18. SelectionsResolve'
  BY <1>14, <1>16 DEF SelectionsResolve, OnCycle, Missing, Visited, Uses, Complete, ResolvedBy, LatestCurrent, Revisions
<1>19. OneCurrent(library)'
  BY <1>15 DEF OneCurrent
<1> QED BY <1>15, <1>17, <1>18 DEF LibraryInv, OneCurrent

\* A death leaves the item without a current revision.
LEMMA TornKeeps ==
    ASSUME LibraryInv, NEW i \in Items, NEW dependencies, PostTorn(i, dependencies)
    PROVE  LibraryInv'
<1>1. library' = Superseding(i) /\ tornItems' = tornItems \cup {i}
  BY DEF PostTorn
<1>2. /\ DOMAIN library \subseteq Items \X Nat /\ OneCurrent(library)
      /\ \A k \in DOMAIN library : ~OnCycle(library, k)
      /\ \A k \in DOMAIN library : \A d \in Missing(library, k) : d.revision = Current /\ d.item \in tornItems
  BY DEF LibraryInv, SelectionsResolve
<1>3. /\ DOMAIN library' = DOMAIN library
      /\ \A k \in DOMAIN library :
           /\ library'[k].dependencies = library[k].dependencies
           /\ k[1] # i => library'[k] = library[k]
           /\ k[1] = i => library'[k].status # "current"
      /\ OneCurrent(library')
  BY <1>1, <1>2, SupersedingIs
<1>4. \A j : j # i => LatestCurrent(library', j) = LatestCurrent(library, j)
  BY <1>3 DEF LatestCurrent, Revisions
<1>5. LatestCurrent(library', i) = {}
  BY <1>3 DEF LatestCurrent, Revisions
<1>6. \A d : /\ ResolvedBy(library', d) \subseteq ResolvedBy(library, d)
             /\ ResolvedBy(library', d) = {} => ResolvedBy(library, d) = {} \/ (d.revision = Current /\ d.item = i)
  <2> SUFFICES ASSUME NEW d
        PROVE  /\ ResolvedBy(library', d) \subseteq ResolvedBy(library, d)
               /\ ResolvedBy(library', d) = {} => ResolvedBy(library, d) = {} \/ (d.revision = Current /\ d.item = i)
    OBVIOUS
  <2>1. CASE d.revision # Current
    BY <1>3, <2>1 DEF ResolvedBy
  <2>2. CASE d.revision = Current /\ d.item = i
    BY <1>5, <2>2 DEF ResolvedBy
  <2>3. CASE d.revision = Current /\ d.item # i
    BY <1>4, <2>3 DEF ResolvedBy
  <2> QED BY <2>1, <2>2, <2>3
<1>7. \A k \in DOMAIN library : Uses(library', k) \subseteq Uses(library, k)
  BY <1>3, <1>6 DEF Uses
<1>8. \A k \in DOMAIN library' : ~OnCycle(library', k)
  BY <1>2, <1>3, <1>7, FewerUses
<1>9. \A k \in DOMAIN library' : \A d \in Missing(library', k) : d.revision = Current /\ d.item \in tornItems'
  <2> SUFFICES ASSUME NEW k \in DOMAIN library, NEW d \in Missing(library', k)
               PROVE  d.revision = Current /\ d.item \in tornItems \cup {i}
    BY <1>1, <1>3
  <2>1. d \in library[k].dependencies /\ ~d.optional /\ ResolvedBy(library', d) = {}
    BY <1>3 DEF Missing
  <2>2. d \in Missing(library, k) \/ (d.revision = Current /\ d.item = i)
    BY <1>6, <2>1 DEF Missing
  <2> QED BY <1>2, <2>2
<1>10. SelectionsResolve'
  BY <1>8, <1>9 DEF SelectionsResolve, OnCycle, Missing, Visited, Uses, Complete, ResolvedBy, LatestCurrent, Revisions
<1>11. OneCurrent(library)'
  BY <1>3 DEF OneCurrent
<1> QED BY <1>2, <1>3, <1>10, <1>11 DEF LibraryInv

\* Every revision that was accepted can be selected ever after, but for an item
\* that a death left without a current revision: for any items, dependencies
\* and deaths (resolveReusableSelection, POST /api/library/items).
THEOREM LibraryHolds == LibraryInit /\ [][LibraryNext]_libraryVars => []SelectionsResolve
<1>1. ASSUME LibraryInit PROVE LibraryInv
  <2>1. DOMAIN library = {}
    BY <1>1 DEF LibraryInit
  <2> QED BY <2>1 DEF LibraryInv, OneCurrent, SelectionsResolve
<1>2. ASSUME LibraryInv, [LibraryNext]_libraryVars PROVE LibraryInv'
  <2>1. CASE UNCHANGED libraryVars
    BY <1>2, <2>1 DEF libraryVars, LibraryInv, OneCurrent, SelectionsResolve, OnCycle, Missing, Visited, Uses, Complete,
                      ResolvedBy, LatestCurrent, Revisions
  <2> QED BY <1>2, <2>1, PostItemKeeps, TornKeeps DEF LibraryNext
<1>3. LibraryInv => SelectionsResolve
  BY DEF LibraryInv
<1> QED BY <1>1, <1>2, <1>3, PTL

-----------------------------------------------------------------------------
(* The operations of a product: what was acknowledged, and what is shown     *)

Entered(A) == {e \in A : e.about = "entry"}
Worth(value) == IF value.kind = "income" THEN value.amount ELSE -value.amount

\* The sums of the snapshot, of any ledger and of any acknowledged posts
EntriesOf(L, p, c, kind) == {id \in DOMAIN L : L[id].product = p /\ L[id].currency = c /\ L[id].kind = kind}
AmountsOf(L) == [id \in DOMAIN L |-> L[id].amount]
TotalOf(L, p, c, kind) == SumFunctionOnSet(AmountsOf(L), EntriesOf(L, p, c, kind))
NetOf(L, p, c) ==
    TotalOf(L, p, c, "income") - TotalOf(L, p, c, "expense") - TotalOf(L, p, c, "refund") - TotalOf(L, p, c, "fee")
    - TotalOf(L, p, c, "tax")
Booked(A, p, c) == {e \in A : e.about = "entry" /\ e.value.product = p /\ e.value.currency = c}
WorthOf(S) == [e \in S |-> IF e.value.kind = "income" THEN e.value.amount ELSE -e.value.amount]

\* Entries have an amount and one of the kinds; each is acknowledged under its id.
LedgerSound(L, A) ==
    /\ IsFiniteSet(DOMAIN L) /\ IsFiniteSet(A)
    /\ \A id \in DOMAIN L : L[id].amount \in Int /\ L[id].kind \in Kinds
    /\ \A e \in Entered(A) : (\E id \in DOMAIN L : e.key = <<id>>) /\ e.value.amount \in Int

Balanced(L, A) == \A p, c : NetOf(L, p, c) = SumFunction(WorthOf(Booked(A, p, c)))

HealthSound ==
    /\ \A k \in DOMAIN health : /\ k[2] \in Nat
                                /\ [about |-> "health", key |-> k, value |-> health[k]] \in acknowledged
    /\ \A e \in acknowledged : e.about = "health" => e.key \in DOMAIN health
    /\ \E n \in Nat : \A k \in DOMAIN health : k[2] <= n

BusinessInv == LedgerSound(ledger, acknowledged) /\ Balanced(ledger, acknowledged) /\ HealthSound

LEMMA NetIs == ASSUME NEW p, NEW c PROVE Net(p, c) = NetOf(ledger, p, c)
  BY DEF Net, Total, NetOf, TotalOf, EntriesOf, AmountsOf

\* One more entry adds its amount to the total it belongs to.
LEMMA TotalGrows ==
    ASSUME NEW L, IsFiniteSet(DOMAIN L), \A i \in DOMAIN L : L[i].amount \in Int,
           NEW id, id \notin DOMAIN L, NEW entry, entry.amount \in Int,
           NEW p, NEW c, NEW kind
    PROVE  /\ TotalOf(Stored(L, id, entry), p, c, kind) =
                TotalOf(L, p, c, kind) + (IF entry.product = p /\ entry.currency = c /\ entry.kind = kind
                                          THEN entry.amount ELSE 0)
           /\ TotalOf(L, p, c, kind) \in Int
<1>1. PICK M : M = Stored(L, id, entry)
  OBVIOUS
<1>2. /\ DOMAIN M = DOMAIN L \cup {id} /\ M[id] = entry
      /\ \A i \in DOMAIN L : M[i] = L[i]
  BY <1>1 DEF Stored
<1>3. PICK S : S = EntriesOf(L, p, c, kind)
  OBVIOUS
<1>4. IsFiniteSet(S) /\ S \subseteq DOMAIN L /\ id \notin S
  BY <1>3, FS_Subset DEF EntriesOf
<1>5. PICK v, w : v = AmountsOf(L) /\ w = AmountsOf(M)
  OBVIOUS
<1>6. /\ \A i \in S : w[i] = v[i] /\ v[i] \in Int
      /\ w[id] = entry.amount
  BY <1>2, <1>4, <1>5 DEF AmountsOf
<1>7. SumFunctionOnSet(v, S) \in Int /\ SumFunctionOnSet(w, S) = SumFunctionOnSet(v, S)
  BY <1>4, <1>6, SumInt, SumSame
<1>8. CASE entry.product = p /\ entry.currency = c /\ entry.kind = kind
  <2>1. EntriesOf(M, p, c, kind) = S \cup {id}
    BY <1>2, <1>3, <1>8 DEF EntriesOf
  <2>2. SumFunctionOnSet(w, S \cup {id}) = entry.amount + SumFunctionOnSet(v, S)
    BY <1>4, <1>6, SumGrows
  <2> QED BY <1>1, <1>3, <1>5, <1>7, <1>8, <2>1, <2>2 DEF TotalOf
<1>9. CASE ~(entry.product = p /\ entry.currency = c /\ entry.kind = kind)
  <2>1. EntriesOf(M, p, c, kind) = S
    BY <1>2, <1>3, <1>9 DEF EntriesOf
  <2> QED BY <1>1, <1>3, <1>5, <1>7, <1>9, <2>1 DEF TotalOf
<1> QED BY <1>8, <1>9

\* And its worth to the balance of its product and its currency.
LEMMA NetGrows ==
    ASSUME NEW L, IsFiniteSet(DOMAIN L), \A i \in DOMAIN L : L[i].amount \in Int,
           NEW id, id \notin DOMAIN L, NEW entry, entry.amount \in Int, entry.kind \in Kinds,
           NEW p, NEW c
    PROVE  NetOf(Stored(L, id, entry), p, c) =
             NetOf(L, p, c) + (IF entry.product = p /\ entry.currency = c THEN Worth(entry) ELSE 0)
<1> DEFINE M == Stored(L, id, entry)
           Adds1(kind) == IF entry.product = p /\ entry.currency = c /\ entry.kind = kind THEN entry.amount ELSE 0
<1>1. \A kind \in Kinds : TotalOf(M, p, c, kind) = TotalOf(L, p, c, kind) + Adds1(kind) /\ TotalOf(L, p, c, kind) \in Int
  BY TotalGrows
<1> HIDE DEF M
<1>2. CASE ~(entry.product = p /\ entry.currency = c)
  <2>1. \A kind \in Kinds : TotalOf(M, p, c, kind) = TotalOf(L, p, c, kind) /\ TotalOf(L, p, c, kind) \in Int
    BY <1>1, <1>2
  <2>2. NetOf(M, p, c) = NetOf(L, p, c) /\ NetOf(L, p, c) \in Int
    BY <2>1 DEF NetOf, Kinds
  <2> QED BY <1>2, <2>2 DEF M
<1>3. CASE entry.product = p /\ entry.currency = c
  <2>1. \A kind \in Kinds : /\ TotalOf(M, p, c, kind) = TotalOf(L, p, c, kind) + (IF entry.kind = kind THEN entry.amount ELSE 0)
                            /\ TotalOf(L, p, c, kind) \in Int
    BY <1>1, <1>3
  <2> HIDE DEF Adds1
  <2>2. NetOf(M, p, c) = NetOf(L, p, c) + Worth(entry)
    BY <2>1 DEF NetOf, Kinds, Worth
  <2> QED BY <1>3, <2>2 DEF M
<1> QED BY <1>2, <1>3

LEMMA WorthGrows ==
    ASSUME NEW A, IsFiniteSet(A), \A e \in Entered(A) : e.value.amount \in Int,
           NEW e, e \notin A, e.about = "entry", e.value.amount \in Int,
           NEW p, NEW c
    PROVE  SumFunction(WorthOf(Booked(A \cup {e}, p, c))) =
             SumFunction(WorthOf(Booked(A, p, c)))
             + (IF e.value.product = p /\ e.value.currency = c THEN Worth(e.value) ELSE 0)
<1>1. PICK S : S = Booked(A, p, c)
  OBVIOUS
<1>2. IsFiniteSet(S) /\ e \notin S /\ \A b \in S : b.value.amount \in Int
  BY <1>1, FS_Subset DEF Booked, Entered
<1>3. PICK v : v = WorthOf(S)
  OBVIOUS
<1>4. DOMAIN v = S /\ \A b \in S : v[b] = Worth(b.value) /\ v[b] \in Int
  BY <1>2, <1>3 DEF WorthOf, Worth
<1>5. SumFunctionOnSet(v, S) \in Int
  BY <1>2, <1>4, SumInt
<1>6. CASE e.value.product = p /\ e.value.currency = c
  <2>1. Booked(A \cup {e}, p, c) = S \cup {e}
    BY <1>1, <1>6 DEF Booked
  <2>2. PICK w : w = WorthOf(S \cup {e})
    OBVIOUS
  <2>3. DOMAIN w = S \cup {e} /\ w[e] = Worth(e.value) /\ w[e] \in Int /\ \A b \in S : w[b] = v[b]
    BY <1>4, <2>2 DEF WorthOf, Worth
  <2>4. SumFunctionOnSet(w, S \cup {e}) = w[e] + SumFunctionOnSet(v, S)
    BY <1>2, <1>4, <2>3, SumGrows
  <2>5. SumFunction(w) = SumFunction(v) + Worth(e.value)
    <3>1. SumFunction(w) = SumFunctionOnSet(w, S \cup {e}) /\ SumFunction(v) = SumFunctionOnSet(v, S)
      BY <1>4, <2>3 DEF SumFunction
    <3>2. w[e] \in Int /\ w[e] = Worth(e.value)
      BY <2>3
    <3> QED BY <1>5, <2>4, <3>1, <3>2
  <2> QED BY <1>1, <1>3, <1>6, <2>1, <2>2, <2>5
<1>7. CASE ~(e.value.product = p /\ e.value.currency = c)
  <2>1. Booked(A \cup {e}, p, c) = S
    BY <1>1, <1>7 DEF Booked
  <2> QED BY <1>1, <1>3, <1>4, <1>5, <1>7, <2>1 DEF SumFunction
<1> QED BY <1>6, <1>7

\* What is acknowledged of health is not of the ledger.
LEMMA HealthAside ==
    ASSUME NEW A, NEW e, e.about # "entry"
    PROVE  Entered(A \cup {e}) = Entered(A) /\ \A p, c : Booked(A \cup {e}, p, c) = Booked(A, p, c)
  BY DEF Entered, Booked

LEMMA EntryKeeps ==
    ASSUME BusinessInv, NEW id, NEW p \in Products, NEW k \in Kinds, NEW c \in Currencies, NEW a \in Amounts,
           AppendEntry(id, LedgerEntry(p, k, c, a))
    PROVE  BusinessInv'
<1>1. PICK entry : entry = LedgerEntry(p, k, c, a)
  OBVIOUS
<1>2. entry.amount \in Int /\ entry.kind \in Kinds
  BY <1>1, BusinessAssumption DEF LedgerEntry
<1>3. PICK e : e = [about |-> "entry", key |-> <<id>>, value |-> entry]
  OBVIOUS
<1>4. e.about = "entry" /\ e.key = <<id>> /\ e.value = entry
  BY <1>3
<1>5. /\ id \notin DOMAIN ledger /\ ledger' = Stored(ledger, id, entry) /\ acknowledged' = acknowledged \cup {e}
      /\ health' = health
  BY <1>1, <1>3 DEF AppendEntry, NewEntryId
<1>6. LedgerSound(ledger, acknowledged) /\ Balanced(ledger, acknowledged) /\ HealthSound
  BY DEF BusinessInv
<1>7. e \notin acknowledged
  <2>1. ASSUME e \in acknowledged PROVE FALSE
    <3>1. PICK i \in DOMAIN ledger : e.key = <<i>>
      BY <1>4, <1>6, <2>1 DEF LedgerSound, Entered
    <3>2. i = id
      BY <1>4, <3>1
    <3> QED BY <1>5, <3>1, <3>2
  <2> QED BY <2>1
<1>8. LedgerSound(ledger', acknowledged')
  <2>1. DOMAIN ledger' = DOMAIN ledger \cup {id} /\ ledger'[id] = entry /\ \A i \in DOMAIN ledger : ledger'[i] = ledger[i]
    BY <1>5 DEF Stored
  <2>2. IsFiniteSet(DOMAIN ledger') /\ IsFiniteSet(acknowledged')
    BY <1>5, <1>6, <2>1, FS_AddElement DEF LedgerSound
  <2>3. \A i \in DOMAIN ledger' : ledger'[i].amount \in Int /\ ledger'[i].kind \in Kinds
    BY <1>2, <1>6, <2>1 DEF LedgerSound
  <2>4. Entered(acknowledged') = Entered(acknowledged) \cup {e}
    BY <1>4, <1>5 DEF Entered
  <2>5. \A b \in Entered(acknowledged') : (\E i \in DOMAIN ledger' : b.key = <<i>>) /\ b.value.amount \in Int
    BY <1>2, <1>4, <1>6, <2>1, <2>4 DEF LedgerSound
  <2> QED BY <2>2, <2>3, <2>5 DEF LedgerSound
<1>9. Balanced(ledger', acknowledged')
  <2> SUFFICES ASSUME NEW q, NEW d PROVE NetOf(ledger', q, d) = SumFunction(WorthOf(Booked(acknowledged', q, d)))
    BY DEF Balanced
  <2>1. NetOf(ledger', q, d) = NetOf(ledger, q, d) + (IF entry.product = q /\ entry.currency = d THEN Worth(entry) ELSE 0)
    BY <1>2, <1>5, <1>6, NetGrows DEF LedgerSound
  <2>2. SumFunction(WorthOf(Booked(acknowledged', q, d))) = SumFunction(WorthOf(Booked(acknowledged, q, d)))
          + (IF entry.product = q /\ entry.currency = d THEN Worth(entry) ELSE 0)
    BY <1>2, <1>4, <1>5, <1>6, <1>7, WorthGrows DEF LedgerSound
  <2>3. NetOf(ledger, q, d) = SumFunction(WorthOf(Booked(acknowledged, q, d)))
    BY <1>6 DEF Balanced
  <2> QED BY <2>1, <2>2, <2>3
<1>10. HealthSound'
  BY <1>4, <1>5, <1>6 DEF HealthSound
<1> QED BY <1>8, <1>9, <1>10 DEF BusinessInv

LEMMA ReadingKeeps ==
    ASSUME BusinessInv, NEW p \in Products, NEW at \in Times, NEW source \in Sources, NEW state,
           AppendHealth(p, at, source, state)
    PROVE  BusinessInv'
<1>1. PICK k : k = <<p, at, source>>
  OBVIOUS
<1>2. PICK e : e = [about |-> "health", key |-> k, value |-> state]
  OBVIOUS
<1>3. e.about = "health" /\ e.key = k /\ e.value = state /\ k[2] = at /\ at \in Nat
  BY <1>1, <1>2, BusinessAssumption
<1>4. health' = Stored(health, k, state) /\ acknowledged' = acknowledged \cup {e} /\ ledger' = ledger
  BY <1>1, <1>2 DEF AppendHealth
<1>5. LedgerSound(ledger, acknowledged) /\ Balanced(ledger, acknowledged) /\ HealthSound
  BY DEF BusinessInv
<1>6. Entered(acknowledged') = Entered(acknowledged) /\ \A q, d : Booked(acknowledged', q, d) = Booked(acknowledged, q, d)
  BY <1>3, <1>4, HealthAside
<1>7. IsFiniteSet(acknowledged')
  BY <1>4, <1>5, FS_AddElement DEF LedgerSound
<1>8. LedgerSound(ledger', acknowledged') /\ Balanced(ledger', acknowledged')
  BY <1>4, <1>5, <1>6, <1>7 DEF LedgerSound, Balanced
<1>9. DOMAIN health' = DOMAIN health \cup {k} /\ health'[k] = state /\ \A h \in DOMAIN health : h # k => health'[h] = health[h]
  BY <1>4 DEF Stored
<1>10. HealthSound'
  <2>1. \A h \in DOMAIN health' : h[2] \in Nat /\ [about |-> "health", key |-> h, value |-> health'[h]] \in acknowledged'
    <3> SUFFICES ASSUME NEW h \in DOMAIN health'
                 PROVE  h[2] \in Nat /\ [about |-> "health", key |-> h, value |-> health'[h]] \in acknowledged'
      OBVIOUS
    <3>1. CASE h = k
      BY <1>2, <1>3, <1>4, <1>9, <3>1
    <3>2. CASE h # k
      BY <1>4, <1>5, <1>9, <3>2 DEF HealthSound
    <3> QED BY <3>1, <3>2
  <2>2. \A b \in acknowledged' : b.about = "health" => b.key \in DOMAIN health'
    BY <1>3, <1>4, <1>5, <1>9 DEF HealthSound
  <2>3. \E n \in Nat : \A h \in DOMAIN health' : h[2] <= n
    <3>1. PICK n \in Nat : \A h \in DOMAIN health : h[2] <= n
      BY <1>5 DEF HealthSound
    <3>2. \A h \in DOMAIN health : h[2] \in Nat
      BY <1>5 DEF HealthSound
    <3>3. \A h \in DOMAIN health' : h[2] <= n + at
      BY <1>3, <1>9, <3>1, <3>2
    <3>4. n + at \in Nat
      BY <1>3
    <3> QED BY <3>3, <3>4
  <2> QED BY <2>1, <2>2, <2>3 DEF HealthSound
<1> QED BY <1>8, <1>10 DEF BusinessInv

LEMMA BusinessKept == ASSUME BusinessInv, [BusinessNext]_businessVars PROVE BusinessInv'
<1>1. ASSUME UNCHANGED <<ledger, health, acknowledged>> PROVE BusinessInv'
  BY <1>1 DEF BusinessInv, HealthSound
<1>2. CASE UNCHANGED businessVars
  BY <1>1, <1>2 DEF businessVars
<1>3. ASSUME NEW p, SaveProduct(p) PROVE BusinessInv'
  BY <1>1, <1>3 DEF SaveProduct
<1>4. ASSUME NEW id, NEW account, NEW p, NEW at, SaveChannel(id, account, p, at) PROVE BusinessInv'
  BY <1>1, <1>4 DEF SaveChannel
<1>5. ASSUME NEW account, SaveRequirement(account) PROVE BusinessInv'
  BY <1>1, <1>5 DEF SaveRequirement
<1> QED BY <1>2, <1>3, <1>4, <1>5, EntryKeeps, ReadingKeeps DEF BusinessNext

LEMMA BusinessStarts == ASSUME BusinessInit PROVE BusinessInv
<1>1. DOMAIN ledger = {} /\ DOMAIN health = {} /\ acknowledged = {}
  BY DEF BusinessInit
<1>2. LedgerSound(ledger, acknowledged)
  BY <1>1, FS_EmptySet DEF LedgerSound, Entered
<1>3. \A v : SumFunctionOnSet(v, {}) = 0
  BY FS_EmptySet, SumStep
<1>4. ASSUME NEW p, NEW c PROVE NetOf(ledger, p, c) = SumFunction(WorthOf(Booked(acknowledged, p, c)))
  <2>1. \A kind : EntriesOf(ledger, p, c, kind) = {}
    BY <1>1 DEF EntriesOf
  <2>6. \A kind : TotalOf(ledger, p, c, kind) = 0
    BY <1>3, <2>1 DEF TotalOf
  <2>2. NetOf(ledger, p, c) = 0
    BY <2>6 DEF NetOf
  <2>3. Booked(acknowledged, p, c) = {}
    BY <1>1 DEF Booked
  <2>4. DOMAIN WorthOf({}) = {}
    BY DEF WorthOf
  <2>5. SumFunction(WorthOf({})) = 0
    BY <1>3, <2>4 DEF SumFunction
  <2> QED BY <2>2, <2>3, <2>5
<1>5. HealthSound
  BY <1>1 DEF HealthSound
<1> QED BY <1>2, <1>4, <1>5 DEF BusinessInv, Balanced

\* The health that is shown: none, or the readings of the latest time
LEMMA ShownIs ==
    ASSUME BusinessInv, NEW p, NEW told, told = {e \in acknowledged : e.about = "health" /\ e.key[1] = p}
    PROVE  /\ (told = {}) = (ShownHealth(p) = {})
           /\ \A k \in ShownHealth(p) :
                /\ [about |-> "health", key |-> k, value |-> health[k]] \in told
                /\ \A e \in told : e.key[2] <= k[2]
<1> DEFINE own == {k \in DOMAIN health : k[1] = p}
<1>1. HealthSound
  BY DEF BusinessInv
<1>2. \A e \in told : e.key \in own
  BY <1>1 DEF HealthSound
<1>3. \A k \in own : [about |-> "health", key |-> k, value |-> health[k]] \in told
  <2> SUFFICES ASSUME NEW k \in own PROVE [about |-> "health", key |-> k, value |-> health[k]] \in told
    OBVIOUS
  <2>1. PICK e : e = [about |-> "health", key |-> k, value |-> health[k]]
    OBVIOUS
  <2>2. e.about = "health" /\ e.key = k /\ e \in acknowledged
    BY <1>1, <2>1 DEF HealthSound
  <2> QED BY <2>1, <2>2
<1>4. own # {} => \E k \in own : \A other \in own : other[2] <= k[2]
  <2> DEFINE T == {k[2] : k \in own}
  <2> SUFFICES ASSUME own # {} PROVE \E k \in own : \A other \in own : other[2] <= k[2]
    OBVIOUS
  <2>1. T \subseteq Nat /\ T # {}
    BY <1>1 DEF HealthSound
  <2>2. PICK n \in Nat : \A t \in T : t <= n
    BY <1>1 DEF HealthSound
  <2>3. \E x \in T : \A y \in T : y <= x
    <3> HIDE DEF T
    <3> QED BY <2>1, <2>2, LastExists
  <2> QED BY <2>3
<1>5. ShownHealth(p) = {k \in own : \A other \in own : other[2] <= k[2]}
  BY DEF ShownHealth
<1> HIDE DEF own
<1>6. (told = {}) <=> (ShownHealth(p) = {})
  BY <1>2, <1>3, <1>4, <1>5
<1> QED BY <1>2, <1>3, <1>5, <1>6

\* What a product's snapshot says follows from what was acknowledged, whatever
\* the number and the order of posts: for any products, entries and readings
\* (buildProductOperationsSnapshot).
THEOREM BusinessHolds == BusinessInit /\ [][BusinessNext]_businessVars => []SnapshotTellsAcknowledged
<1>1. ASSUME BusinessInv PROVE SnapshotTellsAcknowledged
  <2> SUFFICES ASSUME NEW p \in products
               PROVE  /\ \A c \in Currencies :
                           LET booked == {e \in acknowledged : e.about = "entry" /\ e.value.product = p /\ e.value.currency = c}
                           IN  Net(p, c) = SumFunction([e \in booked |-> IF e.value.kind = "income" THEN e.value.amount ELSE -e.value.amount])
                      /\ LET told == {e \in acknowledged : e.about = "health" /\ e.key[1] = p}
                         IN  /\ (told = {}) = (ShownHealth(p) = {})
                             /\ \A k \in ShownHealth(p) :
                                  /\ [about |-> "health", key |-> k, value |-> health[k]] \in told
                                  /\ \A e \in told : e.key[2] <= k[2]
    BY DEF SnapshotTellsAcknowledged
  <2>1. \A c : Net(p, c) = SumFunction(WorthOf(Booked(acknowledged, p, c)))
    BY <1>1, NetIs DEF BusinessInv, Balanced
  <2>2. \A told : told = {e \in acknowledged : e.about = "health" /\ e.key[1] = p} =>
          /\ (told = {}) = (ShownHealth(p) = {})
          /\ \A k \in ShownHealth(p) :
               /\ [about |-> "health", key |-> k, value |-> health[k]] \in told
               /\ \A e \in told : e.key[2] <= k[2]
    BY <1>1, ShownIs
  <2> QED BY <2>1, <2>2 DEF WorthOf, Booked
<1> QED BY <1>1, BusinessStarts, BusinessKept, PTL

\* What the listings of the library and of the operations tell is what was
\* accepted (server.ts: /api/library/items, /api/operations).
THEOREM ListingsHold ==
    LibraryInit /\ BusinessInit /\ [][LibraryNext]_libraryVars /\ [][BusinessNext]_businessVars => []RecordsAgree
<1>1. SelectionsResolve /\ SnapshotTellsAcknowledged => RecordsAgree
  BY DEF RecordsAgree
<1> QED BY <1>1, LibraryHolds, BusinessHolds, PTL

=============================================================================
