------------------------------- MODULE RunTrace -------------------------------
(* What is recorded of the decisions of a run, and what is learnt from its   *)
(* end: the receipts, each chained to the last one listed                    *)
(* (decision-receipt.ts, runtime-decision-trace.ts), the revision and the    *)
(* tools a run is pinned to (identity-fusion.ts, speaker-policy.ts), the     *)
(* observation of its outcome and the proposal that a decline leads to       *)
(* (outcome-learning.ts, runtime-outcome-learning.ts), as                    *)
(* apps/runtime/server.ts writes them from startRun to finishRun.  Receipts  *)
(* are listed by their time, which the clock of the machine gives.           *)
EXTENDS Integers, Sequences, FiniteSets, SequencesExt

CONSTANTS
  TracedRuns,         \* numbers: observations of one time are listed by run
  Strict,             \* JANUS_HOUSEHOLD_STRICT
  Recent, Baseline, MinSamples, Threshold,  \* the windows, and percent of decline
  MaxActive, MaxHour, MaxSetBacks, MaxNotes, MaxTraceRestarts  \* bounds

ASSUME TraceAssumption ==
    /\ TracedRuns \subseteq Nat /\ IsFiniteSet(TracedRuns)
    /\ MaxActive \in Nat \ {0} /\ MaxHour \in Nat \ {0} /\ Strict \in BOOLEAN

VARIABLES
  trace,           \* durable: the receipts of a run, in the order of writing
  learnt,          \* durable: the observation of a run
  drifts,          \* durable: proposals by revision and by the run that led to them
  ran,             \* how a run goes, and what it met
  pins,            \* memory: runBlueprints
  activeRevision,  \* memory and durable: the revision in force
  hour, setBacks, traceRestarts

traceVars == <<trace, learnt, drifts, ran, pins, activeRevision, hour, setBacks, traceRestarts>>

NothingLearnt == [revision |-> 0, score |-> 0, at |-> 0]
NoPin == [revision |-> 0, restricted |-> FALSE]
Hints == {"none", "owner", "adult", "minor", "ambiguous", "unknown"}
FaceHints == {"none", "owner", "adult", "minor"}  \* only a match is kept
NotRun == [at |-> "none", status |-> "none", revision |-> 0, other |-> FALSE, personal |-> FALSE,
           predicted |-> FALSE, passed |-> FALSE, gateFailed |-> FALSE, updated |-> 0,
           notes |-> 0, thrown |-> FALSE, slipped |-> FALSE]
LiveTrace == {"begun", "working", "over", "again"}

-----------------------------------------------------------------------------
(* Receipts *)

\* ORDER BY at, rowid
Precedes(rows, i, j) == rows[i].at < rows[j].at \/ (rows[i].at = rows[j].at /\ i < j)

\* A plausible mistake in LastListed.
FirstListed(rows) ==
    IF rows = <<>> THEN 0 ELSE CHOOSE i \in DOMAIN rows : \A j \in DOMAIN rows : j = i \/ Precedes(rows, i, j)

\* Of some receipts the one that is listed last, 0 when there is none
LastOf(rows, some) == IF some = {} THEN 0 ELSE CHOOSE i \in some : \A j \in some : j = i \/ Precedes(rows, j, i)

LastListed(rows) == LastOf(rows, DOMAIN rows)

\* verifyReceiptChain: each is chained to the one listed before it.
Verifies(rows) ==
    \A i \in DOMAIN rows :
      LET earlier == {j \in DOMAIN rows : Precedes(rows, j, i)}
      IN  earlier # {} => rows[i].previous = LastOf(rows, earlier)

\* appendChainedDecisionReceipt, for the receipts of one turn.  Which receipt
\* is listed last when the k-th is appended depends on the times alone.
Appended(rows, kinds, revision) ==
    LET dated == rows \o [k \in DOMAIN kinds |-> [at |-> hour]]
    IN  rows \o [k \in DOMAIN kinds |->
                   [kind |-> kinds[k], revision |-> revision, at |-> hour,
                    previous |-> LastListed(SubSeq(dated, 1, Len(rows) + k - 1))]]

Tells(rows, kind) == \E i \in DOMAIN rows : rows[i].kind = kind

\* A plausible mistake in BlueprintOf.
ActiveBlueprint(r) == [revision |-> activeRevision, restricted |-> FALSE]

BlueprintOf(r) == IF pins[r] = NoPin THEN [revision |-> activeRevision, restricted |-> FALSE] ELSE pins[r]

Told(r, kinds) == Appended(trace[r], kinds, BlueprintOf(r).revision)

-----------------------------------------------------------------------------
(* Who speaks *)

\* A plausible mistake in Fused.
OwnerFirst(voice, face) ==
    IF "owner" \in {voice, face} THEN "owner"
    ELSE IF "minor" \in {voice, face} THEN "minor" ELSE IF "adult" \in {voice, face} THEN "adult" ELSE voice

\* The most restricted match; a hint without one is ambiguous or unknown.
Fused(voice, face) ==
    CHOOSE hint \in {voice, face} :
      \A other \in {voice, face} :
        LET rank == [minor |-> 1, adult |-> 2, owner |-> 3, ambiguous |-> 4, unknown |-> 5, none |-> 6]
        IN  rank[hint] <= rank[other]

Restricts(hint) == hint \in {"minor", "adult"} \/ (Strict /\ hint \in {"ambiguous", "unknown"})

-----------------------------------------------------------------------------
(* What is learnt *)

PredictedUnder(r) == LET i == SelectLastInSeq(trace[r], LAMBDA t : t.kind = "prediction") IN trace[r][i].revision

Succeeded(r) == ran[r].status = "completed" /\ ran[r].passed /\ ~ran[r].gateFailed
Declined(r) == ran[r].status = "failed" \/ ran[r].gateFailed
Eligible(r) == Tells(trace[r], "prediction") /\ (Declined(r) \/ Succeeded(r))
Observation(r) ==
    [revision |-> PredictedUnder(r), score |-> IF Declined(r) THEN 0 ELSE 1, at |-> ran[r].updated]

\* The observations of a revision by time, those of one time by run
Sooner(known, q, r) == known[q].at < known[r].at \/ (known[q].at = known[r].at /\ q < r)
ObservedUnder(known, revision) == {r \in TracedRuns : known[r].revision = revision}
Observed(known, revision) == SetToSortSeq(ObservedUnder(known, revision), LAMBDA q, r : Sooner(known, q, r))
LastObserved(known, revision) ==
    CHOOSE r \in ObservedUnder(known, revision) :
      \A q \in ObservedUnder(known, revision) : q = r \/ Sooner(known, q, r)

\* detectOutcomeDrift downwards: the mean of the recent ones has fallen below
\* that of those before them by the threshold
Degraded(known, revision) ==
    LET all      == Observed(known, revision)
        n        == Len(all)
        recent   == SubSeq(all, n - Recent + 1, n)
        baseline == SubSeq(all, IF n > Recent + Baseline THEN n - Recent - Baseline + 1 ELSE 1, n - Recent)
        sum(rs)  == FoldLeft(LAMBDA total, r : total + known[r].score, 0, rs)
    IN  /\ n >= MinSamples /\ n > Recent
        /\ 100 * (sum(baseline) * Len(recent) - sum(recent) * Len(baseline))
             >= Threshold * Len(recent) * Len(baseline)

\* A plausible mistake in Open.
AwaitsAnswer(revision) == \E r \in TracedRuns : drifts[revision][r] = "proposed"

Open(revision) == \E r \in TracedRuns : drifts[revision][r] \in {"proposed", "approved"}

-----------------------------------------------------------------------------
(* A run *)

Begin(r, voice, face) ==
    LET hint == Fused(voice, face) IN
    /\ ran[r].at = "none"
    /\ pins' = [pins EXCEPT ![r] = [revision |-> activeRevision, restricted |-> Restricts(hint)]]
    /\ trace' = [trace EXCEPT ![r] =
         Appended(@, (IF hint = "none" THEN <<>> ELSE <<"hint">>) \o <<"selected", "effort">>, activeRevision)]
    /\ ran' = [ran EXCEPT ![r].at = "begun", ![r].revision = activeRevision,
                          ![r].other = ({"minor", "adult"} \cap {voice, face} # {})
                                       \/ (Strict /\ hint \in {"ambiguous", "unknown"})]
    /\ UNCHANGED <<learnt, drifts, activeRevision, hour, setBacks, traceRestarts>>

\* prepareSteps: what is written for each way a plan comes out
PlanReceipts ==
    [fallback  |-> <<"fallback">>,
     effort    |-> <<"resolution">>,
     provider  |-> <<"worker", "resolution">>,
     rejected  |-> <<"worker", "verification">>,
     unready   |-> <<"worker", "verification", "capability", "resolution">>,
     household |-> <<"worker", "verification", "capability", "tool", "prediction">>,
     personal  |-> <<"worker", "verification", "capability", "tool", "prediction", "policy">>]

\* blueprintExecutionPolicy: the tools of the household are left to a run that
\* is restricted.
Allowed(r, outcome) == outcome = "personal" => ~BlueprintOf(r).restricted

Plan(r, outcome) ==
    /\ ran[r].at = "begun" /\ Allowed(r, outcome)
    /\ trace' = [trace EXCEPT ![r] = Told(r, PlanReceipts[outcome])]
    /\ ran' = IF outcome \in {"fallback", "household", "personal"}
              THEN [ran EXCEPT ![r].at = "working", ![r].predicted = outcome # "fallback",
                               ![r].personal = outcome = "personal"]
              ELSE [ran EXCEPT ![r].at = "over", ![r].status = "blocked", ![r].updated = hour]
    /\ UNCHANGED <<learnt, drifts, pins, activeRevision, hour, setBacks, traceRestarts>>

\* Authority, approvals and the Delivery Gate, while the run executes
Note(r, kind) ==
    /\ ran[r].at = "working" /\ ran[r].notes < MaxNotes
    /\ trace' = [trace EXCEPT ![r] = Told(r, <<kind>>)]
    /\ ran' = [ran EXCEPT ![r].notes = @ + 1, ![r].passed = @ \/ kind = "passed",
                          ![r].gateFailed = @ \/ kind = "gateFailed"]
    /\ UNCHANGED <<learnt, drifts, pins, activeRevision, hour, setBacks, traceRestarts>>

End(r, status) ==
    /\ ran[r].at = "working"
    /\ status = "completed" => ~ran[r].gateFailed
    /\ ran' = [ran EXCEPT ![r].at = "over", ![r].status = status, ![r].updated = hour]
    /\ UNCHANGED <<trace, learnt, drifts, pins, activeRevision, hour, setBacks, traceRestarts>>

\* recordRunOutcome, which leaves everything alone when the outcome is told
NeverTold(r) == FALSE
OutcomeTold(r) == Tells(trace[r], "outcome")

Learns(r) == ~OutcomeTold(r) /\ Eligible(r)
Learnt(r) == IF Learns(r) THEN [learnt EXCEPT ![r] = Observation(r)] ELSE learnt
Proposes(r) ==
    /\ Learns(r) /\ PredictedUnder(r) = activeRevision
    /\ Degraded(Learnt(r), activeRevision) /\ ~Open(activeRevision)
Drifts(r) ==
    IF Proposes(r)
    THEN [drifts EXCEPT ![activeRevision][LastObserved(Learnt(r), activeRevision)] = "proposed"]
    ELSE drifts

\* ensureBlockedRunResolution
Unresolved(r) == ran[r].status = "blocked" /\ ~Tells(trace[r], "resolution")

EndReceipts(r) ==
    (IF OutcomeTold(r) THEN <<>> ELSE <<"outcome">>)
    \o (IF Proposes(r) THEN <<"improvement">> ELSE <<>>)
    \o (IF Unresolved(r) THEN <<"resolution">> ELSE <<>>)

FinishRun(r) ==
    /\ ran[r].at \in {"over", "again"}
    /\ trace' = [trace EXCEPT ![r] = Told(r, EndReceipts(r))]
    /\ learnt' = Learnt(r) /\ drifts' = Drifts(r)
    /\ ran' = [ran EXCEPT ![r].at = "finished"]
    /\ pins' = IF ran[r].status = "paused" THEN pins ELSE [pins EXCEPT ![r] = NoPin]
    /\ UNCHANGED <<activeRevision, hour, setBacks, traceRestarts>>

\* Finishing throws, with nothing, the outcome, its observation or the whole
\* trace written, and is called again; a failed run has no second call.
RunFinishThrows(r, written) ==
    /\ ran[r].at = "over" /\ ran[r].status # "failed"
    /\ trace' = [trace EXCEPT ![r] =
         CASE written = "nothing" -> @
           [] written \in {"outcome", "observation"} -> Told(r, <<"outcome">>)
           [] written = "trace" -> Told(r, EndReceipts(r))]
    /\ learnt' = IF written \in {"observation", "trace"} THEN Learnt(r) ELSE learnt
    /\ drifts' = IF written = "trace" THEN Drifts(r) ELSE drifts
    /\ ran' = [ran EXCEPT ![r].at = "again", ![r].thrown = TRUE]
    /\ UNCHANGED <<pins, activeRevision, hour, setBacks, traceRestarts>>

-----------------------------------------------------------------------------
(* Around the runs *)

\* A tool sync, a rollback or a proposal of somebody comes into force.
Revise ==
    /\ activeRevision < MaxActive /\ activeRevision' = activeRevision + 1
    /\ UNCHANGED <<trace, learnt, drifts, ran, pins, hour, setBacks, traceRestarts>>

\* Founder decides on the proposal of a decline, approving one of the active
\* revision only; the candidate that is approved with it then comes into force.
DecideDrift(revision, r, status) ==
    /\ drifts[revision][r] = "proposed" /\ (status = "approved" => revision = activeRevision)
    /\ drifts' = [drifts EXCEPT ![revision][r] = status]
    /\ UNCHANGED <<trace, learnt, ran, pins, activeRevision, hour, setBacks, traceRestarts>>

ApplyDrift(revision, r) ==
    /\ drifts[revision][r] = "approved" /\ revision = activeRevision /\ activeRevision < MaxActive
    /\ drifts' = [drifts EXCEPT ![revision][r] = "applied"]
    /\ activeRevision' = activeRevision + 1
    /\ UNCHANGED <<trace, learnt, ran, pins, hour, setBacks, traceRestarts>>

HourPasses ==
    /\ hour < MaxHour /\ hour' = hour + 1
    /\ UNCHANGED <<trace, learnt, drifts, ran, pins, activeRevision, setBacks, traceRestarts>>

HourSetBack ==
    /\ setBacks < MaxSetBacks /\ hour > 1
    /\ hour' = hour - 1 /\ setBacks' = setBacks + 1
    /\ ran' = [r \in TracedRuns |-> [ran[r] EXCEPT !.slipped = @ \/ ran[r].at \in LiveTrace]]
    /\ UNCHANGED <<trace, learnt, drifts, pins, activeRevision, traceRestarts>>

\* markInterruptedRuns: what ran is lost, and nothing more is written of it.
RestartTrace ==
    /\ traceRestarts < MaxTraceRestarts /\ traceRestarts' = traceRestarts + 1
    /\ ran' = [r \in TracedRuns |-> IF ran[r].at \in LiveTrace THEN [ran[r] EXCEPT !.at = "lost"] ELSE ran[r]]
    /\ pins' = [r \in TracedRuns |-> NoPin]
    /\ UNCHANGED <<trace, learnt, drifts, activeRevision, hour, setBacks>>

\* Runs that succeeded before, and runs that are executing a plan
Chained(kinds) == [i \in DOMAIN kinds |-> [kind |-> kinds[i], revision |-> 1, at |-> 1, previous |-> i - 1]]

TraceFrom(earlier, executing, revision, time, back, restarted) ==
    LET planned == <<"selected", "effort">> \o PlanReceipts.household IN
    /\ trace = [r \in TracedRuns |->
         IF r \in earlier THEN Chained(planned \o <<"passed", "outcome">>)
         ELSE IF r \in executing THEN Chained(planned) ELSE <<>>]
    /\ ran = [r \in TracedRuns |->
         IF r \in earlier
         THEN [NotRun EXCEPT !.at = "finished", !.status = "completed", !.revision = 1,
                             !.predicted = TRUE, !.passed = TRUE, !.updated = 1]
         ELSE IF r \in executing
         THEN [NotRun EXCEPT !.at = "working", !.revision = 1, !.predicted = TRUE]
         ELSE NotRun]
    /\ learnt = [r \in TracedRuns |->
         IF r \in earlier THEN [revision |-> 1, score |-> 1, at |-> 1] ELSE NothingLearnt]
    /\ drifts = [v \in 1..MaxActive |-> [r \in TracedRuns |-> "none"]]
    /\ pins = [r \in TracedRuns |-> IF r \in executing THEN [NoPin EXCEPT !.revision = 1] ELSE NoPin]
    /\ activeRevision = revision /\ hour = time /\ setBacks = back /\ traceRestarts = restarted

TraceNext ==
    \/ \E r \in TracedRuns :
         \/ \E voice \in Hints, face \in FaceHints : Begin(r, voice, face)
         \/ \E outcome \in DOMAIN PlanReceipts : Plan(r, outcome)
         \/ \E kind \in {"authority", "approval", "passed", "gateFailed"} : Note(r, kind)
         \/ \E status \in {"completed", "failed", "blocked", "cancelled", "paused"} : End(r, status)
         \/ FinishRun(r)
         \/ \E written \in {"nothing", "outcome", "observation", "trace"} : RunFinishThrows(r, written)
         \/ \E v \in 1..MaxActive, status \in {"approved", "rejected"} : DecideDrift(v, r, status)
         \/ \E v \in 1..MaxActive : ApplyDrift(v, r)
    \/ Revise \/ HourPasses \/ HourSetBack \/ RestartTrace

-----------------------------------------------------------------------------
(* Properties *)

\* Every receipt names the revision that the run began under, whatever came
\* into force meanwhile, and the receipts as they are listed form one chain
\* while nobody sets the clock back under the run.
ChainOfOneRevision ==
    \A r \in TracedRuns :
      /\ \A i \in DOMAIN trace[r] : trace[r][i].revision = ran[r].revision
      /\ ~ran[r].slipped => Verifies(trace[r])

\* The outcome of a run is told once however often finishing is tried, and a
\* run that is finished has it, with a resolution when it was blocked.
EndIsTold ==
    \A r \in TracedRuns :
      LET count(kind) == Cardinality({i \in DOMAIN trace[r] : trace[r][i].kind = kind}) IN
      /\ count("outcome") <= 1 /\ count("resolution") <= 1
      /\ ran[r].at = "finished" =>
           count("outcome") = 1 /\ (ran[r].status = "blocked" => count("resolution") = 1)

\* Learning is scoped to the revision a run was planned under, takes success
\* only from a run that completed with an artifact passed, and forgets no run
\* whose finishing did not throw; a revision has one open proposal at most,
\* with an observation of that revision behind it.
LearntFromOutcomes ==
    /\ \A r \in TracedRuns :
         /\ learnt[r] # NothingLearnt =>
              /\ ran[r].predicted /\ learnt[r].revision = ran[r].revision
              /\ IF learnt[r].score = 1 THEN Succeeded(r) ELSE Declined(r)
         /\ ran[r].at = "finished" /\ ~ran[r].thrown /\ ran[r].predicted /\ (Succeeded(r) \/ Declined(r))
              => learnt[r] # NothingLearnt
    /\ \A v \in 1..MaxActive :
         /\ Cardinality({r \in TracedRuns : drifts[v][r] \in {"proposed", "approved"}}) <= 1
         /\ \A r \in TracedRuns : drifts[v][r] # "none" => learnt[r].revision = v

\* A run whose voice or face is somebody else's plans no personal tool, be
\* the other one the owner's; nor does one nobody is recognized in, where the
\* household is strict.
OthersStayOut == \A r \in TracedRuns : ~(ran[r].other /\ ran[r].personal)

\* The trace of a run and what is learnt from it agree with how the run went,
\* through revisions, restarts, a clock set back and finishing that throws
\* (server.ts: recordDecision, recordRunOutcome).
TraceAgrees == ChainOfOneRevision /\ EndIsTold /\ LearntFromOutcomes /\ OthersStayOut
=============================================================================
