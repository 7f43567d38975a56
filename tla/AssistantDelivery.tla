--------------------------- MODULE AssistantDelivery ---------------------------
(* Publishing the configuration of an assistant surface to a release branch  *)
(* (packages/core/src/assistant-config-publisher.ts,                         *)
(* assistant-release-target.ts, published-release.ts,                        *)
(* assistant-consumer-ack.ts, packages/adapters/src/github-adapter.ts and    *)
(* the publish, ack and verify-applied handlers of apps/runtime/server.ts).  *)
(*                                                                           *)
(* Grain.  One step is one answer of GitHub, of the hosting provider or of   *)
(* the consumer, with what the handler does until its next await.  There is  *)
(* one release branch, to which people push as well; its history is never    *)
(* rewritten, so that a commit is known by its place in it.                  *)
EXTENDS Integers, Sequences, FiniteSets

CONSTANTS
  Jobs,         \* publish requests, each with the delivery it records
  Surfaces,     \* surfaces delivered to the branch
  SurfaceOf,    \* the surface each request publishes
  Explicit,     \* requests that name the branch themselves
  Bound,        \* surfaces whose manifest binds a production deployment
  MaxDepth,     \* MAX_CUSTODY_DEPTH
  MaxCommits, MaxPushes, MaxBundle, MaxDeaths

ASSUME DeliveryAssumption ==
    /\ SurfaceOf \in [Jobs -> Surfaces] /\ Explicit \subseteq Jobs /\ Bound \subseteq Surfaces
    /\ MaxDepth \in Nat \ {0} /\ MaxCommits \in Nat \ {0} /\ MaxBundle \in Nat \ {0}
    /\ MaxPushes \in Nat /\ MaxDeaths \in Nat

VARIABLES
  branch,     \* its commits: who wrote each, and the bundle file of each surface
  bundle,     \* the bundle a surface resolves to now
  job,        \* publish requests under way
  rows,       \* durable: deliveries
  probe,      \* verify-applied: the row as it was read
  deaths

deliveryVars == <<branch, bundle, job, rows, probe, deaths>>

NoRow == [status |-> "none", bundle |-> 0, expected |-> 0, commit |-> 0]
NewJob == [stage |-> "new", bundle |-> 0, anchor |-> 0, expected |-> 0, blob |-> 0, commit |-> 0]
Verified == {"published_verified", "applied"}

Tip == Len(branch)
\* The requests past their last look at the head: what is pushed now they may
\* build upon unseen.
Blind == {j \in Jobs : job[j].stage = "put"}
Commit(by, files, during) == [by |-> by, files |-> files, during |-> during]
Holds(commit, s, b) == branch[commit].files[s] = b

\* The row of a delivery, written as a whole each time.
Save(j, row) == rows' = [rows EXCEPT ![j] = row]
Desired(b, expected) == [status |-> "desired", bundle |-> b, expected |-> expected, commit |-> 0]
Published(row, commit) == [row EXCEPT !.status = "published_verified", !.commit = commit]
Failed(row) == [row EXCEPT !.status = "failed"]
Applied(row) == [row EXCEPT !.status = "applied"]
\* What a consumer has loaded is compared with a row.
Evaluated(row, loaded) == row.status \in Verified /\ loaded = row.bundle

-----------------------------------------------------------------------------
(* Custody of the head *)

Links ==
    {<<rows[j].expected, rows[j].commit>> :
       j \in {k \in Jobs : rows[k].status \in Verified /\ rows[k].expected # rows[k].commit}}

Forked == \E a, b \in Links : a[1] = b[1] /\ a[2] # b[2]

\* The head a verified delivery has made of this one; itself if there is none.
Successor(head) ==
    IF \E l \in Links : l[1] = head THEN (CHOOSE l \in Links : l[1] = head)[2] ELSE head

Lineage(anchor) ==
    LET at[k \in 0..MaxDepth] == IF k = 0 THEN anchor ELSE Successor(at[k - 1])
    IN  {at[k] : k \in 1..MaxDepth}

\* A plausible mistake in Custody: any head Janus has written will do.
CustodyOfOwn(anchor, observed) ==
    observed = anchor \/ \E l \in Links : l[2] = observed

\* verifyReleaseHeadCustody; as nothing rewrites the history there are no cycles
Custody(anchor, observed) ==
    observed = anchor \/ (~Forked /\ observed \in Lineage(anchor))

-----------------------------------------------------------------------------
(* POST /api/assistant-control/surfaces/:id/publish *)

OverJob == [NewJob EXCEPT !.stage = "over"]
Over(j) == job' = [job EXCEPT ![j] = OverJob]
Goes(j, stage) == job' = [job EXCEPT ![j].stage = stage]

\* The bundle a surface resolves to at this instant.
BundleOf(s) == bundle[s]

\* The body has arrived.
Publish(j) ==
    /\ job[j].stage = "new"
    /\ job' = [job EXCEPT ![j].stage = IF j \in Explicit THEN "branch" ELSE "manifest",
                          ![j].bundle = BundleOf(SurfaceOf[j])]
    /\ UNCHANGED <<branch, bundle, rows, probe, deaths>>

\* The manifest declares a head a person has validated at some time; 0 stands
\* for none of this surface that has its checksum.
Declared(n) == n \in 1..Tip

ReadManifest(j, declared) ==
    /\ job[j].stage = "manifest"
    /\ IF ~Declared(declared) THEN Over(j)
       ELSE job' = [job EXCEPT ![j].stage = "branch", ![j].anchor = declared]
    /\ UNCHANGED <<branch, bundle, rows, probe, deaths>>

ReadBranch(j) ==
    /\ job[j].stage = "branch"
    /\ job' = [job EXCEPT ![j].expected = Tip,
                          ![j].stage = IF j \notin Explicit /\ SurfaceOf[j] \in Bound
                                       THEN "deploy" ELSE "govern"]
    /\ UNCHANGED <<branch, bundle, rows, probe, deaths>>

\* assessPublishedRelease: the commit production publishes; 0 if the deploy is
\* not ready or names none.
Deployed(n) == n \in 1..Tip

\* It takes the place of the declared head.
ReadDeploy(j, live) ==
    /\ job[j].stage = "deploy"
    /\ IF ~Deployed(live) THEN Over(j)
       ELSE job' = [job EXCEPT ![j].stage = "govern", ![j].anchor = live]
    /\ UNCHANGED <<branch, bundle, rows, probe, deaths>>

\* The deliveries are read again, and the row of this one is written.
Govern(j) ==
    /\ job[j].stage = "govern"
    /\ IF j \in Explicit \/ Custody(job[j].anchor, job[j].expected)
       THEN /\ job' = [job EXCEPT ![j].stage = "head", ![j].anchor = 0]
            /\ Save(j, Desired(job[j].bundle, job[j].expected))
       ELSE Over(j) /\ UNCHANGED rows
    /\ UNCHANGED <<branch, bundle, probe, deaths>>

\* An error on the way, also the one a network gives: a recorded delivery that
\* is still desired has failed.
Fails(j) ==
    /\ Over(j)
    /\ IF rows[j].status = "desired" THEN Save(j, Failed(rows[j])) ELSE UNCHANGED rows

Breaks(j) ==
    /\ job[j].stage \notin {"new", "over"}
    /\ Fails(j)
    /\ UNCHANGED <<branch, bundle, probe, deaths>>

\* file.publish: the head, the file, and the head again.
CheckHead(j) ==
    /\ job[j].stage = "head"
    /\ IF Tip = job[j].expected THEN Goes(j, "file") /\ UNCHANGED rows ELSE Fails(j)
    /\ UNCHANGED <<branch, bundle, probe, deaths>>

ReadFile(j) ==
    LET found == branch[Tip].files[SurfaceOf[j]]
    IN  /\ job[j].stage = "file"
        /\ job' = IF found = job[j].bundle
                  THEN [job EXCEPT ![j].stage = "readBack", ![j].commit = job[j].expected]
                  ELSE [job EXCEPT ![j].stage = "recheck", ![j].blob = found]
        /\ UNCHANGED <<branch, bundle, rows, probe, deaths>>

Recheck(j) ==
    /\ job[j].stage = "recheck"
    /\ IF Tip = job[j].expected THEN Goes(j, "put") /\ UNCHANGED rows ELSE Fails(j)
    /\ UNCHANGED <<branch, bundle, probe, deaths>>

\* GitHub puts the file on whatever head there is, if the file is still the one
\* that was read; the answer may be lost.
Put(j, answered) ==
    LET s == SurfaceOf[j]
    IN  /\ job[j].stage = "put" /\ Tip < MaxCommits
        /\ IF branch[Tip].files[s] # job[j].blob THEN Fails(j) /\ UNCHANGED branch
           ELSE /\ branch' = Append(branch, Commit(j, [branch[Tip].files EXCEPT ![s] = job[j].bundle],
                                                   Blind \ {j}))
                /\ IF answered
                   THEN /\ job' = [job EXCEPT ![j].stage = "readBack", ![j].commit = Tip + 1]
                        /\ UNCHANGED rows
                   ELSE Fails(j)
        /\ UNCHANGED <<bundle, probe, deaths>>

\* A plausible mistake in ReadBack: what was put is taken to be there.
TakenForRead(j) ==
    /\ job[j].stage = "readBack"
    /\ Over(j)
    /\ Save(j, Published(rows[j], job[j].commit))
    /\ UNCHANGED <<branch, bundle, probe, deaths>>

\* The file of that commit must be the bundle.
ReadBack(j) ==
    /\ job[j].stage = "readBack"
    /\ IF Holds(job[j].commit, SurfaceOf[j], job[j].bundle)
       THEN Over(j) /\ Save(j, Published(rows[j], job[j].commit))
       ELSE Fails(j)
    /\ UNCHANGED <<branch, bundle, probe, deaths>>

-----------------------------------------------------------------------------
(* Acknowledgement *)

\* POST .../ack: the Founder says which bundle was seen.
Acknowledge(j, seen) ==
    /\ Evaluated(rows[j], seen)
    /\ Save(j, Applied(rows[j]))
    /\ UNCHANGED <<branch, bundle, job, probe, deaths>>

\* POST .../verify-applied reads the row, asks the consumer ...
Probe(j) ==
    /\ rows[j] # NoRow /\ probe[j] = NoRow
    /\ probe' = [probe EXCEPT ![j] = rows[j]]
    /\ UNCHANGED <<branch, bundle, job, rows, deaths>>

\* A plausible mistake in Probed: the status of the row is not looked at.
ProbedAnyway(j, loaded) ==
    /\ probe[j] # NoRow
    /\ probe' = [probe EXCEPT ![j] = NoRow]
    /\ IF loaded = probe[j].bundle THEN Save(j, Applied(probe[j])) ELSE UNCHANGED rows
    /\ UNCHANGED <<branch, bundle, job, deaths>>

\* ... and evaluates its answer against the row it has read.
Probed(j, loaded) ==
    /\ probe[j] # NoRow
    /\ probe' = [probe EXCEPT ![j] = NoRow]
    /\ IF Evaluated(probe[j], loaded) THEN Save(j, Applied(probe[j])) ELSE UNCHANGED rows
    /\ UNCHANGED <<branch, bundle, job, deaths>>

-----------------------------------------------------------------------------
(* Everybody else *)

\* The profile or the surface is revised (AssistantControl).
Revise(s) ==
    /\ bundle[s] < MaxBundle /\ bundle' = [bundle EXCEPT ![s] = @ + 1]
    /\ UNCHANGED <<branch, job, rows, probe, deaths>>

\* People push, and may touch the file of a surface or put a bundle there.
Push(s, file) ==
    /\ Tip < MaxCommits
    /\ Cardinality({n \in 2..Tip : branch[n].by = "people"}) < MaxPushes
    /\ branch' = Append(branch, Commit("people", [branch[Tip].files EXCEPT ![s] = file], Blind))
    /\ UNCHANGED <<bundle, job, rows, probe, deaths>>

\* The process dies: the rows stay as they are, desired ones too.
Dies ==
    /\ deaths < MaxDeaths /\ deaths' = deaths + 1
    /\ job' = [j \in Jobs |-> IF job[j].stage = "new" THEN NewJob ELSE OverJob]
    /\ probe' = [j \in Jobs |-> NoRow]
    /\ UNCHANGED <<branch, bundle, rows>>

DeliveryInit ==
    /\ branch = <<Commit("people", [s \in Surfaces |-> 0], {})>>
    /\ bundle = [s \in Surfaces |-> 1]
    /\ job = [j \in Jobs |-> NewJob] /\ rows = [j \in Jobs |-> NoRow]
    /\ probe = [j \in Jobs |-> NoRow] /\ deaths = 0

DeliveryNext ==
    \/ \E j \in Jobs :
         \/ Publish(j) \/ ReadBranch(j) \/ Govern(j)
         \/ \E n \in 0..MaxCommits : ReadManifest(j, n) \/ ReadDeploy(j, n)
         \/ Breaks(j) \/ CheckHead(j) \/ ReadFile(j) \/ Recheck(j) \/ ReadBack(j)
         \/ \E answered \in BOOLEAN : Put(j, answered)
         \/ Probe(j)
         \/ \E seen \in 0..MaxBundle : Acknowledge(j, seen) \/ Probed(j, seen)
    \/ \E s \in Surfaces : Revise(s) \/ \E f \in 0..MaxBundle : Push(s, f)
    \/ Dies

DeliverySpec == DeliveryInit /\ [][DeliveryNext]_deliveryVars

-----------------------------------------------------------------------------
\* Values the variables range over.
DeliveryTypeOK ==
    /\ branch \in Seq([by : Jobs \cup {"people"}, files : [Surfaces -> 0..MaxBundle],
                       during : SUBSET Jobs]) /\ Tip \in 1..MaxCommits
    /\ \A j \in Jobs : rows[j] = NoRow \/
         rows[j] \in [status : {"desired", "failed", "published_verified", "applied"},
                      bundle : 1..MaxBundle, expected : 1..MaxCommits, commit : 0..MaxCommits]

\* A delivery that is reported as verified names a commit in which its surface
\* has that bundle, one that it wrote itself unless nothing had to be written,
\* whoever pushed or published at the same time (server.ts: publish).
VerifiedIsThere ==
    /\ DeliveryTypeOK
    /\ \A j \in Jobs : rows[j].status \in Verified =>
         /\ branch[rows[j].commit].files[SurfaceOf[j]] = rows[j].bundle
         /\ rows[j].commit # rows[j].expected =>
              rows[j].commit > rows[j].expected /\ branch[rows[j].commit].by = j

\* A publication that its manifest governs goes on only if between the head
\* the manifest declares (or production publishes) and the head it found lie
\* verified deliveries, and what was pushed while a publication had looked at
\* the head for the last time and not yet written.
CustodyIsLineage ==
    [][\A j \in Jobs \ Explicit :
         job[j].stage = "govern" /\ job'[j].stage = "head" =>
           \A c \in (job[j].anchor + 1)..job[j].expected :
             \/ \E k \in Jobs : rows[k].status \in Verified /\ rows[k].commit = c
             \/ branch[c].during # {}]_deliveryVars

\* What a delivery has come to stays: a failed one is never applied, and a
\* verified one keeps its commit and its bundle.
DeliveriesEnd ==
    [][\A j \in Jobs :
         /\ rows[j].status = "failed" => rows'[j] = rows[j]
         /\ rows[j].status \in Verified =>
              rows'[j].status \in Verified /\ rows'[j].commit = rows[j].commit
              /\ rows'[j].bundle = rows[j].bundle
         /\ rows'[j].status = "applied" => rows[j].status \in Verified]_deliveryVars

\* Deliveries follow each other on the branch and are not rewritten.
DeliveriesHold == CustodyIsLineage /\ DeliveriesEnd

\* Claim of docs/assistant-release-target-manifest.md:48: any foreign commit
\* breaks the chain.
ForeignBreaksChain ==
    [][\A j \in Jobs \ Explicit :
         job[j].stage = "govern" /\ job'[j].stage = "head" =>
           \A c \in (job[j].anchor + 1)..job[j].expected : branch[c].by # "people"]_deliveryVars
=============================================================================
