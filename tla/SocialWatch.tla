----------------------------- MODULE SocialWatch -----------------------------
(* The periodic reading of the Founder's social accounts                     *)
(* (packages/core/src/social-watch.ts, social-watch-scheduler.ts and their   *)
(* use in apps/runtime/server.ts): a timer and requests of the Founder share *)
(* one run; each account of the run is read through the tool gateway and     *)
(* compared with its last stored reading.                                    *)
EXTENDS Integers, Sequences, FiniteSets

CONSTANTS
  Accounts,      \* a sequence: the order of the registry
  Runs,          \* names for runs
  Asks,          \* requests of the Founder that run it at once
  MaxReadings,   \* bound on stored readings of an account
  MaxBackoff     \* the exponent 10 of nextDelayMs

ASSUME WatchAssumption ==
    /\ Accounts \in Seq({Accounts[i] : i \in DOMAIN Accounts}) /\ MaxBackoff \in Nat
    /\ {"none", "new", "answered"} \cap Runs = {}

VARIABLES
  mode,       \* "scheduled", "onDemand" (no interval configured) or "off"
  armed,      \* the timer of the scheduler is set
  ticking,    \* the tick waits for its run
  run,        \* runs under way
  failures,   \* consecutive failures
  asks,       \* the run each request waits for
  readings    \* durable: how many readings of each account are stored

watchVars == <<mode, armed, ticking, run, failures, asks, readings>>

NoRun == [stage |-> "none"]
UnderWay == {r \in Runs : run[r] # NoRun}
Waiting == {q \in Asks : asks[q] \in Runs}
Planning == [stage |-> "plan"]

\* A plausible mistake in RunNow: a run for each.
BeginAnyway(r) == run[r] = NoRun /\ run' = [run EXCEPT ![r] = Planning]

\* runNow gives everybody the run under way, or begins one.
RunNow(r) ==
    IF UnderWay # {} THEN r \in UnderWay /\ UNCHANGED run
    ELSE run' = [run EXCEPT ![r] = Planning]

TimerFires(r) ==
    /\ mode = "scheduled" /\ armed
    /\ armed' = FALSE /\ ticking' = r
    /\ RunNow(r)
    /\ UNCHANGED <<mode, failures, asks, readings>>

\* POST /api/founder/social-watch/run: without a scheduler a run of its own
AskNow(q, r) ==
    /\ mode # "off" /\ asks[q] = "new"
    /\ asks' = [asks EXCEPT ![q] = r]
    /\ IF mode = "scheduled" THEN RunNow(r)
       ELSE run[r] = NoRun /\ run' = [run EXCEPT ![r] = Planning]
    /\ UNCHANGED <<mode, armed, ticking, failures, readings>>

\* Whoever waits for run r goes on; the tick arms the timer again.
Released(r) ==
    /\ asks' = [q \in Asks |-> IF asks[q] = r THEN "answered" ELSE asks[q]]
    /\ ticking' = IF ticking = r THEN "none" ELSE ticking
    /\ armed' = (armed \/ ticking = r)
    /\ run' = [run EXCEPT ![r] = NoRun]

\* A plausible mistake in Fails: the error ends the tick.
FailsForGood(r) ==
    /\ run[r].stage \in {"plan", "read"}
    /\ asks' = [q \in Asks |-> IF asks[q] = r THEN "answered" ELSE asks[q]]
    /\ ticking' = IF ticking = r THEN "none" ELSE ticking
    /\ run' = [run EXCEPT ![r] = NoRun]
    /\ failures' = IF mode = "scheduled" /\ failures < MaxBackoff THEN failures + 1 ELSE failures
    /\ UNCHANGED <<mode, armed, readings>>

\* The plan, the gateway or the store throws.
Fails(r) ==
    /\ run[r].stage \in {"plan", "read"}
    /\ Released(r)
    /\ failures' = IF mode = "scheduled" /\ failures < MaxBackoff THEN failures + 1 ELSE failures
    /\ UNCHANGED <<mode, readings>>

\* In the order of the registry
AccountsIn(ready) == SelectSeq(Accounts, LAMBDA a : a \in ready)

\* The copy of the credentials is read again; the accounts that are ready are
\* read, the others reported with what they lack.
Plan(r, ready) ==
    /\ run[r].stage = "plan"
    /\ run' = [run EXCEPT ![r] = [stage |-> "read", left |-> AccountsIn(ready),
                                  read |-> {}, failed |-> {}]]
    /\ UNCHANGED <<mode, armed, ticking, failures, asks, readings>>

\* The gateway answers: the reading is compared with the last one and stored,
\* or the account is reported as failed.
Reads(r, ok) ==
    /\ run[r].stage = "read" /\ run[r].left # <<>>
    /\ LET a == Head(run[r].left)
       IN  /\ run' = [run EXCEPT ![r].left = Tail(@),
                                 ![r].read = IF ok THEN @ \cup {a} ELSE @,
                                 ![r].failed = IF ok THEN @ ELSE @ \cup {a}]
           /\ readings' = IF ok /\ readings[a] < MaxReadings
                          THEN [readings EXCEPT ![a] = @ + 1] ELSE readings
    /\ UNCHANGED <<mode, armed, ticking, failures, asks>>

\* A run in which all that was tried has failed counts as a failure; one with
\* nothing to try does not.
Reports(r) ==
    /\ run[r].stage = "read" /\ run[r].left = <<>>
    /\ Released(r)
    /\ failures' = IF mode # "scheduled" THEN failures
                   ELSE IF run[r].failed # {} /\ run[r].read = {}
                   THEN IF failures < MaxBackoff THEN failures + 1 ELSE failures
                   ELSE 0
    /\ UNCHANGED <<mode, readings>>

\* start arms the timer once the metadata of the vault are there.
WatchInit ==
    /\ mode \in {"scheduled", "onDemand", "off"} /\ armed = (mode = "scheduled")
    /\ ticking = "none" /\ run = [r \in Runs |-> NoRun]
    /\ failures = 0 /\ asks = [q \in Asks |-> "new"]
    /\ readings = [a \in {Accounts[i] : i \in DOMAIN Accounts} |-> 0]

WatchNext ==
    \E r \in Runs :
      \/ TimerFires(r) \/ Fails(r) \/ Reports(r)
      \/ \E q \in Asks : AskNow(q, r)
      \/ \E ready \in SUBSET DOMAIN readings : Plan(r, ready)
      \/ \E ok \in BOOLEAN : Reads(r, ok)

\* The timer fires; the adapters answer within their own time limits.
WatchFairness ==
    /\ WF_watchVars(\E r \in Runs : TimerFires(r))
    /\ \A r \in Runs :
         /\ WF_watchVars(\E ready \in SUBSET DOMAIN readings : Plan(r, ready))
         /\ WF_watchVars(\E ok \in BOOLEAN : Reads(r, ok)) /\ WF_watchVars(Reports(r))

WatchSpec == WatchInit /\ [][WatchNext]_watchVars /\ WatchFairness

-----------------------------------------------------------------------------
\* The scheduler runs once at a time, whoever asks, and its timer is set or its
\* tick is waiting for a run: never both, never neither
\* (social-watch-scheduler.ts:101).
WatchRunsOnce ==
    mode = "scheduled" =>
      /\ Cardinality(UnderWay) <= 1
      /\ armed = (ticking = "none")
      /\ ticking # "none" => ticking \in UnderWay
      /\ \A q \in Waiting : asks[q] \in UnderWay

\* A scheduled reading begins again and again, though runs fail
\* (social-watch-scheduler.ts:167).
WatchGoesOn == mode = "scheduled" => []<>(ticking # "none")

\* Claim of server.ts:4618: without a scheduler, too, never two at once.
NeverTwo == Cardinality(UnderWay) <= 1
=============================================================================
