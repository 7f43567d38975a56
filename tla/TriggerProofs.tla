---------------------------- MODULE TriggerProofs ----------------------------
(* Schedules move forward and nothing is run twice, for any triggers,        *)
(* revisions, slots, events, deliveries and flushes, with deaths anywhere.   *)
EXTENDS TriggerProps, FiniteSetTheorems, SequenceTheorems, NumberLemmas, TLAPS

LEMMA SceneBounds ==
    ASSUME scene \in Scenes
    PROVE  scene.time \in Nat /\ scene.revisions \in Nat /\ scene.crashes \in Nat
           /\ scene.errors \in Nat /\ scene.draws \in Nat
           /\ Slots \subseteq 1..scene.time
BY SceneAssumption DEF Slots

\* The next slot is a slot after the instant, or none.
LEMMA NextSlotIsLater ==
    ASSUME scene \in Scenes, NEW t \in Nat
    PROVE  NextSlot(t) \in Slots \cup {0} /\ (NextSlot(t) # 0 => NextSlot(t) > t)
<1> DEFINE later == {s \in Slots : s > t}
<1>1. later \subseteq Nat
  BY SceneBounds
<1>2. CASE later = {}
  BY <1>2 DEF NextSlot
<1>3. CASE later # {}
  <2>1. \E s \in later : \A x \in later : s <= x
    BY <1>1, <1>3, FirstExists
  <2>2. NextSlot(t) = CHOOSE s \in later : \A x \in later : s <= x
    BY <1>3 DEF NextSlot
  <2>3. NextSlot(t) \in later
    BY <2>1, <2>2
  <2> QED BY <2>3
<1> QED BY <1>2, <1>3

\* The last of the slots that passed is not before any of them.
LEMMA LatestIsLast ==
    ASSUME scene \in Scenes, now \in Nat, NEW s \in Slots, s <= now
    PROVE  LET last == Latest({x \in Slots : x <= now})
           IN  last \in Slots /\ s <= last /\ last <= now
<1> DEFINE passed == {x \in Slots : x <= now}
<1>1. passed \subseteq Nat /\ s \in passed
  BY SceneBounds
<1>2. \E x \in passed : \A y \in passed : y <= x
  BY <1>1, LastExists
<1>3. Latest(passed) = CHOOSE x \in passed : \A y \in passed : y <= x
  BY DEF Latest
<1>4. Latest(passed) \in passed /\ \A y \in passed : y <= Latest(passed)
  BY <1>2, <1>3
<1> QED BY <1>1, <1>4

\* What is left of the deliveries is some of them.
LEMMA RecentIsPart ==
    ASSUME NEW S, NEW times \in Seq(S)
    PROVE  Recent(times) \in Seq(S)
<1> DEFINE old == {i \in DOMAIN times : now - times[i] >= Window}
<1>1. Len(times) \in Nat /\ DOMAIN times = 1..Len(times)
  BY LenProperties
<1>2. Cardinality(1..Len(times)) = Len(times) /\ IsFiniteSet(1..Len(times))
  BY <1>1, FS_Interval, SMTT(30)
<1>3. Cardinality(old) \in Nat /\ Cardinality(old) <= Len(times)
  <2>1. old \subseteq 1..Len(times)
    BY <1>1
  <2>2. IsFiniteSet(old) /\ Cardinality(old) <= Cardinality(1..Len(times))
    BY <1>2, <2>1, FS_Subset
  <2> QED BY <1>2, <2>2, FS_CardinalityType
<1>4. Recent(times) = SubSeq(times, Cardinality(old) + 1, Len(times))
  BY DEF Recent
<1>5. \A i \in Cardinality(old) + 1 .. Len(times) : times[i] \in S
  BY <1>1, <1>3, ElementOfSeq
<1> HIDE DEF old
<1> QED BY <1>1, <1>3, <1>4, <1>5, SubSeqProperties

-----------------------------------------------------------------------------
(* The inductive invariant                                                   *)

Waiting(q) == q.binding \in Bindings /\ q.at \in 0..scene.time /\ q.id # NoName

Listed(s) == \E S : s \in Seq(S) /\ \A q \in S : Waiting(q)

\* What is queued is finite, and what a flush has listed was queued.
QueuesTyped ==
    /\ IsFiniteSet(queue)
    /\ \A q \in queue : Waiting(q)
    /\ DOMAIN flushing = Flushes
    /\ \A p \in Flushes : Listed(flushing[p])

\* Only what is bound is due, and it lies past what was handled.
DueIsBound == \A t \in Triggers : nextDue[t] # 0 => t.kind = "schedule" /\ published[t.workflow] # 0

\* What was started by a name is reserved.
RanIsClaimed == ran \subseteq claimed

\* The one run a flush waits for is of the record at hand, whose name is spent.
RunsHead(p) ==
    \A d \in running : d.by = <<"flush", p>> =>
        /\ \A x \in running : x.by = d.by => x = d
        /\ flushing[p] # <<>> /\ Spent(Head(flushing[p]))

FlushesRun == \A p \in Flushes : RunsHead(p)

DispatchInv ==
    /\ scene \in Scenes /\ TypeOK /\ QueuesTyped /\ DueIsBound /\ DueAfterCursor /\ RanIsClaimed
    /\ FlushesRun

-----------------------------------------------------------------------------
(* What the operations do to what they share                                 *)

Run(b, id, by) == [binding |-> b, id |-> id, by |-> by]

LEMMA RunIs ==
    ASSUME NEW b, NEW id, NEW by
    PROVE  Run(b, id, by).binding = b /\ Run(b, id, by).id = id /\ Run(b, id, by).by = by
BY DEF Run

\* Nothing is started: a schedule was marked, a name was spent or it threw.
NotStarted(b, id) ==
    /\ UNCHANGED <<running, claimed, ran>>
    /\ inflight' = inflight \/ (inflight' = inflight \ {b} /\ (b[1].kind = "schedule" => b \notin inflight))
    /\ \/ UNCHANGED errors /\ (b \notin Bound \/ b[1].kind = "schedule" \/ Key(b, id) \in claimed)
       \/ errors < scene.errors /\ errors' = errors + 1

\* A run is started, and its name reserved if it has one.
HasStarted(b, id, by) ==
    /\ b \in Bound /\ (b[1].kind = "schedule" => b \notin inflight)
    /\ inflight' = inflight \cup {b}
    /\ running' = running \cup {Run(b, id, by)}
    /\ \/ id = NoName /\ UNCHANGED <<claimed, ran>>
       \/ /\ id # NoName /\ Key(b, id) \notin claimed
          /\ claimed' = claimed \cup {Key(b, id)} /\ ran' = ran \cup {Key(b, id)}
    /\ UNCHANGED errors

LEMMA StartEffect ==
    ASSUME NEW b, NEW id, NEW by, Start(b, id, by)
    PROVE  NotStarted(b, id) \/ HasStarted(b, id, by)
<1> DEFINE overlap == b[1].kind = "schedule" /\ b \in inflight
           spent == id # NoName /\ Key(b, id) \in claimed
<1>1. CASE (b \notin Bound \/ overlap) /\ UNCHANGED started
  BY <1>1 DEF NotStarted, started
<1>2. CASE /\ b \in Bound /\ ~overlap /\ spent
           /\ inflight' = inflight \ {b}
           /\ UNCHANGED <<running, claimed, ran, errors>>
  BY <1>2 DEF NotStarted
<1>3. CASE /\ b \in Bound /\ ~overlap /\ errors < scene.errors
           /\ errors' = errors + 1
           /\ inflight' = inflight \ {b}
           /\ UNCHANGED <<running, claimed, ran>>
  BY <1>3 DEF NotStarted
<1>4. CASE /\ b \in Bound /\ ~overlap /\ ~spent
           /\ inflight' = inflight \cup {b}
           /\ running' = running \cup {Run(b, id, by)}
           /\ IF id = NoName THEN UNCHANGED <<claimed, ran>>
              ELSE claimed' = claimed \cup {Key(b, id)} /\ ran' = ran \cup {Key(b, id)}
           /\ UNCHANGED errors
  BY <1>4 DEF HasStarted
<1> QED BY <1>1, <1>2, <1>3, <1>4 DEF Start, Run, Key

\* A firing is queued under a name that is not there yet, or not at all.
Queued(b, id) ==
    /\ UNCHANGED started /\ drawn' \in {drawn, drawn + 1} /\ (drawn' # drawn => drawn < scene.draws)
    /\ \/ UNCHANGED queue
       \/ \E q : /\ q.binding = b /\ q.at = now /\ q.id # NoName
                 /\ queue' = queue \cup {q} /\ \A r \in queue : r.id # q.id

LEMMA DispatchEffect ==
    ASSUME NEW b, NEW id, NEW by, Dispatch(b, id, by)
    PROVE  \/ Queued(b, id)
           \/ UNCHANGED <<queue, drawn>> /\ (NotStarted(b, id) \/ HasStarted(b, id, by))
<1>1. CASE Enqueue(b, id) /\ UNCHANGED started
  <2> DEFINE name == IF id # NoName THEN id ELSE <<b[1].node, "drawn", drawn + 1>>
             item == [id |-> name, binding |-> b, at |-> now]
  <2>1. name # NoName
    <3>1. Len(<<b[1].node, "drawn", drawn + 1>>) = 3 /\ Len(<<>>) = 0
      OBVIOUS
    <3>2. <<b[1].node, "drawn", drawn + 1>> # <<>>
      BY <3>1
    <3> QED BY <3>2 DEF NoName
  <2>2. item.id = name /\ item.binding = b /\ item.at = now
    OBVIOUS
  <2>3. /\ id = NoName => drawn < scene.draws
        /\ drawn' = IF id = NoName THEN drawn + 1 ELSE drawn
        /\ queue' = IF Cardinality(queue) >= scene.room \/ \E q \in queue : q.id = name
                    THEN queue ELSE queue \cup {item}
    BY <1>1 DEF Enqueue
  <2> HIDE DEF name, item
  <2>4. drawn' \in {drawn, drawn + 1} /\ (drawn' # drawn => drawn < scene.draws)
    BY <2>3
  <2>5. UNCHANGED queue \/ (queue' = queue \cup {item} /\ \A r \in queue : r.id # item.id)
    BY <2>2, <2>3
  <2> QED BY <1>1, <2>1, <2>2, <2>4, <2>5 DEF Queued
<1>2. CASE Start(b, id, by) /\ UNCHANGED <<queue, drawn>>
  BY <1>2, StartEffect
<1> QED BY <1>1, <1>2 DEF Dispatch

LEMMA SameScene ==
    ASSUME UNCHANGED scene
    PROVE  /\ Triggers' = Triggers /\ Revisions' = Revisions /\ Slots' = Slots
           /\ Events' = Events /\ Flushes' = Flushes /\ Workflows' = Workflows
           /\ Bindings' = Bindings /\ Askers' = Askers /\ FiringRecords' = FiringRecords
           /\ OfKind("schedule")' = OfKind("schedule") /\ OfKind("webhook")' = OfKind("webhook")
           /\ OfKind("event")' = OfKind("event")
           /\ \A q : Waiting(q)' = Waiting(q)
           /\ \A s : Listed(s)' = Listed(s)
BY DEF Triggers, Revisions, Slots, Events, Flushes, Workflows, Bindings, Askers, OfKind, Waiting,
       Listed, FiringRecords, NoName

LEMMA Facts ==
    ASSUME DispatchInv
    PROVE  /\ now \in 0..scene.time /\ online \in BOOLEAN /\ now \in Nat
           /\ errors \in 0..scene.errors /\ drawn \in 0..scene.draws
           /\ published \in [Workflows -> 0..scene.revisions]
           /\ nextDue \in [Triggers -> Slots \cup {0}]
           /\ inflight \subseteq Bindings /\ forgotten \subseteq Bindings
           /\ deliveries \in [OfKind("webhook") -> Seq(0..scene.time)]
           /\ \A d \in running : d.binding \in Bindings /\ d.by \in Askers
           /\ firing \in [Events -> FiringRecords]
           /\ \A e \in Events : firing[e].visited \subseteq Bindings /\ firing[e].started \subseteq Triggers
           /\ cursor \in [OfKind("schedule") -> Slots \cup {0}]
           /\ IsFiniteSet(queue) /\ (\A q \in queue : Waiting(q))
           /\ DOMAIN flushing = Flushes /\ (\A p \in Flushes : Listed(flushing[p]))
           /\ ran \subseteq claimed
           /\ \A b \in Bindings : /\ b = <<b[1], b[2]>> /\ b[1] \in Triggers /\ b[2] \in Revisions
                                  /\ b[1].workflow \in Workflows
           /\ \A t \in Triggers : t.workflow \in Workflows
<1>1. \A e \in Events : firing[e] \in FiringRecords
  BY DEF DispatchInv, TypeOK
<1>2. \A e \in Events : firing[e].visited \subseteq Bindings /\ firing[e].started \subseteq Triggers
  BY <1>1 DEF FiringRecords
<1> QED BY <1>2, SceneBounds DEF DispatchInv, TypeOK, QueuesTyped, RanIsClaimed, Bindings, Workflows

\* What a step that starts something does to the runs.
StartTyped ==
    /\ inflight' \subseteq Bindings
    /\ \A d \in running' : d.binding \in Bindings /\ d.by \in Askers
    /\ ran' \subseteq claimed' /\ errors' \in 0..scene.errors

LEMMA StartsTyped ==
    ASSUME DispatchInv, NEW b \in Bindings, NEW id, NEW by \in Askers,
           NotStarted(b, id) \/ HasStarted(b, id, by)
    PROVE  StartTyped
<1>1. CASE NotStarted(b, id)
  <2>1. errors' \in 0..scene.errors
    BY <1>1, Facts, SceneBounds DEF NotStarted, DispatchInv
  <2> QED BY <1>1, <2>1, Facts DEF NotStarted, StartTyped
<1>2. CASE HasStarted(b, id, by)
  BY <1>2, Facts, RunIs DEF HasStarted, StartTyped
<1> QED BY <1>1, <1>2

LEMMA StandStill ==
    ASSUME DispatchInv, UNCHANGED started
    PROVE  StartTyped
BY Facts DEF StartTyped, started

LEMMA DispatchTyped ==
    ASSUME DispatchInv, NEW b \in Bindings, NEW id, NEW by \in Askers, Dispatch(b, id, by)
    PROVE  /\ StartTyped /\ drawn' \in 0..scene.draws
           /\ IsFiniteSet(queue') /\ \A q \in queue' : Waiting(q)
<1>1. CASE Queued(b, id)
  <2>1. drawn' \in 0..scene.draws
    BY <1>1, Facts, SceneBounds DEF Queued, DispatchInv
  <2>2. StartTyped
    BY <1>1, StandStill DEF Queued
  <2>3. IsFiniteSet(queue') /\ \A q \in queue' : Waiting(q)
    <3>1. CASE UNCHANGED queue
      BY <3>1, Facts
    <3>2. ASSUME NEW q, q.binding = b, q.at = now, q.id # NoName, queue' = queue \cup {q}
          PROVE  IsFiniteSet(queue') /\ \A x \in queue' : Waiting(x)
      BY <3>2, Facts, FS_AddElement DEF Waiting
    <3> QED BY <1>1, <3>1, <3>2 DEF Queued
  <2> QED BY <2>1, <2>2, <2>3
<1>2. CASE UNCHANGED <<queue, drawn>> /\ (NotStarted(b, id) \/ HasStarted(b, id, by))
  BY <1>2, Facts, StartsTyped
<1> QED BY <1>1, <1>2, DispatchEffect

\* A flush has done with the record at hand.
LEMMA HandledTyped ==
    ASSUME DispatchInv, NEW p \in Flushes, flushing[p] # <<>>, Handled(p)
    PROVE  /\ IsFiniteSet(queue') /\ queue' \subseteq queue
           /\ DOMAIN flushing' = Flushes /\ \A x \in Flushes : Listed(flushing'[x])
<1>1. Listed(Tail(flushing[p]))
  <2>1. PICK S : flushing[p] \in Seq(S) /\ \A x \in S : Waiting(x)
    BY Facts DEF Listed
  <2>2. Tail(flushing[p]) \in Seq(S)
    BY <2>1, HeadTailProperties
  <2> QED BY <2>1, <2>2 DEF Listed
<1>2. IsFiniteSet(queue') /\ queue' \subseteq queue
  BY Facts, FS_Subset DEF Handled
<1> QED BY <1>1, <1>2, Facts DEF Handled

LEMMA QueuesKept ==
    ASSUME UNCHANGED scene, IsFiniteSet(queue'), \A q \in queue' : Waiting(q),
           DOMAIN flushing' = Flushes, \A p \in Flushes : Listed(flushing'[p])
    PROVE  QueuesTyped'
BY SameScene DEF QueuesTyped

\* What a step that moves no due time and no cursor has to keep.
LEMMA RestIsTyped ==
    ASSUME DispatchInv, UNCHANGED <<scene, crashes>>, StartTyped,
           now' \in 0..scene.time, online' \in BOOLEAN, drawn' \in 0..scene.draws,
           published' \in [Workflows -> 0..scene.revisions],
           nextDue' \in [Triggers -> Slots \cup {0}],
           forgotten' \subseteq Bindings,
           deliveries' \in [OfKind("webhook") -> Seq(0..scene.time)],
           firing' \in [Events -> FiringRecords],
           cursor' \in [OfKind("schedule") -> Slots \cup {0}],
           IsFiniteSet(queue'), \A q \in queue' : Waiting(q),
           DOMAIN flushing' = Flushes, \A p \in Flushes : Listed(flushing'[p])
    PROVE  scene' \in Scenes /\ TypeOK' /\ QueuesTyped' /\ RanIsClaimed'
<1>1. TypeOK'
  BY SameScene DEF DispatchInv, TypeOK, QueueItems, Waiting, StartTyped, NoName
<1>2. QueuesTyped'
  BY QueuesKept
<1> QED BY <1>1, <1>2 DEF DispatchInv, RanIsClaimed, StartTyped

\* And what it keeps when it does move neither.
LEMMA DueIsKept ==
    ASSUME DispatchInv, UNCHANGED <<scene, published, nextDue, cursor>>
    PROVE  DueIsBound' /\ DueAfterCursor'
BY SameScene DEF DispatchInv, DueIsBound, DueAfterCursor, Bound

-----------------------------------------------------------------------------
(* What a flush waits for                                                    *)

LEMMA SpentStays ==
    ASSUME claimed \subseteq claimed'
    PROVE  \A q : Spent(q) => Spent(q)'
BY DEF Spent, Key

\* The runs that no flush started, and those that end, are no matter.
LEMMA RunsHeadKept ==
    ASSUME NEW p, RunsHead(p), flushing'[p] = flushing[p], claimed \subseteq claimed',
           \A d \in running' : d.by = <<"flush", p>> => d \in running
    PROVE  RunsHead(p)'
BY SpentStays DEF RunsHead

LEMMA NoFlushRuns ==
    ASSUME NEW p, \A d \in running' : d.by # <<"flush", p>>
    PROVE  RunsHead(p)'
BY DEF RunsHead

\* What somebody else starts.
LEMMA OthersRun ==
    ASSUME DispatchInv, UNCHANGED <<scene, flushing>>,
           NEW b, NEW id, NEW by, by[1] # "flush",
           Queued(b, id) \/ NotStarted(b, id) \/ HasStarted(b, id, by)
    PROVE  FlushesRun'
<1>1. claimed \subseteq claimed' /\ running' \subseteq running \cup {Run(b, id, by)}
  BY DEF Queued, NotStarted, HasStarted, started
<1>2. Flushes' = Flushes
  BY SameScene
<1>3. ASSUME NEW p \in Flushes PROVE RunsHead(p)'
  <2>1. Run(b, id, by).by # <<"flush", p>>
    BY RunIs
  <2>2. RunsHead(p) /\ flushing'[p] = flushing[p]
    BY DEF DispatchInv, FlushesRun
  <2> QED BY <1>1, <2>1, <2>2, RunsHeadKept
<1> QED BY <1>2, <1>3 DEF FlushesRun

\* What starts nothing and leaves the flushes alone.
LEMMA QuietRuns ==
    ASSUME DispatchInv, UNCHANGED <<scene, flushing, claimed>>, running' \subseteq running
    PROVE  FlushesRun'
<1>1. \A p \in Flushes : RunsHead(p)'
  <2> TAKE p \in Flushes
  <2>1. RunsHead(p) /\ flushing'[p] = flushing[p] /\ claimed \subseteq claimed'
    BY DEF DispatchInv, FlushesRun
  <2> QED BY <2>1, RunsHeadKept
<1> QED BY <1>1, SameScene DEF FlushesRun

-----------------------------------------------------------------------------
(* One lemma per kind of step                                                *)

\* A revision is bound: its schedules are due after what they have handled.
LEMMA RegisterKeeps ==
    ASSUME DispatchInv, NEW w \in Workflows, NEW rev \in Revisions, Register(w, rev)
    PROVE  DispatchInv'
<1>1. /\ published' = [published EXCEPT ![w] = rev]
      /\ nextDue' = [t \in Triggers |->
           IF t.workflow = w /\ t.kind = "schedule"
           THEN NextSlot(IF cursor[<<t, rev>>] # 0 THEN cursor[<<t, rev>>] ELSE now)
           ELSE nextDue[t]]
      /\ inflight' = inflight \ Unbound(w) /\ forgotten' = forgotten \cup Forgets(w)
      /\ firing' = [e \in Events |-> [firing[e] EXCEPT !.visited = @ \ Unbound(w)]]
      /\ UNCHANGED <<scene, now, online, deliveries, running, flushing, cursor, queue, claimed, drawn, errors, ran, crashes>>
  BY DEF Register
<1>2. \A t \in Triggers : t.kind = "schedule" => <<t, rev>> \in OfKind("schedule")
  BY DEF OfKind, Bindings
<1>3. scene \in Scenes /\ \A x \in Slots \cup {0} : x \in Nat
  BY SceneBounds DEF DispatchInv
<1>4. ASSUME NEW t \in Triggers, t.workflow = w, t.kind = "schedule"
      PROVE  /\ nextDue'[t] \in Slots \cup {0}
             /\ nextDue'[t] # 0 => nextDue'[t] > cursor[<<t, rev>>]
  <2> DEFINE from == IF cursor[<<t, rev>>] # 0 THEN cursor[<<t, rev>>] ELSE now
  <2>1. cursor[<<t, rev>>] \in Nat /\ from \in Nat /\ cursor[<<t, rev>>] <= from
    BY <1>2, <1>3, <1>4, Facts
  <2>2. nextDue'[t] = NextSlot(from)
    BY <1>1, <1>4
  <2>3. NextSlot(from) \in Slots \cup {0} /\ (NextSlot(from) # 0 => NextSlot(from) > from)
    BY <1>3, <2>1, NextSlotIsLater
  <2> HIDE DEF from
  <2> QED BY <1>3, <2>1, <2>2, <2>3
<1>5. scene' \in Scenes /\ TypeOK' /\ QueuesTyped' /\ RanIsClaimed'
  <2>1. published' \in [Workflows -> 0..scene.revisions]
    BY <1>1, Facts, SceneBounds DEF Revisions, DispatchInv
  <2>2. nextDue' \in [Triggers -> Slots \cup {0}]
    BY <1>1, <1>4, Facts
  <2>3. firing' \in [Events -> FiringRecords]
    <3>1. \A e \in Events : [firing[e] EXCEPT !.visited = @ \ Unbound(w)] \in FiringRecords
      BY Facts DEF FiringRecords
    <3> QED BY <1>1, <3>1
  <2>4. StartTyped
    BY <1>1, Facts DEF StartTyped
  <2>5. forgotten' \subseteq Bindings
    BY <1>1, Facts DEF Forgets, Unbound
  <2> QED BY <1>1, <2>1, <2>2, <2>3, <2>4, <2>5, Facts, RestIsTyped
<1>6. DueIsBound'
  <2>1. rev # 0
    BY SceneBounds DEF Revisions, DispatchInv
  <2> QED BY <1>1, <2>1, Facts, SameScene DEF DispatchInv, DueIsBound
<1>7. DueAfterCursor'
  <2>1. ASSUME NEW b \in OfKind("schedule"), b \in Bound', nextDue'[b[1]] # 0
        PROVE  nextDue'[b[1]] > cursor[b]
    <3>1. b \in Bindings /\ b[1].kind = "schedule" /\ published'[b[1].workflow] = b[2]
      BY <1>1, <2>1, SameScene DEF OfKind, Bound
    <3>2. CASE b[1].workflow = w
      BY <1>1, <1>4, <2>1, <3>1, <3>2, Facts
    <3>3. CASE b[1].workflow # w
      BY <1>1, <2>1, <3>1, <3>3, Facts DEF DispatchInv, DueAfterCursor, Bound
    <3> QED BY <3>2, <3>3
  <2> QED BY <1>1, <2>1, SameScene DEF DueAfterCursor
<1> QED BY <1>1, <1>5, <1>6, <1>7, QuietRuns DEF DispatchInv

\* What is unbound is due no more.
LEMMA UnregisterKeeps ==
    ASSUME DispatchInv, NEW w \in Workflows, Unregister(w)
    PROVE  DispatchInv'
<1>1. /\ published' = [published EXCEPT ![w] = 0]
      /\ nextDue' = [t \in Triggers |-> IF t.workflow = w THEN 0 ELSE nextDue[t]]
      /\ inflight' = inflight \ Unbound(w) /\ forgotten' = forgotten \cup Forgets(w)
      /\ UNCHANGED <<scene, now, online, deliveries, running, firing, flushing, cursor, queue, claimed, drawn, errors, ran, crashes>>
  BY DEF Unregister
<1>2. scene' \in Scenes /\ TypeOK' /\ QueuesTyped' /\ RanIsClaimed'
  <2>1. 0 \in 0..scene.revisions
    BY SceneBounds DEF DispatchInv
  <2>2. StartTyped
    BY <1>1, Facts DEF StartTyped
  <2>3. forgotten' \subseteq Bindings
    BY <1>1, Facts DEF Forgets, Unbound
  <2> QED BY <1>1, <2>1, <2>2, <2>3, Facts, RestIsTyped
<1>3. DueIsBound'
  BY <1>1, Facts, SameScene DEF DispatchInv, DueIsBound
<1>4. DueAfterCursor'
  BY <1>1, Facts, SameScene DEF DispatchInv, DueAfterCursor, Bound, OfKind
<1> QED BY <1>1, <1>2, <1>3, <1>4, QuietRuns DEF DispatchInv

\* Where a tick of a schedule leaves it.
LEMMA TickMoves ==
    ASSUME DispatchInv, NEW t \in Triggers, Tick(t)
    PROVE  LET b == <<t, published[t.workflow]>>
               last == Latest({s \in Slots : s <= now})
           IN  /\ b \in Bindings /\ b \in Bound /\ b \in OfKind("schedule")
               /\ last \in Slots /\ last <= now /\ cursor[b] < last
               /\ cursor' = [cursor EXCEPT ![b] = last]
               /\ nextDue' = [nextDue EXCEPT ![t] = NextSlot(now)]
<1> DEFINE b == <<t, published[t.workflow]>>
           last == Latest({s \in Slots : s <= now})
<1>1. t.kind = "schedule" /\ nextDue[t] # 0 /\ nextDue[t] <= now /\ nextDue[t] \in Slots
  BY Facts DEF Tick
<1>2. published[t.workflow] \in Revisions
  BY <1>1, Facts, SceneBounds DEF DispatchInv, DueIsBound, Revisions
<1>3. b \in Bindings /\ b \in Bound /\ b \in OfKind("schedule")
  BY <1>1, <1>2 DEF Bindings, Bound, OfKind
<1>4. cursor[b] < nextDue[t]
  BY <1>1, <1>3 DEF DispatchInv, DueAfterCursor
<1>5. last \in Slots /\ nextDue[t] <= last /\ last <= now
  BY <1>1, Facts, LatestIsLast DEF DispatchInv
<1>6. cursor[b] < last
  <2>1. cursor[b] \in Nat /\ nextDue[t] \in Nat /\ last \in Nat
    <3>1. \A x \in Slots \cup {0} : x \in Nat
      BY SceneBounds DEF DispatchInv
    <3>2. cursor[b] \in Slots \cup {0}
      BY <1>3, Facts
    <3> QED BY <1>1, <1>5, <3>1, <3>2
  <2> HIDE DEF b, last
  <2> QED BY <1>4, <1>5, <2>1
<1>7. cursor' = [cursor EXCEPT ![b] = last] /\ nextDue' = [nextDue EXCEPT ![t] = NextSlot(now)]
  BY DEF Tick
<1> QED BY <1>3, <1>5, <1>6, <1>7

LEMMA TickKeeps ==
    ASSUME DispatchInv, NEW t \in Triggers, Tick(t)
    PROVE  DispatchInv'
<1> DEFINE b == <<t, published[t.workflow]>>
           last == Latest({s \in Slots : s <= now})
<1>1. /\ b \in Bindings /\ b \in Bound /\ b \in OfKind("schedule")
      /\ last \in Slots /\ last <= now /\ cursor[b] < last
      /\ cursor' = [cursor EXCEPT ![b] = last]
      /\ nextDue' = [nextDue EXCEPT ![t] = NextSlot(now)]
  BY TickMoves
<1>2. UNCHANGED <<started, queue, drawn>> \/ Dispatch(b, <<t.node, last>>, <<"tick", now>>)
  BY DEF Tick
<1>3. UNCHANGED <<scene, now, online, published, deliveries, firing, flushing, forgotten, crashes>>
  BY DEF Tick
<1>4. b = <<t, published[t.workflow]>> /\ b[1] = t /\ t.kind = "schedule"
  BY <1>1 DEF OfKind
<1> HIDE DEF b, last
<1>5. <<"tick", now>> \in Askers
  BY Facts DEF Askers
<1>6. NextSlot(now) \in Slots \cup {0} /\ (NextSlot(now) # 0 => NextSlot(now) > now)
  BY Facts, NextSlotIsLater DEF DispatchInv
<1>7. scene' \in Scenes /\ TypeOK' /\ QueuesTyped' /\ RanIsClaimed'
  <2>1. /\ StartTyped /\ drawn' \in 0..scene.draws
        /\ IsFiniteSet(queue') /\ \A q \in queue' : Waiting(q)
    <3>1. CASE UNCHANGED <<started, queue, drawn>>
      BY <3>1, Facts, StandStill
    <3>2. CASE Dispatch(b, <<t.node, last>>, <<"tick", now>>)
      BY <1>1, <1>5, <3>2, DispatchTyped
    <3> QED BY <1>2, <3>1, <3>2
  <2>2. nextDue' \in [Triggers -> Slots \cup {0}] /\ cursor' \in [OfKind("schedule") -> Slots \cup {0}]
    BY <1>1, <1>6, Facts
  <2> QED BY <1>3, <2>1, <2>2, Facts, RestIsTyped
<1>8. DueIsBound'
  <2>1. published[t.workflow] # 0
    BY <1>1, <1>4, SceneBounds DEF Bindings, Revisions, DispatchInv
  <2> QED BY <1>1, <1>3, <1>4, <2>1, Facts, SameScene DEF DispatchInv, DueIsBound
<1>9. DueAfterCursor'
  <2>1. ASSUME NEW c \in OfKind("schedule"), c \in Bound, nextDue'[c[1]] # 0
        PROVE  nextDue'[c[1]] > cursor'[c]
    <3>1. c \in Bindings /\ published[c[1].workflow] = c[2]
      BY <2>1 DEF Bound
    <3>2. last \in Nat
      BY <1>1, SceneBounds DEF DispatchInv
    <3>3. CASE c = b
      <4>1. c[1] = t /\ nextDue'[t] = NextSlot(now) /\ cursor'[c] = last
        BY <1>1, <1>4, <3>3, Facts
      <4>2. NextSlot(now) > now
        BY <1>6, <2>1, <4>1
      <4>3. NextSlot(now) \in Nat /\ now \in Nat
        BY <1>6, Facts, SceneBounds DEF DispatchInv
      <4> QED BY <1>1, <3>2, <4>1, <4>2, <4>3
    <3>4. CASE c # b
      <4>1. c[1] # t
        BY <1>4, <3>1, <3>4, Facts
      <4> QED BY <1>1, <2>1, <3>4, <4>1, Facts DEF DispatchInv, DueAfterCursor
    <3> QED BY <3>3, <3>4
  <2>2. Bound' = Bound
    BY <1>3, SameScene DEF Bound
  <2> QED BY <1>3, <2>1, <2>2, SameScene DEF DueAfterCursor
<1>10. FlushesRun'
  <2>1. CASE UNCHANGED started
    BY <1>3, <2>1, QuietRuns DEF started
  <2>2. CASE Dispatch(b, <<t.node, last>>, <<"tick", now>>)
    <3> DEFINE by == <<"tick", now>>
    <3>1. by[1] # "flush" /\ Dispatch(b, <<t.node, last>>, by)
      BY <2>2
    <3> HIDE DEF by
    <3> QED BY <1>3, <3>1, DispatchEffect, OthersRun
  <2> QED BY <1>2, <2>1, <2>2
<1> QED BY <1>7, <1>8, <1>9, <1>10 DEF DispatchInv

\* The firings that are not of a schedule: an event visits one binding more, a
\* delivery arrives.
LEMMA FireKeeps ==
    ASSUME DispatchInv,
           \/ \E e \in Events : FireNext(e)
           \/ \E b \in OfKind("webhook"), d \in scene.deliveries : Webhook(b, d)
    PROVE  DispatchInv'
<1>0. ASSUME UNCHANGED <<scene, flushing>>, NEW b, NEW id, NEW by, by[1] # "flush", Dispatch(b, id, by)
      PROVE  FlushesRun'
  BY <1>0, DispatchEffect, OthersRun
<1>1. ASSUME NEW e \in Events, FireNext(e)
      PROVE  DispatchInv'
  <2> DEFINE by == <<"fire", e>>
  <2>1. PICK b \in (Bound \cap OfKind("event")) \ firing[e].visited :
          /\ firing' = [firing EXCEPT
               ![e].visited = @ \cup {b},
               ![e].started = IF running' = running THEN @ ELSE @ \cup {b[1]}]
          /\ Dispatch(b, Named(b, e), by)
    BY <1>1 DEF FireNext
  <2>2. UNCHANGED <<scene, now, online, published, nextDue, deliveries, flushing, cursor, forgotten, crashes>>
    BY <1>1 DEF FireNext
  <2>3. b \in Bindings /\ by \in Askers /\ by[1] # "flush"
    BY DEF Bound, Askers
  <2> HIDE DEF by
  <2>4. firing' \in [Events -> FiringRecords]
    <3>1. b[1] \in Triggers /\ firing[e] \in FiringRecords
      BY <2>3, Facts
    <3>2. [firing[e] EXCEPT !.visited = @ \cup {b},
                            !.started = IF running' = running THEN @ ELSE @ \cup {b[1]}] \in FiringRecords
      BY <2>3, <3>1 DEF FiringRecords
    <3> QED BY <2>1, <3>2, Facts
  <2>5. scene' \in Scenes /\ TypeOK' /\ QueuesTyped' /\ RanIsClaimed'
    BY <2>1, <2>2, <2>3, <2>4, Facts, DispatchTyped, RestIsTyped
  <2>6. FlushesRun'
    BY <1>0, <2>1, <2>2, <2>3
  <2> QED BY <2>2, <2>5, <2>6, DueIsKept DEF DispatchInv
<1>2. ASSUME NEW b \in OfKind("webhook"), NEW d \in scene.deliveries, Webhook(b, d)
      PROVE  DispatchInv'
  <2> DEFINE by == <<"hook", d>>
  <2>1. /\ Dispatch(b, <<b[1].node, d>>, by)
        /\ deliveries' = [deliveries EXCEPT ![b] = Append(Recent(deliveries[b]), now)]
        /\ UNCHANGED <<scene, now, online, published, nextDue, firing, flushing, cursor, forgotten, crashes>>
    BY <1>2 DEF Webhook
  <2>2. b \in Bindings /\ by \in Askers /\ by[1] # "flush"
    BY DEF OfKind, Askers
  <2> HIDE DEF by
  <2>3. Append(Recent(deliveries[b]), now) \in Seq(0..scene.time)
    BY Facts, RecentIsPart, AppendProperties
  <2>4. deliveries' \in [OfKind("webhook") -> Seq(0..scene.time)]
    BY <2>1, <2>3, Facts
  <2>5. scene' \in Scenes /\ TypeOK' /\ QueuesTyped' /\ RanIsClaimed'
    BY <2>1, <2>2, <2>4, Facts, DispatchTyped, RestIsTyped
  <2>6. FlushesRun'
    BY <1>0, <2>1, <2>2
  <2> QED BY <2>1, <2>5, <2>6, DueIsKept DEF DispatchInv
<1> QED BY <1>1, <1>2

\* A list of the queue holds what was queued.
LEMMA ListingHolds ==
    ASSUME IsFiniteSet(queue), NEW s \in Listing(queue)
    PROVE  s \in Seq(queue)
<1>1. Cardinality(queue) \in Nat /\ s \in [1..Cardinality(queue) -> queue]
  BY FS_CardinalityType DEF Listing
<1> QED BY <1>1

\* A flush lists the queue.
LEMMA ListKeeps ==
    ASSUME DispatchInv, NEW p \in Flushes, FlushOffline(p)
    PROVE  DispatchInv'
<1>1. PICK s \in Listing(queue) : flushing' = [flushing EXCEPT ![p] = s]
  BY DEF FlushOffline
<1>2. UNCHANGED <<scene, now, online, published, nextDue, deliveries, firing, started,
                  cursor, queue, drawn, forgotten, crashes>>
      /\ \A d \in running : d.by # <<"flush", p>>
  BY DEF FlushOffline, Awaited
<1>3. Listed(s)
  BY Facts, ListingHolds DEF Listed
<1>4. DOMAIN flushing' = Flushes /\ \A x \in Flushes : Listed(flushing'[x])
  BY <1>1, <1>3, Facts
<1>5. scene' \in Scenes /\ TypeOK' /\ QueuesTyped' /\ RanIsClaimed'
  BY <1>2, <1>4, Facts, StandStill, RestIsTyped
<1>6. FlushesRun'
  <2>1. ASSUME NEW x \in Flushes PROVE RunsHead(x)'
    <3>1. CASE x = p
      BY <1>2, <3>1, NoFlushRuns DEF started
    <3>2. CASE x # p
      <4>1. RunsHead(x) /\ flushing'[x] = flushing[x] /\ running' = running /\ claimed' = claimed
        BY <1>1, <1>2, <3>2, Facts DEF DispatchInv, FlushesRun, started
      <4> QED BY <4>1, RunsHeadKept
    <3> QED BY <3>1, <3>2
  <2> QED BY <1>2, <2>1, SameScene DEF FlushesRun
<1> QED BY <1>2, <1>5, <1>6, DueIsKept DEF DispatchInv

\* What a flush does with the record at hand.
LEMMA FlushEffect ==
    ASSUME DispatchInv, NEW p \in Flushes, FlushNext(p)
    PROVE  LET h == Head(flushing[p])
           IN  /\ flushing[p] # <<>> /\ Waiting(h)
               /\ \A d \in running : d.by # <<"flush", p>>
               /\ \/ Dropped(h) /\ UNCHANGED started
                  \/ NotStarted(h.binding, h.id) \/ HasStarted(h.binding, h.id, <<"flush", p>>)
               /\ IF running' = running THEN Handled(p) ELSE UNCHANGED <<queue, flushing>>
               /\ UNCHANGED <<scene, now, online, published, nextDue, deliveries, firing, cursor, drawn, forgotten, crashes>>
<1> DEFINE h == Head(flushing[p])
           by == <<"flush", p>>
<1>1. /\ flushing[p] # <<>>
      /\ \A d \in running : d.by # by
      /\ IF Dropped(h) THEN UNCHANGED started ELSE Start(h.binding, h.id, by)
      /\ IF running' = running THEN Handled(p) ELSE UNCHANGED <<queue, flushing>>
      /\ UNCHANGED <<scene, now, online, published, nextDue, deliveries, firing, cursor, drawn, forgotten, crashes>>
  BY DEF FlushNext, Awaited
<1>2. Waiting(h)
  <2>1. PICK S : flushing[p] \in Seq(S) /\ \A x \in S : Waiting(x)
    BY Facts DEF Listed
  <2>2. Head(flushing[p]) \in S
    BY <1>1, <2>1, HeadTailProperties
  <2> QED BY <2>1, <2>2
<1>3. Start(h.binding, h.id, by) => NotStarted(h.binding, h.id) \/ HasStarted(h.binding, h.id, by)
  BY StartEffect
<1> HIDE DEF h, by
<1>4. \/ Dropped(h) /\ UNCHANGED started
      \/ NotStarted(h.binding, h.id) \/ HasStarted(h.binding, h.id, by)
  BY <1>1, <1>3
<1> QED BY <1>1, <1>2, <1>4 DEF h, by

LEMMA FlushKeeps ==
    ASSUME DispatchInv, NEW p \in Flushes, FlushNext(p)
    PROVE  DispatchInv'
<1> DEFINE h == Head(flushing[p])
           by == <<"flush", p>>
<1>1. /\ flushing[p] # <<>> /\ Waiting(h)
      /\ \A d \in running : d.by # by
      /\ UNCHANGED started \/ NotStarted(h.binding, h.id) \/ HasStarted(h.binding, h.id, by)
      /\ IF running' = running THEN Handled(p) ELSE UNCHANGED <<queue, flushing>>
      /\ UNCHANGED <<scene, now, online, published, nextDue, deliveries, firing, cursor, drawn, forgotten, crashes>>
  BY FlushEffect
<1>2. h.binding \in Bindings /\ by \in Askers
  BY <1>1 DEF Waiting, Askers
<1>3. Flushes' = Flushes
  BY <1>1, SameScene
<1> HIDE DEF h
<1>4. StartTyped
  BY <1>1, <1>2, StandStill, StartsTyped
<1>5. /\ IsFiniteSet(queue') /\ queue' \subseteq queue
      /\ DOMAIN flushing' = Flushes /\ \A x \in Flushes : Listed(flushing'[x])
  <2>1. CASE Handled(p)
    BY <1>1, <2>1, HandledTyped
  <2>2. CASE UNCHANGED <<queue, flushing>>
    BY <2>2, Facts
  <2> QED BY <1>1, <2>1, <2>2
<1>6. scene' \in Scenes /\ TypeOK' /\ QueuesTyped' /\ RanIsClaimed'
  BY <1>1, <1>4, <1>5, Facts, RestIsTyped
<1>7. FlushesRun'
  <2>1. claimed \subseteq claimed' /\ (running' = running \/ running' = running \cup {Run(h.binding, h.id, by)})
    BY <1>1 DEF NotStarted, HasStarted, started
  <2>2. ASSUME NEW x \in Flushes, x # p PROVE RunsHead(x)'
    <3>1. RunsHead(x) /\ flushing'[x] = flushing[x]
      BY <1>1, <2>2, Facts DEF DispatchInv, FlushesRun, Handled
    <3>2. \A d \in running' : d.by = <<"flush", x>> => d \in running
      BY <2>1, <2>2, RunIs
    <3> QED BY <2>1, <3>1, <3>2, RunsHeadKept
  <2>3. CASE running' = running
    BY <1>1, <1>3, <2>2, <2>3, NoFlushRuns DEF FlushesRun
  <2>4. CASE running' # running
    <3>1. UNCHANGED flushing /\ HasStarted(h.binding, h.id, by)
      BY <1>1, <2>4 DEF NotStarted, started
    <3>2. Spent(h)'
      <4>1. h' = h
        BY <3>1 DEF h
      <4>2. claimed' = claimed \cup {Key(h.binding, h.id)}
        BY <1>1, <3>1 DEF Waiting, HasStarted
      <4> QED BY <4>1, <4>2 DEF Spent, Key
    <3>3. \A d \in running' : d.by = by => d = Run(h.binding, h.id, by)
      BY <1>1, <2>1
    <3>4. RunsHead(p)'
      BY <1>1, <3>1, <3>2, <3>3 DEF RunsHead, h
    <3> QED BY <1>3, <2>2, <3>4 DEF FlushesRun
  <2> QED BY <2>3, <2>4
<1> QED BY <1>1, <1>6, <1>7, DueIsKept DEF DispatchInv

\* A run ends: what a flush ran was at hand.
LEMMA EndKeeps ==
    ASSUME DispatchInv, NEW d \in running, RunEnds(d)
    PROVE  DispatchInv'
<1>1. /\ running' = running \ {d} /\ inflight' = inflight \ {d.binding} /\ forgotten' \subseteq forgotten
      /\ \/ \E p \in Flushes : d.by = <<"flush", p>> /\ Handled(p)
         \/ d.by[1] # "flush" /\ UNCHANGED <<queue, flushing>>
      /\ UNCHANGED <<scene, now, online, published, nextDue, deliveries, firing, cursor, claimed, drawn, errors, ran, crashes>>
  BY DEF RunEnds
<1>2. StartTyped
  BY <1>1, Facts DEF StartTyped
<1>3. ASSUME NEW p \in Flushes, d.by = <<"flush", p>>, Handled(p)
      PROVE  /\ IsFiniteSet(queue') /\ queue' \subseteq queue
             /\ DOMAIN flushing' = Flushes /\ \A x \in Flushes : Listed(flushing'[x])
             /\ FlushesRun'
  <2>1. RunsHead(p)
    BY DEF DispatchInv, FlushesRun
  <2>2. flushing[p] # <<>> /\ \A x \in running : x.by = <<"flush", p>> => x = d
    BY <1>3, <2>1 DEF RunsHead
  <2>3. /\ IsFiniteSet(queue') /\ queue' \subseteq queue
        /\ DOMAIN flushing' = Flushes /\ \A x \in Flushes : Listed(flushing'[x])
    BY <1>3, <2>2, HandledTyped
  <2>4. ASSUME NEW x \in Flushes PROVE RunsHead(x)'
    <3>1. CASE x = p
      BY <1>1, <2>2, <3>1, NoFlushRuns
    <3>2. CASE x # p
      <4>1. RunsHead(x) /\ flushing'[x] = flushing[x] /\ claimed \subseteq claimed'
        BY <1>1, <1>3, <3>2, Facts DEF DispatchInv, FlushesRun, Handled
      <4> QED BY <1>1, <4>1, RunsHeadKept
    <3> QED BY <3>1, <3>2
  <2> QED BY <1>1, <2>3, <2>4, SameScene DEF FlushesRun
<1>4. CASE UNCHANGED <<queue, flushing>>
  <2>1. FlushesRun'
    BY <1>1, <1>4, QuietRuns
  <2>2. scene' \in Scenes /\ TypeOK' /\ QueuesTyped' /\ RanIsClaimed'
    BY <1>1, <1>2, <1>4, Facts, RestIsTyped
  <2> QED BY <1>1, <2>1, <2>2, DueIsKept DEF DispatchInv
<1>5. ASSUME NEW p \in Flushes, d.by = <<"flush", p>>, Handled(p) PROVE DispatchInv'
  <2>1. /\ IsFiniteSet(queue') /\ queue' \subseteq queue
        /\ DOMAIN flushing' = Flushes /\ \A x \in Flushes : Listed(flushing'[x])
        /\ FlushesRun'
    BY <1>3, <1>5
  <2>2. scene' \in Scenes /\ TypeOK' /\ QueuesTyped' /\ RanIsClaimed'
    BY <1>1, <1>2, <2>1, Facts, RestIsTyped
  <2> QED BY <1>1, <2>1, <2>2, DueIsKept DEF DispatchInv
<1> QED BY <1>1, <1>4, <1>5

\* The steps that fire nothing.
LEMMA QuietKeeps ==
    ASSUME DispatchInv,
           (\E e \in Events : FireEvent(e) \/ FireDone(e)) \/ Clock \/ Connection \/ UNCHANGED vars
    PROVE  DispatchInv'
<1>0. now \in 0..scene.time /\ now \in Nat /\ scene.time \in Nat /\ online \in BOOLEAN
  BY Facts, SceneBounds DEF DispatchInv
<1>1. UNCHANGED <<scene, published, nextDue, cursor, crashes, deliveries, flushing, started, queue, drawn, forgotten>>
  BY DEF FireEvent, FireDone, Clock, Connection, vars, memory, started
<1>2. now' \in 0..scene.time /\ online' \in BOOLEAN
  <2>1. CASE Clock
    BY <1>0, <2>1 DEF Clock
  <2>2. CASE Connection
    BY <1>0, <2>2 DEF Connection
  <2>3. CASE UNCHANGED <<now, online>>
    BY <1>0, <2>3
  <2>4. CASE \E e \in Events : FireEvent(e) \/ FireDone(e)
    BY <2>3, <2>4 DEF FireEvent, FireDone
  <2> QED BY <2>1, <2>2, <2>3, <2>4 DEF vars
<1>3. firing' \in [Events -> FiringRecords]
  <2>1. CASE UNCHANGED firing
    BY <2>1, Facts
  <2>2. ASSUME NEW e \in Events, FireEvent(e) \/ FireDone(e)
        PROVE  firing' \in [Events -> FiringRecords]
    <3>1. FiringDone \in FiringRecords /\ [firing[e] EXCEPT !.phase = "open"] \in FiringRecords
      BY Facts DEF FiringDone, FiringRecords
    <3>2. \/ firing' = [firing EXCEPT ![e] = FiringDone]
          \/ firing' = [firing EXCEPT ![e] = [firing[e] EXCEPT !.phase = "open"]]
      BY <2>2 DEF FireEvent, FireDone
    <3> QED BY <3>1, <3>2, Facts
  <2>3. CASE Clock \/ Connection \/ UNCHANGED vars
    BY <2>1, <2>3 DEF Clock, Connection, vars, memory
  <2> QED BY <2>2, <2>3
<1>4. scene' \in Scenes /\ TypeOK' /\ QueuesTyped' /\ RanIsClaimed'
  BY <1>1, <1>2, <1>3, Facts, StandStill, RestIsTyped
<1>5. FlushesRun'
  BY <1>1, QuietRuns DEF started
<1> QED BY <1>1, <1>4, <1>5, DueIsKept DEF DispatchInv

\* Only what SQLite holds survives: nothing is due, running or listed.
LEMMA CrashKeeps ==
    ASSUME DispatchInv, Crash
    PROVE  DispatchInv'
<1>1. /\ crashes' = crashes + 1 /\ crashes < scene.crashes
      /\ published' = NothingPublished /\ nextDue' = NothingDue /\ deliveries' = NoDeliveries
      /\ inflight' = {} /\ running' = {} /\ flushing' = [p \in Flushes |-> <<>>]
      /\ firing' = [e \in Events |-> IF firing[e].phase = "open"
                                     THEN FiringDone ELSE firing[e]]
      /\ forgotten' = {}
      /\ UNCHANGED <<scene, now, online, cursor, queue, claimed, drawn, errors, ran>>
  BY DEF Crash
<1>2. 0 \in 0..scene.revisions /\ crashes' \in 0..scene.crashes
  BY <1>1, SceneBounds DEF DispatchInv, TypeOK
<1>3. /\ published' \in [Workflows -> 0..scene.revisions]
      /\ nextDue' \in [Triggers -> Slots \cup {0}]
      /\ deliveries' \in [OfKind("webhook") -> Seq(0..scene.time)]
      /\ firing' \in [Events -> FiringRecords]
  BY <1>1, <1>2, Facts, EmptySeq
     DEF NothingPublished, NothingDue, NoDeliveries, FiringDone, FiringRecords
<1>4. TypeOK'
  BY <1>1, <1>2, <1>3, Facts, SameScene DEF TypeOK, QueueItems, Waiting, NoName
<1>5. QueuesTyped'
  <2>1. Listed(<<>>)
    <3>1. <<>> \in Seq(queue) /\ \A q \in queue : Waiting(q)
      BY EmptySeq, Facts
    <3> QED BY <3>1 DEF Listed
  <2>2. \A p \in Flushes : Listed(flushing'[p])
    BY <1>1, <2>1
  <2>3. DOMAIN flushing' = Flushes /\ IsFiniteSet(queue') /\ \A q \in queue' : Waiting(q)
    BY <1>1, Facts
  <2>4. UNCHANGED scene
    BY <1>1
  <2> QED BY <2>2, <2>3, <2>4, QueuesKept
<1>6. DueIsBound' /\ DueAfterCursor'
  <2>1. \A t \in Triggers : nextDue'[t] = 0
    BY <1>1 DEF NothingDue
  <2>2. \A b \in OfKind("schedule") : b[1] \in Triggers
    BY Facts DEF OfKind
  <2>3. UNCHANGED scene
    BY <1>1
  <2> QED BY <2>1, <2>2, <2>3, SameScene DEF DueIsBound, DueAfterCursor
<1>7. FlushesRun'
  BY <1>1 DEF FlushesRun, RunsHead
<1> QED BY <1>1, <1>4, <1>5, <1>6, <1>7, Facts DEF DispatchInv, RanIsClaimed

LEMMA InitDispatch == Init => DispatchInv
<1> SUFFICES ASSUME Init PROVE DispatchInv
  OBVIOUS
<1>1. scene \in Scenes
  BY DEF Init
<1>2. /\ 0 \in 0..scene.revisions /\ 0 \in 0..scene.crashes /\ 0 \in 0..scene.time
      /\ 0 \in 0..scene.errors /\ 0 \in 0..scene.draws
  BY <1>1, SceneBounds
<1>3. TypeOK
  BY <1>2, EmptySeq DEF Init, TypeOK, QueueItems, NothingPublished, NothingDue, NoDeliveries, FiringRecords
<1>4. QueuesTyped
  <2>1. Listed(<<>>)
    <3>1. <<>> \in Seq(queue) /\ \A q \in queue : Waiting(q)
      BY EmptySeq DEF Init
    <3> QED BY <3>1 DEF Listed
  <2> QED BY <2>1, FS_EmptySet DEF Init, QueuesTyped
<1>5. DueIsBound /\ DueAfterCursor
  BY DEF Init, NothingDue, DueIsBound, DueAfterCursor, OfKind, Bindings
<1> QED BY <1>1, <1>3, <1>4, <1>5 DEF Init, DispatchInv, RanIsClaimed, FlushesRun, RunsHead

LEMMA NextDispatch == DispatchInv /\ [Next]_vars => DispatchInv'
BY RegisterKeeps, UnregisterKeeps, TickKeeps, FireKeeps, ListKeeps, FlushKeeps, EndKeeps, QuietKeeps,
   CrashKeeps DEF Next

LEMMA DispatchHolds == Spec => []DispatchInv
BY InitDispatch, NextDispatch, PTL DEF Spec

-----------------------------------------------------------------------------
(* Nothing is fired twice                                                    *)

\* The runs a step starts.
NewRuns == running' \ running

\* What is started under a name was never started under it before.
LEMMA StartIsNew ==
    ASSUME DispatchInv, NEW b, NEW id, NEW by,
           Queued(b, id) \/ NotStarted(b, id) \/ HasStarted(b, id, by),
           NEW d \in NewRuns
    PROVE  /\ d.binding = b /\ d.id = id /\ d.by = by
           /\ d.id # NoName => <<d.binding[1].workflow, d.id>> \notin ran
<1>1. HasStarted(b, id, by) /\ d = Run(b, id, by)
  BY DEF NewRuns, Queued, NotStarted, HasStarted, started
<1>2. d.binding = b /\ d.id = id /\ d.by = by
  BY <1>1, RunIs
<1>3. id # NoName => Key(b, id) \notin ran
  BY <1>1, Facts DEF HasStarted
<1> QED BY <1>2, <1>3 DEF Key

\* What a step may start, and how it moves the cursors.
FiresForward ==
    /\ \A d \in NewRuns : d.id # NoName => <<d.binding[1].workflow, d.id>> \notin ran
    /\ \A b \in OfKind("schedule") : cursor'[b] >= cursor[b]
    /\ \A d \in NewRuns : d.by[1] = "tick" =>
         d.id[2] > cursor[d.binding] /\ d.id[2] <= cursor'[d.binding]

LEMMA CursorsAreNumbers ==
    ASSUME DispatchInv
    PROVE  \A b \in OfKind("schedule") : cursor[b] \in Nat
<1>1. cursor \in [OfKind("schedule") -> Slots \cup {0}]
  BY Facts
<1>2. Slots \cup {0} \subseteq Nat
  BY SceneBounds DEF DispatchInv
<1> QED BY <1>1, <1>2

LEMMA StepsFireForward == DispatchInv /\ [Next]_vars => FiresForward
<1> SUFFICES ASSUME DispatchInv, [Next]_vars PROVE FiresForward
  OBVIOUS
<1>1. ASSUME NEW t \in Triggers, Tick(t) PROVE FiresForward
  <2> DEFINE b == <<t, published[t.workflow]>>
             last == Latest({s \in Slots : s <= now})
             id == <<t.node, last>>
  <2>1. /\ b \in Bindings /\ b \in OfKind("schedule") /\ last \in Slots
        /\ cursor[b] < last /\ cursor' = [cursor EXCEPT ![b] = last]
    BY <1>1, TickMoves
  <2>2. UNCHANGED running \/ Dispatch(b, id, <<"tick", now>>)
    BY <1>1 DEF Tick, started
  <2>3. id[2] = last
    OBVIOUS
  <2> HIDE DEF b, last, id
  <2>4. cursor[b] \in Nat /\ last \in Nat
    BY <2>1, CursorsAreNumbers, SceneBounds DEF DispatchInv
  <2>5. cursor'[b] = last /\ \A c \in OfKind("schedule") : c # b => cursor'[c] = cursor[c]
    BY <2>1, Facts
  <2>6. \A c \in OfKind("schedule") : cursor'[c] >= cursor[c]
    BY <2>1, <2>4, <2>5, CursorsAreNumbers
  <2>7. ASSUME NEW d \in NewRuns
        PROVE  /\ d.id # NoName => <<d.binding[1].workflow, d.id>> \notin ran
               /\ d.id[2] > cursor[d.binding] /\ d.id[2] <= cursor'[d.binding]
    <3>1. Queued(b, id) \/ NotStarted(b, id) \/ HasStarted(b, id, <<"tick", now>>)
      BY <2>2, <2>7, DispatchEffect DEF NewRuns
    <3>2. d.binding = b /\ d.id = id /\ (d.id # NoName => <<d.binding[1].workflow, d.id>> \notin ran)
      BY <3>1, StartIsNew
    <3> QED BY <2>1, <2>3, <2>4, <2>5, <3>2
  <2> QED BY <2>6, <2>7 DEF FiresForward
<1>2. ASSUME NEW c, NEW name, NEW who, who[1] # "tick", UNCHANGED cursor,
             Queued(c, name) \/ NotStarted(c, name) \/ HasStarted(c, name, who)
      PROVE  FiresForward
  <2>1. ASSUME NEW d \in NewRuns
        PROVE  d.by[1] # "tick" /\ (d.id # NoName => <<d.binding[1].workflow, d.id>> \notin ran)
    <3>1. /\ d.binding = c /\ d.id = name /\ d.by = who
          /\ d.id # NoName => <<d.binding[1].workflow, d.id>> \notin ran
      BY <1>2, <2>1, StartIsNew, ZenonT(30)
    <3> QED BY <1>2, <3>1
  <2>2. \A b \in OfKind("schedule") : cursor'[b] >= cursor[b]
    BY <1>2, CursorsAreNumbers
  <2> QED BY <2>1, <2>2 DEF FiresForward
<1>3. ASSUME running' \subseteq running, UNCHANGED cursor PROVE FiresForward
  BY <1>3, CursorsAreNumbers DEF FiresForward, NewRuns
<1>4. ASSUME NEW e \in Events, FireNext(e) PROVE FiresForward
  <2> DEFINE by == <<"fire", e>>
  <2>1. by[1] # "tick"
    OBVIOUS
  <2>2. UNCHANGED cursor /\ \E b : Dispatch(b, Named(b, e), by)
    BY <1>4 DEF FireNext
  <2> HIDE DEF by
  <2>3. \E b, id : Queued(b, id) \/ NotStarted(b, id) \/ HasStarted(b, id, by)
    BY <2>2, DispatchEffect
  <2> QED BY <1>2, <2>1, <2>2, <2>3
<1>5. ASSUME NEW b, NEW d, Webhook(b, d) PROVE FiresForward
  <2> DEFINE by == <<"hook", d>>
             id == <<b[1].node, d>>
  <2>1. by[1] # "tick"
    OBVIOUS
  <2>2. UNCHANGED cursor /\ Dispatch(b, id, by)
    BY <1>5 DEF Webhook
  <2> HIDE DEF by, id
  <2>3. Queued(b, id) \/ NotStarted(b, id) \/ HasStarted(b, id, by)
    BY <2>2, DispatchEffect
  <2> QED BY <1>2, <2>1, <2>2, <2>3
<1>6. ASSUME NEW p \in Flushes, FlushNext(p) PROVE FiresForward
  <2> DEFINE by == <<"flush", p>>
  <2>1. by[1] # "tick"
    OBVIOUS
  <2>2. /\ UNCHANGED cursor
        /\ UNCHANGED started \/ \E b, id : NotStarted(b, id) \/ HasStarted(b, id, by)
    BY <1>6, FlushEffect
  <2> HIDE DEF by
  <2>3. CASE UNCHANGED started
    BY <1>3, <2>2, <2>3 DEF started
  <2> QED BY <1>2, <2>1, <2>2, <2>3
<1>7. CASE Crash
  BY <1>3, <1>7 DEF Crash
<1> QED
  BY <1>1, <1>3, <1>4, <1>5, <1>6, <1>7
     DEF Next, vars, memory, started, Register, Unregister, FireEvent, FireDone, FlushOffline, RunEnds,
         Clock, Connection

\* Whatever is repeated, queued, flushed or caught up after a death, no firing
\* that has a name starts its workflow twice, and a schedule only moves forward
\* (trigger-dispatcher.ts: dispatch, tick, flushOffline).
THEOREM FiresOnce == Spec => FiringsHold
<1>1. DispatchInv /\ [Next]_vars =>
        [\A d \in running' \ running : d.id # NoName => <<d.binding[1].workflow, d.id>> \notin ran]_vars
  BY StepsFireForward DEF FiresForward, NewRuns
<1>2. DispatchInv /\ [Next]_vars =>
        [/\ \A b \in OfKind("schedule") : cursor'[b] >= cursor[b]
         /\ \A d \in running' \ running : d.by[1] = "tick" =>
              d.id[2] > cursor[d.binding] /\ d.id[2] <= cursor'[d.binding]]_vars
  BY StepsFireForward DEF FiresForward, NewRuns
<1> QED BY <1>1, <1>2, DispatchHolds, PTL DEF Spec, FiringsHold, RunsOnce, SlotsForward

-----------------------------------------------------------------------------
(* Marks and runs                                                            *)

\* Unbinding clears every mark of a workflow: what is marked is bound.
MarksInv == MarksTellRuns /\ NeverOverlaps /\ inflight \subseteq Bound

\* A schedule is started only where its mark was not set: another run of it has
\* lost its mark.
LEMMA StartMarks ==
    ASSUME DispatchInv, MarksInv, UNCHANGED <<scene, published, forgotten>>, NEW b, NEW id, NEW by,
           UNCHANGED started \/ NotStarted(b, id) \/ HasStarted(b, id, by)
    PROVE  MarksInv'
<1>1. Bound' = Bound
  BY SameScene DEF Bound
<1>2. CASE UNCHANGED <<inflight, running>>
  BY <1>1, <1>2 DEF MarksInv, MarksTellRuns, NeverOverlaps
<1>3. CASE NotStarted(b, id)
  <2>1. UNCHANGED running /\ inflight' \subseteq inflight
    BY <1>3 DEF NotStarted
  <2>2. \A x \in inflight : x[1].kind = "schedule" => x \in inflight'
    BY <1>3 DEF NotStarted
  <2> QED BY <1>1, <2>1, <2>2 DEF MarksInv, MarksTellRuns, NeverOverlaps
<1>4. CASE HasStarted(b, id, by)
  <2> DEFINE run == Run(b, id, by)
  <2>1. run.binding = b
    BY RunIs
  <2>2. /\ b \in Bound /\ (b[1].kind = "schedule" => b \notin inflight)
        /\ inflight' = inflight \cup {b} /\ running' = running \cup {run}
    BY <1>4 DEF HasStarted
  <2> HIDE DEF run
  <2>3. b[1].kind = "schedule" => \A d \in running : d.binding = b => b \in forgotten
    BY <2>2 DEF MarksInv, MarksTellRuns
  <2>4. MarksTellRuns'
    BY <2>1, <2>2 DEF MarksInv, MarksTellRuns
  <2>5. NeverOverlaps'
    BY <2>1, <2>2, <2>3 DEF MarksInv, NeverOverlaps
  <2> QED BY <1>1, <2>2, <2>4, <2>5 DEF MarksInv
<1> QED BY <1>2, <1>3, <1>4 DEF started

\* What is unbound loses its marks, and is remembered where it runs.
LEMMA UnbindMarks ==
    ASSUME DispatchInv, MarksInv, NEW w \in Workflows, NEW rev,
           published' = [published EXCEPT ![w] = rev],
           inflight' = inflight \ Unbound(w), forgotten' = forgotten \cup Forgets(w),
           UNCHANGED <<scene, running>>
    PROVE  MarksInv'
<1>1. \A b \in inflight : b \in Bound /\ b \in Bindings
  BY DEF MarksInv, Bound
<1>2. inflight' \subseteq Bound'
  <2>1. ASSUME NEW b \in inflight' PROVE b \in Bindings /\ published'[b[1].workflow] = b[2]
    BY <1>1, Facts DEF Unbound, Bound
  <2> QED BY <2>1, SameScene DEF Bound
<1>3. ASSUME NEW d \in running, d.binding[1].kind = "schedule"
      PROVE  d.binding \in inflight' \cup forgotten'
  <2>1. d.binding \in inflight \cup forgotten
    BY <1>3 DEF MarksInv, MarksTellRuns
  <2>2. d.binding \in inflight /\ d.binding \in Unbound(w) => d.binding \in Forgets(w)
    BY <1>1 DEF Forgets
  <2> QED BY <2>1, <2>2
<1>4. MarksTellRuns'
  BY <1>3 DEF MarksInv, MarksTellRuns
<1>5. NeverOverlaps'
  BY DEF MarksInv, NeverOverlaps
<1> QED BY <1>2, <1>4, <1>5 DEF MarksInv

LEMMA NextMarks ==
    ASSUME DispatchInv, MarksInv, [Next]_vars
    PROVE  MarksInv'
<1>1. ASSUME UNCHANGED <<scene, published, inflight, running, forgotten>> PROVE MarksInv'
  BY <1>1, SameScene DEF MarksInv, MarksTellRuns, NeverOverlaps, Bound
<1>2. ASSUME NEW w \in Workflows, Unregister(w) \/ \E rev \in Revisions : Register(w, rev)
      PROVE  MarksInv'
  <2>1. PICK rev : published' = [published EXCEPT ![w] = rev]
    BY <1>2 DEF Register, Unregister
  <2>2. /\ inflight' = inflight \ Unbound(w) /\ forgotten' = forgotten \cup Forgets(w)
        /\ UNCHANGED <<scene, running>>
    BY <1>2 DEF Register, Unregister
  <2> QED BY <2>1, <2>2, UnbindMarks
<1>3. ASSUME UNCHANGED <<scene, published, forgotten>>, NEW b, NEW id, NEW by, Dispatch(b, id, by)
      PROVE  MarksInv'
  <2>1. UNCHANGED started \/ NotStarted(b, id) \/ HasStarted(b, id, by)
    BY <1>3, DispatchEffect DEF Queued
  <2> QED BY <1>3, <2>1, StartMarks
<1>4. ASSUME NEW t \in Triggers, Tick(t) PROVE MarksInv'
  <2>1. UNCHANGED started \/ \E b, id, by : Dispatch(b, id, by)
    BY <1>4 DEF Tick
  <2>2. UNCHANGED <<scene, published, forgotten>>
    BY <1>4 DEF Tick
  <2> QED BY <1>1, <1>3, <2>1, <2>2 DEF started
<1>5. ASSUME NEW e \in Events, FireNext(e) PROVE MarksInv'
  BY <1>3, <1>5 DEF FireNext
<1>6. ASSUME NEW b, NEW d, Webhook(b, d) PROVE MarksInv'
  BY <1>3, <1>6 DEF Webhook
<1>7. ASSUME NEW p \in Flushes, FlushNext(p) PROVE MarksInv'
  <2>1. /\ UNCHANGED <<scene, published, forgotten>>
        /\ UNCHANGED started \/ \E b, id, by : NotStarted(b, id) \/ HasStarted(b, id, by)
    BY <1>7, FlushEffect
  <2> QED BY <2>1, StartMarks
<1>8. ASSUME NEW d \in running, RunEnds(d) PROVE MarksInv'
  <2>1. /\ running' = running \ {d} /\ inflight' = inflight \ {d.binding}
        /\ forgotten' = {b \in forgotten : \E x \in running' : x.binding = b}
        /\ UNCHANGED <<scene, published>>
    BY <1>8 DEF RunEnds
  <2>2. ASSUME NEW x \in running', x.binding[1].kind = "schedule"
        PROVE  x.binding \in inflight' \cup forgotten'
    <3>1. x \in running /\ x # d /\ x.binding \in inflight \cup forgotten
      BY <2>1, <2>2 DEF MarksInv, MarksTellRuns
    <3>2. x.binding = d.binding => x.binding \in forgotten
      BY <2>2, <3>1 DEF MarksInv, NeverOverlaps
    <3> QED BY <2>1, <3>1, <3>2
  <2>3. \A b \in inflight' : \E x \in running' : x.binding = b
    BY <2>1 DEF MarksInv, MarksTellRuns
  <2>4. NeverOverlaps'
    BY <2>1 DEF MarksInv, NeverOverlaps
  <2>5. Bound' = Bound
    BY <2>1, SameScene DEF Bound
  <2> QED BY <2>1, <2>2, <2>3, <2>4, <2>5 DEF MarksInv, MarksTellRuns
<1>9. CASE Crash
  <2>1. running' = {} /\ inflight' = {}
    BY <1>9 DEF Crash
  <2> QED BY <2>1 DEF MarksInv, MarksTellRuns, NeverOverlaps
<1> QED
  BY <1>1, <1>2, <1>4, <1>5, <1>6, <1>7, <1>8, <1>9
     DEF Next, vars, memory, started, FireEvent, FireDone, FlushOffline, Clock, Connection

\* The memory of the dispatcher agrees with what was handled and what runs, for
\* any triggers, revisions and slots, whatever is registered and unregistered
\* under the runs and wherever it dies (trigger-dispatcher.ts).
THEOREM MemoryIsTrue == Spec => []MemoryAgrees
<1>1. Init => MarksInv
  BY DEF Init, MarksInv, MarksTellRuns, NeverOverlaps
<1>2. DispatchInv /\ MarksInv /\ [Next]_vars => MarksInv'
  BY NextMarks
<1>3. DispatchInv /\ MarksInv => MemoryAgrees
  BY DEF DispatchInv, MarksInv, MemoryAgrees
<1> QED BY <1>1, <1>2, <1>3, DispatchHolds, PTL DEF Spec

-----------------------------------------------------------------------------
(* Flushes and the queue                                                     *)

\* No two calls of flushOffline overlap.
OneFlush == \A p, q \in Flushes : p = q

\* What is queued can be told by its id.
IdsDiffer == \A q, r \in queue : q.id = r.id => q = r

\* What a flush has still to do is queued, and listed once.
ListIsQueued(s) ==
    \A i \in DOMAIN s : s[i] \in queue /\ \A j \in DOMAIN s : s[i].id = s[j].id => i = j

FlushInv == IdsDiffer /\ (OneFlush => \A p \in Flushes : ListIsQueued(flushing[p]))

\* A step takes from the queue only what it may take.
TakesItsOwn ==
    \A q \in queue \ queue' :
      q.binding[1].kind = "event" =>
        \/ Spent(q) \/ now - q.at > QueueTtl \/ q.binding \notin Bound
        \/ errors' > errors \/ Overtaken(q)

LEMMA SameFlushes ==
    ASSUME UNCHANGED scene
    PROVE  OneFlush' = OneFlush /\ Flushes' = Flushes
BY SameScene DEF OneFlush

\* Whoever does not flush only adds to the queue.
LEMMA QueueGrows ==
    ASSUME FlushInv, UNCHANGED <<scene, flushing>>, NEW b, NEW id,
           UNCHANGED queue \/ Queued(b, id)
    PROVE  FlushInv' /\ TakesItsOwn
<1>1. queue \subseteq queue' /\ IdsDiffer'
  BY DEF FlushInv, IdsDiffer, Queued
<1>2. (OneFlush => \A p \in Flushes : ListIsQueued(flushing[p]))'
  <2>1. ASSUME OneFlush, NEW p \in Flushes PROVE ListIsQueued(flushing[p])'
    BY <1>1, <2>1 DEF FlushInv, ListIsQueued
  <2> QED BY <2>1, SameFlushes
<1> QED BY <1>1, <1>2 DEF FlushInv, TakesItsOwn

\* A flush lists the queue.
LEMMA FlushLists ==
    ASSUME DispatchInv, FlushInv, NEW p \in Flushes, FlushOffline(p)
    PROVE  FlushInv' /\ TakesItsOwn
<1>1. PICK s \in Listing(queue) : flushing' = [flushing EXCEPT ![p] = s]
  BY DEF FlushOffline
<1>2. UNCHANGED <<scene, queue>>
  BY DEF FlushOffline
<1>3. Cardinality(queue) \in Nat /\ s \in [1..Cardinality(queue) -> queue]
      /\ \A i, j \in DOMAIN s : i < j => s[i] # s[j]
  BY Facts, FS_CardinalityType DEF Listing
<1>4. ListIsQueued(s)
  <2>1. SUFFICES ASSUME NEW i \in DOMAIN s, NEW j \in DOMAIN s, s[j].id = s[i].id PROVE i = j
    BY <1>3 DEF ListIsQueued
  <2>2. s[j] = s[i]
    BY <1>3, <2>1 DEF FlushInv, IdsDiffer
  <2>3. i \in Nat /\ j \in Nat
    BY <1>3
  <2> QED BY <1>3, <2>2, <2>3
<1>5. (OneFlush => \A x \in Flushes : ListIsQueued(flushing[x]))'
  <2>1. ASSUME OneFlush, NEW x \in Flushes PROVE ListIsQueued(flushing[x])'
    <3>1. x = p /\ flushing'[x] = s
      BY <1>1, <2>1, Facts DEF OneFlush
    <3> QED BY <1>2, <1>4, <3>1 DEF ListIsQueued
  <2> QED BY <1>2, <2>1, SameFlushes
<1> QED BY <1>2, <1>5 DEF FlushInv, IdsDiffer, TakesItsOwn

\* What is removed with the record at hand is that record, or has its id and
\* was queued after another flush had removed it.
LEMMA HandledTakes ==
    ASSUME DispatchInv, FlushInv, UNCHANGED scene, NEW p \in Flushes, flushing[p] # <<>>, Handled(p)
    PROVE  FlushInv' /\ \A q \in queue \ queue' : q = Head(flushing[p]) \/ Overtaken(q)
<1> DEFINE h == Head(flushing[p])
           t == Tail(flushing[p])
<1>1. queue' = {q \in queue : q.id # h.id} /\ flushing' = [flushing EXCEPT ![p] = t]
  BY DEF Handled
<1>2. /\ h = flushing[p][1] /\ 1 \in DOMAIN flushing[p]
      /\ \A i \in DOMAIN t : t[i] = flushing[p][i + 1] /\ i + 1 \in DOMAIN flushing[p] /\ i \in Nat /\ i + 1 # 1
  <2>1. PICK S : flushing[p] \in Seq(S)
    BY Facts DEF Listed
  <2>2. /\ Tail(flushing[p]) \in Seq(S) /\ Len(Tail(flushing[p])) = Len(flushing[p]) - 1
        /\ \A i \in 1 .. Len(Tail(flushing[p])) : Tail(flushing[p])[i] = flushing[p][i+1]
    BY <2>1, HeadTailProperties
  <2>3. Head(flushing[p]) = flushing[p][1] /\ Len(flushing[p]) \in Nat /\ DOMAIN flushing[p] = 1..Len(flushing[p])
        /\ Len(flushing[p]) # 0
    BY <2>1, EmptySeq, LenProperties
  <2>4. DOMAIN Tail(flushing[p]) = 1..(Len(flushing[p]) - 1)
    BY <2>2, LenProperties
  <2> QED BY <2>2, <2>3, <2>4
<1>3. ASSUME OneFlush
      PROVE  /\ h \in queue
             /\ \A i \in DOMAIN t : t[i] \in queue' /\ \A j \in DOMAIN t : t[i].id = t[j].id => i = j
  <2>1. ListIsQueued(flushing[p])
    BY <1>3 DEF FlushInv
  <2>2. h \in queue
    BY <1>2, <2>1 DEF ListIsQueued
  <2>3. \A i \in DOMAIN t : t[i] \in queue /\ t[i].id # h.id
    BY <1>2, <2>1 DEF ListIsQueued
  <2>4. \A i, j \in DOMAIN t : t[i].id = t[j].id => i = j
    <3> SUFFICES ASSUME NEW i \in DOMAIN t, NEW j \in DOMAIN t, t[i].id = t[j].id PROVE i = j
      OBVIOUS
    <3>1. i + 1 = j + 1
      BY <1>2, <2>1 DEF ListIsQueued
    <3> QED BY <1>2, <3>1
  <2> HIDE DEF h, t
  <2> QED BY <1>1, <2>2, <2>3, <2>4
<1> HIDE DEF h, t
<1>4. IdsDiffer'
  BY <1>1 DEF FlushInv, IdsDiffer
<1>5. (OneFlush => \A x \in Flushes : ListIsQueued(flushing[x]))'
  <2>1. ASSUME OneFlush, NEW x \in Flushes PROVE ListIsQueued(flushing[x])'
    <3>1. x = p /\ flushing'[x] = t
      BY <1>1, <2>1, Facts DEF OneFlush
    <3> QED BY <1>3, <2>1, <3>1 DEF ListIsQueued
  <2> QED BY <2>1, SameFlushes
<1>6. ASSUME NEW q \in queue \ queue', q # h PROVE Overtaken(q)
  <2>1. q.id = h.id
    BY <1>1, <1>6
  <2>2. ~OneFlush
    BY <1>3, <1>6, <2>1 DEF FlushInv, IdsDiffer
  <2>3. \E other \in Flushes : p # other
    BY <2>2 DEF OneFlush
  <2> QED BY <1>6, <2>1, <2>3 DEF Overtaken, h
<1> QED BY <1>4, <1>5, <1>6 DEF FlushInv, h

LEMMA FlushTakes ==
    ASSUME DispatchInv, FlushInv, NEW p \in Flushes, FlushNext(p)
    PROVE  FlushInv' /\ TakesItsOwn
<1> DEFINE h == Head(flushing[p])
           by == <<"flush", p>>
<1>1. /\ flushing[p] # <<>> /\ \A d \in running : d.by # by
      /\ \/ Dropped(h) /\ UNCHANGED started
         \/ NotStarted(h.binding, h.id) \/ HasStarted(h.binding, h.id, by)
      /\ IF running' = running THEN Handled(p) ELSE UNCHANGED <<queue, flushing>>
      /\ UNCHANGED scene
  BY FlushEffect
<1>2. CASE running' = running
  <2>1. FlushInv' /\ \A q \in queue \ queue' : q = h \/ Overtaken(q)
    BY <1>1, <1>2, HandledTakes
  <2> HIDE DEF h
  <2>2. ~HasStarted(h.binding, h.id, by)
    BY <1>1, <1>2, RunIs DEF HasStarted
  <2>3. errors \in Nat
    BY Facts
  <2>4. h.binding[1].kind = "event" =>
          Spent(h) \/ now - h.at > QueueTtl \/ h.binding \notin Bound \/ errors' > errors
    BY <1>1, <2>2, <2>3 DEF Dropped, NotStarted, Spent
  <2> QED BY <2>1, <2>4 DEF TakesItsOwn
<1>3. CASE running' # running
  <2>1. UNCHANGED <<queue, flushing, scene>>
    BY <1>1, <1>3
  <2> QED BY <2>1, QueueGrows
<1> QED BY <1>2, <1>3

\* A run ends: what a flush ran is spent.
LEMMA EndTakes ==
    ASSUME DispatchInv, FlushInv, NEW d \in running, RunEnds(d)
    PROVE  FlushInv' /\ TakesItsOwn
<1>1. /\ UNCHANGED scene
      /\ \/ \E p \in Flushes : d.by = <<"flush", p>> /\ Handled(p)
         \/ UNCHANGED <<queue, flushing>>
  BY DEF RunEnds
<1>2. ASSUME NEW p \in Flushes, d.by = <<"flush", p>>, Handled(p)
      PROVE  FlushInv' /\ TakesItsOwn
  <2>1. flushing[p] # <<>> /\ Spent(Head(flushing[p]))
    BY <1>2 DEF DispatchInv, FlushesRun, RunsHead
  <2>2. FlushInv' /\ \A q \in queue \ queue' : q = Head(flushing[p]) \/ Overtaken(q)
    BY <1>1, <1>2, <2>1, HandledTakes
  <2> QED BY <2>1, <2>2 DEF TakesItsOwn
<1>3. CASE UNCHANGED <<queue, flushing>>
  BY <1>1, <1>3, QueueGrows
<1> QED BY <1>1, <1>2, <1>3

LEMMA NextFlush ==
    ASSUME DispatchInv, FlushInv, [Next]_vars
    PROVE  FlushInv' /\ TakesItsOwn
<1>1. ASSUME UNCHANGED <<scene, queue, flushing>> PROVE FlushInv' /\ TakesItsOwn
  BY <1>1, QueueGrows
<1>2. ASSUME UNCHANGED <<scene, flushing>>, NEW b, NEW id, NEW by, Dispatch(b, id, by)
      PROVE  FlushInv' /\ TakesItsOwn
  <2>1. UNCHANGED queue \/ Queued(b, id)
    BY <1>2, DispatchEffect
  <2> QED BY <1>2, <2>1, QueueGrows
<1>3. ASSUME NEW t \in Triggers, Tick(t) PROVE FlushInv' /\ TakesItsOwn
  <2>1. UNCHANGED <<scene, flushing>> /\ (UNCHANGED queue \/ \E b, id, by : Dispatch(b, id, by))
    BY <1>3 DEF Tick
  <2> QED BY <1>1, <1>2, <2>1
<1>4. ASSUME NEW e \in Events, FireNext(e) PROVE FlushInv' /\ TakesItsOwn
  BY <1>2, <1>4 DEF FireNext
<1>5. ASSUME NEW b, NEW d, Webhook(b, d) PROVE FlushInv' /\ TakesItsOwn
  BY <1>2, <1>5 DEF Webhook
<1>6. CASE Crash
  <2>1. queue' = queue /\ flushing' = [p \in Flushes |-> <<>>] /\ UNCHANGED scene
    BY <1>6 DEF Crash
  <2>2. Flushes' = Flushes /\ \A p \in Flushes : flushing'[p] = <<>>
    BY <2>1, SameScene
  <2> QED BY <2>1, <2>2 DEF FlushInv, IdsDiffer, ListIsQueued, TakesItsOwn
<1> QED
  BY <1>1, <1>3, <1>4, <1>5, <1>6, FlushLists, FlushTakes, EndTakes
     DEF Next, vars, memory, Register, Unregister, FireEvent, FireDone, Clock, Connection

\* No queued firing of an event is lost unless its start threw or a flush was
\* overtaken by another: else it leaves the queue when its name is spent, when
\* it is too old or when its binding is gone, for any triggers, flushes,
\* revisions and deaths (trigger-dispatcher.ts: dispatch, flushOffline).
THEOREM NoFiringIsLost == Spec => QueuedEventKept
<1>1. Init => FlushInv
  BY DEF Init, FlushInv, IdsDiffer, ListIsQueued
<1>2. DispatchInv /\ FlushInv /\ [Next]_vars => FlushInv'
  BY NextFlush
<1>3. DispatchInv /\ FlushInv /\ [Next]_vars =>
        [\A q \in queue \ queue' :
           q.binding[1].kind = "event" =>
             \/ Spent(q) \/ now - q.at > QueueTtl \/ q.binding \notin Bound
             \/ errors' > errors \/ Overtaken(q)]_vars
  BY NextFlush DEF TakesItsOwn
<1> QED BY <1>1, <1>2, <1>3, DispatchHolds, PTL DEF Spec, QueuedEventKept
=============================================================================
