---------------------------- MODULE TriggerProps ----------------------------
(* What must hold of trigger dispatch under crashes, lost connections,       *)
(* repeated deliveries and new revisions.                                    *)
EXTENDS TriggerDispatcher

Askers ==
    ({"tick"} \X (0..scene.time)) \cup ({"fire"} \X Events)
      \cup ({"hook"} \X scene.deliveries) \cup ({"flush"} \X Flushes)

QueueItems == {q \in queue : q.binding \in Bindings /\ q.at \in 0..scene.time /\ q.id # NoName}

FiringRecords == [phase : {"new", "open", "done"}, visited : SUBSET Bindings, started : SUBSET Triggers]

\* Values the variables range over.
TypeOK ==
    /\ now \in 0..scene.time /\ online \in BOOLEAN /\ crashes \in 0..scene.crashes
    /\ errors \in 0..scene.errors /\ drawn \in 0..scene.draws
    /\ published \in [Workflows -> 0..scene.revisions]
    /\ nextDue \in [Triggers -> Slots \cup {0}]
    /\ inflight \subseteq Bindings /\ forgotten \subseteq Bindings
    /\ deliveries \in [OfKind("webhook") -> Seq(0..scene.time)]
    /\ \A d \in running : d.binding \in Bindings /\ d.by \in Askers
    /\ firing \in [Events -> FiringRecords]
    /\ cursor \in [OfKind("schedule") -> Slots \cup {0}]
    /\ queue = QueueItems

\* Two runs of the same scheduled trigger overlap only where its revision was
\* registered again under the first (docs/flow-triggers.md:8,
\* trigger-dispatcher.ts: unregister).
NeverOverlaps ==
    \A d, e \in running :
      d.binding = e.binding /\ d.binding[1].kind = "schedule" => d = e \/ d.binding \in forgotten

\* No mark is left behind: a mark no run would clear stops a schedule for good.
\* And no mark is cleared early, which would let a second run in: every run of a
\* bound schedule is marked unless its binding was forgotten under it.
MarksTellRuns ==
    /\ \A b \in inflight : \E d \in running : d.binding = b
    /\ \A d \in running :
         d.binding[1].kind = "schedule" => d.binding \in inflight \cup forgotten

\* Whatever is repeated, queued, flushed twice, visited twice or caught up after
\* a crash or a new revision, no firing that has a name starts its workflow twice
\* (trigger-dispatcher.ts:12); a call of fireEvent without an id gets its name
\* when it is queued.
RunsOnce ==
    [][\A d \in running' \ running : d.id # NoName => <<d.binding[1].workflow, d.id>> \notin ran]_vars

\* A schedule only moves forward: a tick fires a slot the cursor had not
\* reached and leaves the cursor past it, so that no restart repeats it
\* (docs/flow-triggers.md:8).
SlotsForward ==
    [][/\ \A b \in OfKind("schedule") : cursor'[b] >= cursor[b]
       /\ \A d \in running' \ running : d.by[1] = "tick" =>
            d.id[2] > cursor[d.binding] /\ d.id[2] <= cursor'[d.binding]]_vars

\* What is due next lies past what was handled.
DueAfterCursor ==
    \A b \in OfKind("schedule") \cap Bound :
      nextDue[b[1]] # 0 => nextDue[b[1]] > cursor[b]

\* The dispatcher's memory agrees with what was handled and with what runs,
\* whatever is registered, ends, fails or dies meanwhile (trigger-dispatcher.ts).
MemoryAgrees == TypeOK /\ MarksTellRuns /\ DueAfterCursor /\ NeverOverlaps

\* A flush is at a record that left the queue before, while one with its id was
\* queued again; it takes two flushes at a time.
Overtaken(q) ==
    \E p, other \in Flushes :
      p # other /\ flushing[p] # <<>> /\ Head(flushing[p]) # q /\ Head(flushing[p]).id = q.id

\* A queued firing of an event leaves the queue only when its name is spent, it
\* is too old, its binding is gone, its start threw and was reported, or a flush
\* was overtaken by another (docs/flow-triggers.md:10).
Spent(q) == Key(q.binding, q.id) \in claimed
QueuedEventKept ==
    [][\A q \in queue \ queue' :
         q.binding[1].kind = "event" =>
           \/ Spent(q) \/ now - q.at > QueueTtl \/ q.binding \notin Bound
           \/ errors' > errors \/ Overtaken(q)]_vars

\* No firing is repeated, neither its run nor its slot (trigger-dispatcher.ts:
\* dispatch, tick).
FiringsHold == RunsOnce /\ SlotsForward

\* Once the connection stays, nothing stays queued.
QueueDrains == <>[]online => <>[](queue = {})

\* What is queued waits neither for ever nor in vain (trigger-dispatcher.ts:
\* flushOffline).
QueueHolds == QueuedEventKept /\ QueueDrains

\* Claim of docs/flow-triggers.md:8: two runs of the same trigger never overlap.
SchedulesNeverOverlap ==
    \A d, e \in running : d.binding = e.binding /\ d.binding[1].kind = "schedule" => d = e

\* Claim of trigger-dispatcher.ts:12: idempotent, every firing carries its key.
\* One call of fireEvent starts one run of a trigger.
EventStartsOnce ==
    [][\A d \in running' \ running :
         d.by[1] = "fire" => d.binding[1] \notin firing[d.by[2]].started]_vars

\* Claim of docs/flow-triggers.md:10: what was queued is run on reconnection if
\* its workflow is still published in that revision and its trigger bound.
QueuedEventRun ==
    [][\A q \in queue \ queue' : Spent(q) \/ now - q.at > QueueTtl \/ q.binding \notin Bound]_vars

\* Claim of docs/flow-triggers.md:10: a firing that needs a connection and
\* finds none is queued while there is room, for every binding it reaches.
OfflineFiringQueued ==
    [][\A e \in Events : \A b \in firing'[e].visited \ firing[e].visited :
         b[1].online /\ ~online /\ Cardinality(queue) < scene.room /\ b \in Bound
           => \E q \in queue' : q.id = Named(b, e) /\ q.binding = b]_vars
=============================================================================
