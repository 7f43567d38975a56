-------------------------- MODULE TriggerDispatcher --------------------------
(* The dispatcher of workflow triggers                                       *)
(* (packages/automation/src/trigger-dispatcher.ts): cron slots, events and   *)
(* webhooks that start workflows, a durable queue for what needs a           *)
(* connection, and the run store that deduplicates.  A trigger is a record   *)
(* of its workflow, node, kind and whether it needs a connection; a binding  *)
(* is a trigger in one revision of its workflow.                             *)
EXTENDS Integers, Sequences, FiniteSets

CONSTANTS
  Scenes,     \* the installations looked at: triggers, what may arrive, bounds
  MaxLateness, QueueTtl, Rate, Window

ASSUME SceneAssumption ==
  \A s \in Scenes :
    {s.time, s.revisions, s.crashes, s.errors, s.draws} \subseteq Nat /\ s.slots \subseteq 1..s.time

VARIABLES
  scene,       \* the one at hand, never changed
  now, online,
  published,   \* per workflow the registered revision, 0 for none
  nextDue,     \* per bound schedule its next slot, 0 for none
  inflight,    \* bindings marked as running
  deliveries,  \* per webhook binding, times of the accepted deliveries
  running,     \* dispatches whose workflow runs
  firing,      \* calls of fireEvent: the bindings visited so far and, as
               \* history, the triggers of which the call has started a run
  flushing,    \* what each call of flushOffline lists, from the one at hand
  cursor,      \* durable: last slot handled, per binding
  queue,       \* durable: triggers that wait for a connection
  claimed,     \* durable: keys reserved in the run store
  drawn,       \* how many queue ids were drawn at random so far
  errors,      \* starts that threw before a key was reserved, as audited
  ran,         \* keys whose workflow was started                   (history)
  forgotten,     \* bindings that lost their mark under a run          (history)
  crashes

memory == <<published, nextDue, inflight, deliveries, running, firing, flushing>>
started == <<inflight, running, claimed, ran, errors>>
vars == <<scene, now, online, memory, cursor, queue, claimed, drawn, errors, ran, forgotten, crashes>>

Triggers == scene.triggers
Revisions == 1..scene.revisions
Slots == scene.slots
Events == scene.events
Flushes == scene.flushes

Workflows == {t.workflow : t \in Triggers}
Bindings == Triggers \X Revisions
OfKind(kind) == {b \in Bindings : b[1].kind = kind}
Bound == {b \in Bindings : published[b[1].workflow] = b[2]}

\* A plausible mistake in Key.
KeyOfRevision(b, id) == <<b[1].workflow, b[2], id>>

Key(b, id) == <<b[1].workflow, id>>

\* The name of a firing within its workflow; a call of fireEvent without an id
\* has none, and one id may come with several calls.
NoName == <<>>
Named(b, e) == IF e \in DOMAIN scene.ids THEN <<b[1].node, scene.ids[e]>> ELSE NoName

Latest(S) == CHOOSE x \in S : \A y \in S : y <= x

\* A plausible mistake in NextSlot.
NextSlotAgain(t) ==
    LET later == {s \in Slots : s >= t}
    IN  IF later = {} THEN 0 ELSE CHOOSE s \in later : \A x \in later : s <= x

NextSlot(t) ==
    LET later == {s \in Slots : s > t}
    IN  IF later = {} THEN 0 ELSE CHOOSE s \in later : \A x \in later : s <= x

NothingPublished == [w \in Workflows |-> 0]
NothingDue == [t \in Triggers |-> 0]
NoDeliveries == [b \in OfKind("webhook") |-> <<>>]

Init ==
    /\ scene \in Scenes
    /\ now = 0 /\ online \in BOOLEAN
    /\ published = NothingPublished /\ nextDue = NothingDue /\ deliveries = NoDeliveries
    /\ inflight = {} /\ running = {} /\ flushing = [p \in Flushes |-> <<>>]
    /\ firing = [e \in Events |-> [phase |-> "new", visited |-> {}, started |-> {}]]
    /\ cursor = [b \in OfKind("schedule") |-> 0]
    /\ queue = {} /\ claimed = {} /\ drawn = 0 /\ errors = 0
    /\ ran = {} /\ forgotten = {} /\ crashes = 0

-----------------------------------------------------------------------------
(* Registration *)

Awaited(by) == \E d \in running : d.by = by

\* A loop that awaits no run goes on before anything else happens: what is
\* called later finds every loop finished or waiting for a run.
Idle ==
    /\ \A e \in Events : firing[e].phase = "open" => Awaited(<<"fire", e>>)
    /\ \A p \in Flushes : flushing[p] # <<>> => Awaited(<<"flush", p>>)

\* Unbinding forgets the marks of the workflow's bindings, and with them the
\* runs of theirs that are under way.
Unbound(w) == {b \in Bindings : b[1].workflow = w}
Forgets(w) == {b \in Bound \cap Unbound(w) : \E d \in running : d.binding = b}

Register(w, rev) ==
    /\ Idle
    /\ published' = [published EXCEPT ![w] = rev]
    /\ nextDue' = [t \in Triggers |->
         IF t.workflow = w /\ t.kind = "schedule"
         THEN NextSlot(IF cursor[<<t, rev>>] # 0 THEN cursor[<<t, rev>>] ELSE now)
         ELSE nextDue[t]]
    /\ inflight' = inflight \ Unbound(w)
    /\ forgotten' = forgotten \cup Forgets(w)
    \* a binding deleted and added again is visited again by an event under way
    /\ firing' = [e \in Events |-> [firing[e] EXCEPT !.visited = @ \ Unbound(w)]]
    /\ UNCHANGED <<scene, now, online, deliveries, running, flushing, cursor, queue, claimed, drawn, errors, ran, crashes>>

Unregister(w) ==
    /\ Idle
    /\ published[w] # 0
    /\ published' = [published EXCEPT ![w] = 0]
    /\ nextDue' = [t \in Triggers |-> IF t.workflow = w THEN 0 ELSE nextDue[t]]
    /\ inflight' = inflight \ Unbound(w)
    /\ forgotten' = forgotten \cup Forgets(w)
    /\ UNCHANGED <<scene, now, online, deliveries, running, firing, flushing, cursor, queue, claimed, drawn, errors, ran, crashes>>

-----------------------------------------------------------------------------
(* dispatch: what is done with one firing of a binding; by says who awaits it *)

\* The workflow is started unless a schedule is marked, the name of the firing
\* is spent, or the start throws before it is reserved; a firing without a name
\* reserves nothing.  Unless the run is awaited the mark is cleared again.
Start(b, id, by) ==
    LET overlap == b[1].kind = "schedule" /\ b \in inflight
        spent   == id # NoName /\ Key(b, id) \in claimed
    IN  \/ /\ b \notin Bound \/ overlap
           /\ UNCHANGED started
        \/ /\ b \in Bound /\ ~overlap /\ spent
           /\ inflight' = inflight \ {b}
           /\ UNCHANGED <<running, claimed, ran, errors>>
        \/ /\ b \in Bound /\ ~overlap /\ errors < scene.errors
           /\ errors' = errors + 1
           /\ inflight' = inflight \ {b}
           /\ UNCHANGED <<running, claimed, ran>>
        \/ /\ b \in Bound /\ ~overlap /\ ~spent
           /\ inflight' = inflight \cup {b}
           /\ running' = running \cup {[binding |-> b, id |-> id, by |-> by]}
           /\ IF id = NoName THEN UNCHANGED <<claimed, ran>>
              ELSE /\ claimed' = claimed \cup {Key(b, id)}
                   /\ ran' = ran \cup {<<b[1].workflow, id>>}
           /\ UNCHANGED errors

\* What waits is told by its name, or by an id drawn for it, which becomes its
\* name when the queue is flushed.
Enqueue(b, id) ==
    LET name == IF id # NoName THEN id ELSE <<b[1].node, "drawn", drawn + 1>>
        item == [id |-> name, binding |-> b, at |-> now]
    IN  /\ id = NoName => drawn < scene.draws
        /\ drawn' = IF id = NoName THEN drawn + 1 ELSE drawn
        /\ queue' = IF Cardinality(queue) >= scene.room \/ \E q \in queue : q.id = name
                    THEN queue ELSE queue \cup {item}

Dispatch(b, id, by) ==
    LET waits == b \in Bound /\ b[1].online /\ ~online
    IN  \/ waits /\ Enqueue(b, id) /\ UNCHANGED started
        \/ ~waits /\ Start(b, id, by) /\ UNCHANGED <<queue, drawn>>

\* A flush has done with the record at hand: it is removed, by its id.
Handled(p) ==
    /\ queue' = {q \in queue : q.id # Head(flushing[p]).id}
    /\ flushing' = [flushing EXCEPT ![p] = Tail(@)]

\* A plausible mistake in RunEnds.
RunEndsAll(d) ==
    /\ Idle
    /\ running' = running \ {d}
    /\ inflight' = inflight \ Unbound(d.binding[1].workflow)
    /\ forgotten' = {b \in forgotten : \E x \in running' : x.binding = b}
    /\ \/ \E p \in Flushes : d.by = <<"flush", p>> /\ Handled(p)
       \/ d.by[1] # "flush" /\ UNCHANGED <<queue, flushing>>
    /\ UNCHANGED <<scene, now, online, published, nextDue, deliveries, firing, cursor, claimed, drawn, errors, ran, crashes>>

\* The mark is cleared whoever set it; the record a flush ran is removed.
RunEnds(d) ==
    /\ Idle
    /\ running' = running \ {d}
    /\ inflight' = inflight \ {d.binding}
    /\ forgotten' = {b \in forgotten : \E x \in running' : x.binding = b}
    /\ \/ \E p \in Flushes : d.by = <<"flush", p>> /\ Handled(p)
       \/ d.by[1] # "flush" /\ UNCHANGED <<queue, flushing>>
    /\ UNCHANGED <<scene, now, online, published, nextDue, deliveries, firing, cursor, claimed, drawn, errors, ran, crashes>>

-----------------------------------------------------------------------------
(* Schedules, events, webhooks *)

\* A plausible mistake in Tick.
TickBehind(t) ==
    LET b == <<t, published[t.workflow]>>
        last == Latest({s \in Slots : s <= now})
    IN  /\ Idle /\ t.kind = "schedule" /\ nextDue[t] # 0 /\ nextDue[t] <= now
        /\ nextDue' = [nextDue EXCEPT ![t] = NextSlot(now)]
        /\ cursor' = [cursor EXCEPT ![b] = nextDue[t]]
        /\ IF now - last > MaxLateness
           THEN UNCHANGED <<started, queue, drawn>>
           ELSE Dispatch(b, <<t.node, last>>, <<"tick", now>>)
        /\ UNCHANGED <<scene, now, online, published, deliveries, firing, flushing, forgotten, crashes>>

\* Of the slots that passed, one is fired, the last, unless it is too late.
Tick(t) ==
    LET b == <<t, published[t.workflow]>>
        last == Latest({s \in Slots : s <= now})
    IN  /\ Idle /\ t.kind = "schedule" /\ nextDue[t] # 0 /\ nextDue[t] <= now
        /\ nextDue' = [nextDue EXCEPT ![t] = NextSlot(now)]
        /\ cursor' = [cursor EXCEPT ![b] = last]
        /\ IF now - last > MaxLateness
           THEN UNCHANGED <<started, queue, drawn>>
           ELSE Dispatch(b, <<t.node, last>>, <<"tick", now>>)
        /\ UNCHANGED <<scene, now, online, published, deliveries, firing, flushing, forgotten, crashes>>

FiringDone == [phase |-> "done", visited |-> {}, started |-> {}]

\* fireEvent visits the bindings one after the other and awaits each run.
FireEvent(e) ==
    /\ Idle /\ firing[e].phase = "new"
    /\ firing' = [firing EXCEPT ![e].phase = "open"]
    /\ UNCHANGED <<scene, now, online, published, nextDue, deliveries, flushing, started,
                   cursor, queue, drawn, forgotten, crashes>>

FireNext(e) ==
    /\ firing[e].phase = "open" /\ ~Awaited(<<"fire", e>>)
    /\ \E b \in (Bound \cap OfKind("event")) \ firing[e].visited :
         /\ Dispatch(b, Named(b, e), <<"fire", e>>)
         /\ firing' = [firing EXCEPT
              ![e].visited = @ \cup {b},
              ![e].started = IF running' = running THEN @ ELSE @ \cup {b[1]}]
    /\ UNCHANGED <<scene, now, online, published, nextDue, deliveries, flushing, cursor, forgotten, crashes>>

FireDone(e) ==
    /\ firing[e].phase = "open" /\ ~Awaited(<<"fire", e>>)
    /\ (Bound \cap OfKind("event")) \ firing[e].visited = {}
    /\ firing' = [firing EXCEPT ![e] = FiringDone]
    /\ UNCHANGED <<scene, now, online, published, nextDue, deliveries, flushing, started,
                   cursor, queue, drawn, forgotten, crashes>>

\* Times are noted as they pass: those still in the window are the last.
Recent(times) ==
    LET old == {i \in DOMAIN times : now - times[i] >= Window}
    IN  SubSeq(times, Cardinality(old) + 1, Len(times))

\* A delivery that was authenticated.  Senders repeat deliveries; only so many
\* are accepted in a window.
Webhook(b, d) ==
    LET recent == Recent(deliveries[b])
    IN  /\ Idle /\ b \in Bound \cap OfKind("webhook")
        /\ Len(recent) < Rate
        /\ deliveries' = [deliveries EXCEPT ![b] = Append(recent, now)]
        /\ Dispatch(b, <<b[1].node, d>>, <<"hook", d>>)
        /\ UNCHANGED <<scene, now, online, published, nextDue, firing, flushing, cursor, forgotten, crashes>>

-----------------------------------------------------------------------------
(* The queue, oldest first *)

Before(p, q) == p.at < q.at
Listing(S) ==
    {s \in [1..Cardinality(S) -> S] :
       /\ \A i, j \in DOMAIN s : i < j => s[i] # s[j]
       /\ \A i, j \in DOMAIN s : i < j => ~Before(s[j], s[i])}

FlushOffline(p) ==
    /\ Idle /\ online /\ queue # {}
    /\ flushing[p] = <<>> /\ ~Awaited(<<"flush", p>>)
    /\ \E s \in Listing(queue) : flushing' = [flushing EXCEPT ![p] = s]
    /\ UNCHANGED <<scene, now, online, published, nextDue, deliveries, firing, started,
                   cursor, queue, drawn, forgotten, crashes>>

\* A plausible mistake in Dropped.
DroppedFresh(q) == now - q.at < QueueTtl \/ q.binding \notin Bound

Dropped(q) == now - q.at > QueueTtl \/ q.binding \notin Bound

\* A plausible mistake in FlushNext.
FlushNextKeeping(p) ==
    LET q == Head(flushing[p])
        by == <<"flush", p>>
    IN  /\ flushing[p] # <<>> /\ ~Awaited(by)
        /\ IF Dropped(q) THEN UNCHANGED started ELSE Start(q.binding, q.id, by)
        /\ flushing' = IF running' = running THEN [flushing EXCEPT ![p] = Tail(@)] ELSE flushing
        /\ UNCHANGED queue
        /\ UNCHANGED <<scene, now, online, published, nextDue, deliveries, firing, cursor, drawn, forgotten, crashes>>

\* A record is dropped, or dispatched and then removed, also when its start
\* threw: at once when nothing runs, else when its run ends.
FlushNext(p) ==
    LET q == Head(flushing[p])
        by == <<"flush", p>>
    IN  /\ flushing[p] # <<>> /\ ~Awaited(by)
        /\ IF Dropped(q) THEN UNCHANGED started ELSE Start(q.binding, q.id, by)
        /\ IF running' = running THEN Handled(p) ELSE UNCHANGED <<queue, flushing>>
        /\ UNCHANGED <<scene, now, online, published, nextDue, deliveries, firing, cursor, drawn, forgotten, crashes>>

-----------------------------------------------------------------------------
Clock ==
    /\ Idle /\ now < scene.time /\ now' = now + 1
    /\ UNCHANGED <<scene, online, memory, cursor, queue, claimed, drawn, errors, ran, forgotten, crashes>>

Connection ==
    /\ Idle /\ online' = ~online
    /\ UNCHANGED <<scene, now, memory, cursor, queue, claimed, drawn, errors, ran, forgotten, crashes>>

\* Only what SQLite holds survives.
Crash ==
    /\ crashes < scene.crashes /\ crashes' = crashes + 1
    /\ published' = NothingPublished /\ nextDue' = NothingDue /\ deliveries' = NoDeliveries
    /\ inflight' = {} /\ running' = {} /\ flushing' = [p \in Flushes |-> <<>>]
    /\ firing' = [e \in Events |-> IF firing[e].phase = "open"
                                   THEN FiringDone ELSE firing[e]]
    /\ forgotten' = {}
    /\ UNCHANGED <<scene, now, online, cursor, queue, claimed, drawn, errors, ran>>

Next ==
    \/ \E w \in Workflows : Unregister(w) \/ \E rev \in Revisions : Register(w, rev)
    \/ \E t \in Triggers : Tick(t)
    \/ \E e \in Events : FireEvent(e) \/ FireNext(e) \/ FireDone(e)
    \/ \E b \in OfKind("webhook"), d \in scene.deliveries : Webhook(b, d)
    \/ \E p \in Flushes : FlushOffline(p) \/ FlushNext(p)
    \/ \E d \in running : RunEnds(d)
    \/ Clock \/ Connection \/ Crash

Spec == Init /\ [][Next]_vars

\* Runs end, and the runtime flushes what is queued while it is connected.
FairSpec ==
    /\ Spec
    /\ WF_vars(\E d \in running : RunEnds(d))
    /\ \A e \in UNION {s.events : s \in Scenes} :
         WF_vars(e \in Events /\ (FireNext(e) \/ FireDone(e)))
    /\ \A p \in UNION {s.flushes : s \in Scenes} :
         /\ SF_vars(p \in Flushes /\ FlushOffline(p))
         /\ WF_vars(p \in Flushes /\ FlushNext(p))
         /\ SF_vars(\E d \in running : d.by = <<"flush", p>> /\ RunEnds(d))
=============================================================================
