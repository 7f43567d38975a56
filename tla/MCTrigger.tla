------------------------------ MODULE MCTrigger ------------------------------
(* Installations to look at: a schedule over two revisions; an event and a   *)
(* webhook; two events of one workflow with overlapping flushes; two         *)
(* workflows that listen to the same event at nodes of the same name.        *)
EXTENDS TriggerProps, TLC

CONSTANTS e1, e2, i1, d1, p1, p2

Hourly  == [workflow |-> "w1", node |-> "n1", kind |-> "schedule", online |-> TRUE]
OnMail  == [workflow |-> "w1", node |-> "n2", kind |-> "event", online |-> TRUE]
OnHook  == [workflow |-> "w1", node |-> "n3", kind |-> "webhook", online |-> FALSE]
OnNote  == [workflow |-> "w1", node |-> "n4", kind |-> "event", online |-> TRUE]
OnMail2 == [workflow |-> "w2", node |-> "n2", kind |-> "event", online |-> TRUE]

NoEvents == [e \in {} |-> i1]

\* A schedule, registered at any time, also under its own runs.
ScheduleScene ==
    [triggers |-> {Hourly}, revisions |-> 2, slots |-> {1, 2, 4}, time |-> 4,
     events |-> {}, ids |-> NoEvents, deliveries |-> {}, flushes |-> {p1},
     room |-> 1, draws |-> 0, errors |-> 1, crashes |-> 1]

\* An event with an id, one without, and a webhook.
EventScene ==
    [triggers |-> {OnMail, OnHook}, revisions |-> 1, slots |-> {}, time |-> 2,
     events |-> {e1, e2}, ids |-> e1 :> i1, deliveries |-> {d1}, flushes |-> {p1},
     room |-> 1, draws |-> 1, errors |-> 1, crashes |-> 1]

\* Two events, one with the id of the other, at two nodes, and two flushes.
TwinScene ==
    [triggers |-> {OnMail, OnNote}, revisions |-> 2, slots |-> {}, time |-> 0,
     events |-> {e1, e2}, ids |-> e1 :> i1 @@ e2 :> i1, deliveries |-> {},
     flushes |-> {p1, p2}, room |-> 2, draws |-> 0, errors |-> 1, crashes |-> 1]

NamesakeScene ==
    [triggers |-> {OnMail, OnMail2}, revisions |-> 1, slots |-> {}, time |-> 1,
     events |-> {e1}, ids |-> e1 :> i1, deliveries |-> {}, flushes |-> {},
     room |-> 2, draws |-> 0, errors |-> 0, crashes |-> 0]

MCScenes == {ScheduleScene, EventScene, TwinScene}
MCNamesakes == {NamesakeScene}
=============================================================================
