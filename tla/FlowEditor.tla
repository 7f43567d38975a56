------------------------------ MODULE FlowEditor ------------------------------
(* The editor of flow drafts (apps/flow-editor/src/model.ts and browser.ts): *)
(* a graph that taps and fields edit, a history to undo and redo, a copy in  *)
(* the storage of the device, and files that bring any graph.  What is       *)
(* selected, and the node and branch a connection is being drawn from, are   *)
(* inputs: each of them may be any that is there, and the branch one that a  *)
(* node offered before it was edited.  Positions, names, settings and the    *)
(* parameters that decide nothing else are one mark of a draft.  The text of *)
(* a draft may be one that the editor does not read back: an edit may make   *)
(* it longer than a file may be, or leave a forbidden key in a parameter.    *)
EXTENDS Integers, Sequences, FiniteSets, SequencesExt

CONSTANTS
  MaxNodes,        \* nodes of a draft
  MaxHistory,      \* steps that undo goes back
  MaxCommits,      \* bound on edits
  Imports,         \* drafts that files bring
  StartDraft,      \* what it opens with when nothing is saved: a template, or a new draft
  Refused(_)       \* parseDraft does not take the text of a draft: whatever the drafts

VARIABLES
  opened,      \* the draft on the screen
  past, future,
  stored,    \* durable: the draft in the storage of the device
  kept,      \* the storage took the last draft it was given    (history)
  foreign,   \* a file brought a draft with errors, turned off or not    (history)
  commits

editorVars == <<opened, past, future, stored, kept, foreign, commits>>

NodeKinds == {"trigger", "step", "approval"}
Branches == {"main", "branch", "error"}
NoDraft == [nodes |-> <<>>, connections |-> {}, look |-> 2]

-----------------------------------------------------------------------------
(* model.ts: nodes *)

\* normalizeNode: whatever is risky (of high risk, or not to be reversed, as a
\* request that sends is not) asks for approval.
Normalized(node) ==
    LET risky == node.risky \/ node.sends
    IN  [node EXCEPT !.risky = risky, !.approval = @ \/ node.kind = "approval" \/ risky]

\* A node that the palette makes.
NewNode(kind) ==
    Normalized([kind |-> kind, risky |-> FALSE, approval |-> FALSE, sends |-> FALSE,
                disabled |-> FALSE, secret |-> FALSE])

\* What a draft is made of, whoever made it
FlowNodes ==
    [kind : NodeKinds, risky : BOOLEAN, approval : BOOLEAN, sends : BOOLEAN, disabled : BOOLEAN, secret : BOOLEAN]
FlowDrafts ==
    [nodes : UNION {[ids -> FlowNodes] : ids \in SUBSET (1 .. MaxNodes)},
     connections : SUBSET ((1 .. MaxNodes) \X (1 .. MaxNodes) \X Branches), look : {0, 1}]

ASSUME EditorAssumption == MaxNodes \in Nat \ {0} /\ MaxHistory \in Nat /\ Imports \cup {StartDraft} \subseteq FlowDrafts

Fields == {"risky", "approval", "sends", "disabled", "secret"}

\* newDraft: a manual trigger
NewDraft == [nodes |-> <<NewNode("trigger")>>, connections |-> {}, look |-> 0]

NodesIn(d) == DOMAIN d.nodes
FreeIds(d) == {id \in 1 .. MaxNodes : id \notin NodesIn(d)}
FreshId(d) == CHOOSE id \in FreeIds(d) : \A other \in FreeIds(d) : id <= other

WithNode(d, id, node) ==
    [d EXCEPT !.nodes = [n \in NodesIn(d) \cup {id} |-> IF n = id THEN node ELSE d.nodes[n]]]

-----------------------------------------------------------------------------
(* model.ts: the graph *)

\* No connection leads out of the nodes, but for error branches
Closed(nodes, connections) == \A c \in connections : c[1] \in nodes /\ c[3] # "error" => c[2] \in nodes

\* What can be reached from a set of nodes: what is in every closed set around it
Reached(connections, from) ==
    {n \in 1 .. MaxNodes :
       \A nodes \in SUBSET (1 .. MaxNodes) : from \subseteq nodes /\ Closed(nodes, connections) => n \in nodes}

\* Mutant: the connection is added whatever it closes.
AnyConnection(d, from, to, branch) == branch = "error" \/ to \notin {from}

\* connect: error branches may lead back
NoCycle(d, from, to, branch) == branch = "error" \/ from \notin Reached(d.connections, {to})

Connectable(d, from, to, branch) ==
    /\ {from, to} \subseteq NodesIn(d) /\ from # to
    /\ d.nodes[to].kind # "trigger" /\ <<from, to, branch>> \notin d.connections
    /\ NoCycle(d, from, to, branch)

Connected(d, from, to, branch) == [d EXCEPT !.connections = @ \cup {<<from, to, branch>>}]

Without(d, id) ==
    [d EXCEPT !.nodes = [n \in NodesIn(d) \ {id} |-> d.nodes[n]],
              !.connections = {c \in @ : id \notin {c[1], c[2]}}]

\* What validateAutomationWorkflow and the editor's own checks object to
DraftErrors(d) ==
    LET live == {n \in NodesIn(d) : ~d.nodes[n].disabled}
        flows == {c \in d.connections : {c[1], c[2]} \subseteq live /\ c[3] # "error"}
    IN  {e \in {"no trigger", "approval", "unknown node", "cycle", "secret"} :
           CASE e = "no trigger" -> \A n \in live : d.nodes[n].kind # "trigger"
             [] e = "approval" -> \E n \in NodesIn(d) : d.nodes[n].risky /\ ~d.nodes[n].approval
             [] e = "unknown node" -> \E c \in d.connections : ~{c[1], c[2]} \subseteq NodesIn(d)
             [] e = "cycle" -> \E c \in flows : c[1] \in Reached(flows, {c[2]})
             [] e = "secret" -> \E n \in live : d.nodes[n].secret}

\* Still to be filled in, or to be taken out
Tolerated == {"no trigger", "secret"}

\* The draft with none of its nodes turned off.  A cycle through a node that is
\* off is no error before somebody turns it on.
AllOn(d) == [d EXCEPT !.nodes = [n \in NodesIn(d) |-> [d.nodes[n] EXCEPT !.disabled = FALSE]]]

\* The templates are workflows that the engine takes, whatever is turned on.
ASSUME StartAssumption == DraftErrors(AllOn(StartDraft)) \subseteq Tolerated

\* exportBlockers: a parameter looks like a key, in whatever node
Blocked(d) == \E n \in NodesIn(d) : d.nodes[n].secret

-----------------------------------------------------------------------------
(* browser.ts: history and storage *)

\* readSaved: the saved draft, unless its text is refused
ReadSaved == IF stored # NoDraft /\ ~Refused(stored) THEN stored ELSE NoDraft

\* What may be in the storage once a draft was given to it: a draft that is
\* blocked takes away what was there; a full storage keeps it.
Persist(d) ==
    IF Blocked(d) THEN stored' = NoDraft /\ kept' = TRUE
    ELSE \/ stored' = d /\ kept' = TRUE
         \/ stored' = stored /\ kept' = FALSE

Commit(d) ==
    /\ commits < MaxCommits /\ commits' = commits + 1
    /\ LET longer == Append(past, opened)
       IN  past' = IF Len(longer) > MaxHistory THEN Tail(longer) ELSE longer
    /\ future' = <<>> /\ opened' = d
    /\ Persist(d)

\* Mutant: the draft that undo shows is not stored.
ShownOnly(d) == opened' = d /\ UNCHANGED <<stored, kept>>
ShownDraft(d) == opened' = d /\ Persist(d)

Undo ==
    /\ past # <<>> /\ past' = Front(past)
    /\ future' = Append(future, opened)
    /\ ShownDraft(Last(past)) /\ UNCHANGED <<foreign, commits>>

Redo ==
    /\ future # <<>> /\ future' = Front(future)
    /\ past' = Append(past, opened)
    /\ ShownDraft(Last(future)) /\ UNCHANGED <<foreign, commits>>

-----------------------------------------------------------------------------
(* browser.ts: edits *)

\* From the palette, near a selected node or not: a node that has no branches
\* and no connection of its own is connected to the new one in the same step
\* of the history.
AddNode(kind, near) ==
    /\ FreeIds(opened) # {}
    /\ LET id == FreshId(opened)
           wider == WithNode(opened, id, NewNode(kind))
       IN  \/ Commit(wider)
           \/ /\ near \in NodesIn(opened) /\ kind # "trigger" /\ \A c \in opened.connections : c[1] # near
              /\ Connectable(wider, near, id, "main") /\ Commit(Connected(wider, near, id, "main"))
    /\ UNCHANGED foreign

DuplicateNode(id) ==
    /\ id \in NodesIn(opened) /\ FreeIds(opened) # {}
    /\ Commit(WithNode(opened, FreshId(opened), opened.nodes[id])) /\ UNCHANGED foreign

RemoveNode(id) == id \in NodesIn(opened) /\ Commit(Without(opened, id)) /\ UNCHANGED foreign

\* A field of the panel: the node is normalized again.
UpdateNode(id, field) ==
    /\ id \in NodesIn(opened)
    /\ Commit(WithNode(opened, id, Normalized([opened.nodes[id] EXCEPT ![field] = ~@]))) /\ UNCHANGED foreign

TryLink(from, to, branch) ==
    /\ Connectable(opened, from, to, branch)
    /\ Commit(Connected(opened, from, to, branch)) /\ UNCHANGED foreign

Disconnect(c) ==
    /\ c \in opened.connections
    /\ Commit([opened EXCEPT !.connections = @ \ {c}]) /\ UNCHANGED foreign

\* Another parameter of a node, or its name: text, or any JSON whose own key is
\* not forbidden.
SetParameter(id) ==
    /\ id \in NodesIn(opened)
    /\ Commit([WithNode(opened, id, Normalized(opened.nodes[id])) EXCEPT !.look = 1 - @]) /\ UNCHANGED foreign

\* Name and settings of the flow, positions, orientation
Restyle == Commit([opened EXCEPT !.look = 1 - @]) /\ UNCHANGED foreign

\* A file or a pasted text, a template, a new flow: loaded as a draft that
\* can be undone
LoadDraft(d) ==
    /\ d # opened /\ Commit(d)
    /\ foreign' = (foreign \/ ~DraftErrors(AllOn(d)) \subseteq Tolerated)

\* The page is opened again, with what it reads: the history is gone.
Reopen ==
    /\ opened' = IF ReadSaved # NoDraft THEN ReadSaved ELSE StartDraft
    /\ past' = <<>> /\ future' = <<>>
    /\ kept' = TRUE
    /\ UNCHANGED <<stored, foreign, commits>>

EditorInit ==
    /\ opened = StartDraft /\ past = <<>> /\ future = <<>> /\ stored = NoDraft
    /\ kept = TRUE /\ foreign = FALSE /\ commits = 0

EditorNext ==
    \/ Undo \/ Redo \/ Restyle \/ Reopen
    \/ \E kind \in NodeKinds, near \in 0 .. MaxNodes : AddNode(kind, near)
    \/ \E id \in 1 .. MaxNodes :
         \/ DuplicateNode(id) \/ RemoveNode(id) \/ SetParameter(id)
         \/ \E field \in Fields : UpdateNode(id, field)
         \/ \E to \in 1 .. MaxNodes, branch \in Branches : TryLink(id, to, branch)
    \/ \E c \in opened.connections : Disconnect(c)
    \/ \E d \in Imports \cup {NewDraft, StartDraft} : LoadDraft(d)

-----------------------------------------------------------------------------
(* Editing never leads to a draft that the engine would refuse for its graph *)
(* or its approvals, in whatever order nodes are added, copied, connected,   *)
(* turned off and on, removed, undone and redone: unless a file brought a    *)
(* draft that is wrong, or is with all its nodes on, all that can be wrong   *)
(* is a trigger that is missing or a parameter that looks like a key.  What  *)
(* the device keeps is never a draft with such a key, and it is the draft on *)
(* the screen: but for a draft whose text the editor wrote and does not read *)
(* back, which stays until the first edit of the draft that was opened in    *)
(* its place.  (model.ts:263 to 426 and 696 to 701,                          *)
(* validateAutomationWorkflow, workflow.ts:107, and browser.ts:165 and 204)  *)
DraftsHold ==
    /\ ~foreign => \A d \in {opened} \cup ToSet(past) \cup ToSet(future) :
                       DraftErrors(d) \subseteq Tolerated
    /\ stored # NoDraft => ~Blocked(stored)
    /\ kept => IF stored = NoDraft THEN Blocked(opened) \/ past = <<>>
               ELSE stored = opened \/ (Refused(stored) /\ past = <<>> /\ future = <<>>)
=============================================================================
