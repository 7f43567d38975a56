------------------------------ MODULE MCRecords ------------------------------
(* The records that Founder and operators keep: Blueprint revisions, the     *)
(* assistant profile, library items, projects, business operations,          *)
(* references and identities of the Founder, mail drafts, drafts of flows,   *)
(* the traces of runs, and what recognition keeps of faces and voices.  A    *)
(* behaviour exercises one of them.                                          *)
EXTENDS BlueprintGovernance, AssistantControl, ReusableLibrary, ProjectRecords,
        BusinessOperations, FounderRecords, MailDrafts, FlowEditor, RunTrace,
        HouseholdRecognition, TLC

CONSTANTS t1, t2, a1, a2, b1, b2, s1, i1, i2, p1, p2, h1, h2, x1, q1, q2, r1,
          e1, e2, c1, c2, u1, u2, r2, d1, d2, f1, f2, k1, k2
VARIABLE part

MCAccountOf == (d1 :> a1) @@ (d2 :> a2)

\* A file may bring a draft that the engine takes, one that it does not, and
\* one that it takes while a node is off.
Chain(risky) ==
    [nodes |-> <<NewNode("trigger"), NewNode("step"), [NewNode("step") EXCEPT !.risky = risky]>>,
     connections |-> {<<1, 2, "main">>, <<2, 3, "main">>} \cup (IF risky THEN {<<3, 2, "main">>} ELSE {}),
     look |-> 0]
Looped ==
    [nodes |-> <<NewNode("trigger"), NewNode("step"), [NewNode("step") EXCEPT !.disabled = TRUE]>>,
     connections |-> {<<1, 2, "main">>, <<2, 3, "main">>, <<3, 2, "main">>}, look |-> 0]
MCImports == {Chain(FALSE), Chain(TRUE), Looped}

\* Mounted without a template
MCStart == NewDraft

\* An edit of a name, a setting or a parameter makes a text that is not read back.
MCRefused(d) == d.look = 1

\* The files of the references are written between starts while the clock
\* stands still, or identities are bound while it moves.
OnRecord(url, written, bindings, events, back, time) ==
    /\ base = [stamp |-> 1, urls |-> [q \in References |-> IF q = r1 THEN url ELSE Absent]]
    /\ overlay = [stamp |-> 1, urls |-> [q \in References |-> Absent]]
    /\ chronology = {} /\ running = FALSE
    /\ loaded = [q \in References |-> Absent] /\ bound = [q \in References |-> NotBound]
    /\ now = time /\ fileEdits = written /\ binds = bindings /\ recorded = events /\ steps = back
    /\ careless = FALSE /\ slipped = FALSE

\* A draft of the Founder's account, or one of an account that may not write
Drafted(d) ==
    /\ draft = [e \in Drafts |-> IF e = d THEN Mail({"x"}, "t1", Plain) ELSE Gone]
    /\ flow = [f \in Flows |-> NotLaunched] /\ sent = {} /\ draftEdits = 0

\* A run after two that succeeded, while revisions come into force or while
\* the clock moves; or two at work after one that succeeded
Traced ==
    \/ TraceFrom({1, 3}, {}, 1, MaxHour, MaxSetBacks, 0)
    \/ TraceFrom({1, 3}, {}, MaxActive, 1, 0, MaxTraceRestarts)
    \/ TraceFrom({1}, {2, 3}, 1, MaxHour, MaxSetBacks, MaxTraceRestarts)

MCInit ==
    /\ part \in {"blueprint", "assistant", "library", "projects", "business", "references", "mail", "editor", "trace",
                "faces", "voices"}
    /\ Init /\ ControlInit /\ LibraryInit /\ ProjectInit /\ BusinessInit /\ EditorInit /\ HouseInit
    /\ IF part = "references"
       THEN OnRecord(1, 0, MaxBinds, 0, MaxSteps, MaxTime) \/ OnRecord(1, MaxFileEdits - 1, 0, 0, 0, 1)
       ELSE OnRecord(Absent, MaxFileEdits, MaxBinds, 0, MaxSteps, MaxTime)
    /\ \E d \in (IF part = "mail" THEN Drafts ELSE {d1}) : Drafted(d)
    /\ IF part = "trace" THEN Traced ELSE TraceFrom({}, {}, 1, 1, 0, 0)

MCNext ==
    /\ UNCHANGED part
    /\ IF part = "blueprint" THEN Next ELSE UNCHANGED vars
    /\ IF part = "assistant" THEN ControlNext ELSE UNCHANGED controlVars
    /\ IF part = "library" THEN LibraryNext ELSE UNCHANGED libraryVars
    /\ IF part = "projects" THEN ProjectNext ELSE UNCHANGED projectVars
    /\ IF part = "business" THEN BusinessNext ELSE UNCHANGED businessVars
    /\ IF part = "references" THEN FounderNext ELSE UNCHANGED founderVars
    /\ IF part = "mail" THEN MailNext ELSE UNCHANGED mailVars
    /\ IF part = "editor" THEN EditorNext ELSE UNCHANGED editorVars
    /\ IF part = "trace" THEN TraceNext ELSE UNCHANGED traceVars
    /\ IF part \in {"faces", "voices"} THEN HouseNext ELSE UNCHANGED houseVars
    /\ part = "faces" => UNCHANGED audioVars
    /\ part = "voices" => UNCHANGED <<fileVars, faceVars, moment>>

MCSpec ==
    MCInit /\ [][MCNext]_<<part, vars, controlVars, libraryVars, projectVars, businessVars,
                          founderVars, mailVars, editorVars, traceVars,
                          houseVars>>
=============================================================================
