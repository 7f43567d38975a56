------------------------------ MODULE MCFounder ------------------------------
(* What the Founder meets, one part per behaviour: the requests that wait    *)
(* for his decision, three of two runs, so that one run has two pending at   *)
(* once; a voice session of two connections; and his page, where the voice   *)
(* button begins with a stream, with the recognizer of the browser, or with  *)
(* one socket left and speeches to come.                                     *)
EXTENDS VoiceSession, ApprovalQueue, FounderPage, TLC

CONSTANTS q1, q2, q3, r1, r2, a, b
VARIABLE part

MCRequests == {q1, q2, q3}
MCRuns == {r1, r2}
MCRunOf == (q1 :> r1) @@ (q2 :> r1) @@ (q3 :> r2)

PageParts == {"button", "speech", "run", "panel"}

MCInit ==
    /\ part \in PageParts \cup {"queue", "voice"}
    /\ QueueInit /\ Init /\ RunInit /\ PanelInit
    /\ CASE part = "button" -> VoiceInit("pcm-stream", Links, {}) \/ VoiceInit("browser-fallback", {1, 2}, {})
         [] part = "speech" -> VoiceInit("pcm-stream", {1}, Speeches)
         [] OTHER -> VoiceInit("pcm-stream", {}, {})

MCNext ==
    /\ UNCHANGED part
    /\ IF part = "queue" THEN QueueNext ELSE UNCHANGED queueVars
    /\ IF part = "voice" THEN Next ELSE UNCHANGED vars
    /\ IF part \in {"button", "speech"} THEN VoiceNext ELSE UNCHANGED voiceVars
    /\ IF part = "run" THEN ShownRunNext ELSE UNCHANGED runVars
    /\ IF part = "panel" THEN PanelNext ELSE UNCHANGED panelVars

MCSpec ==
    /\ MCInit /\ [][MCNext]_<<part, queueVars, vars, voiceVars, runVars, panelVars>>
    /\ QueueFairness /\ VoiceFairness
=============================================================================
