----------------------------- MODULE VoiceSession -----------------------------
(* One voice session: its controller (packages/voice/src/session.ts), the    *)
(* duplex engines that feed it (duplex-engine.ts) and the sockets they serve *)
(* (websocket-transport.ts).  Each connection has an engine of its own, all  *)
(* of them share the session.  What is awaited between two callbacks only on *)
(* the microtask queue is one step; speech to text, speaker recognition and  *)
(* speech synthesis take their time.  A speech is named by its generation.   *)
EXTENDS Integers, FiniteSets

CONSTANTS
  Sockets,
  None,
  MaxGeneration,   \* speeches and interruptions of one engine
  MaxChunks,       \* chunks of one speech
  MaxUtterances

ASSUME VoiceAssumption ==
    /\ None \notin Sockets \cup Nat \cup STRING
    /\ {MaxGeneration, MaxChunks, MaxUtterances} \subseteq Nat

VARIABLES
  socket, replacing, registered,       \* the transport
  engine, task, heard,                 \* per engine: life, transcription loop, utterance under recognition
  generation, active, speech, aired,   \* per engine: synthesis
  muted,                               \* speeches that were interrupted      (history)
  phase, microphone, activeRun,
  run,                                 \* the runs, as the session meets them
  uttered                              \* utterances so far                   (bound)

transport == <<socket, replacing, registered>>
synthesis == <<generation, active, speech, aired, muted>>
session == <<phase, microphone, activeRun>>
vars == <<transport, engine, task, heard, synthesis, session, run, uttered>>

SessionRuns == 1..MaxUtterances   \* each utterance starts a run at most
Generations == 1..MaxGeneration
Controls == {"pause", "resume", "cancel"}
Utterances == Controls \cup {"task"}

Init ==
    /\ socket = [s \in Sockets |-> "away"]
    /\ replacing = [s \in Sockets |-> None]
    /\ registered = None
    /\ engine = [s \in Sockets |-> "none"]
    /\ task = [s \in Sockets |-> "none"]
    /\ heard = [s \in Sockets |-> None]
    /\ generation = [s \in Sockets |-> 0]
    /\ active = [s \in Sockets |-> FALSE]
    /\ speech = [s \in Sockets |-> [g \in Generations |-> "none"]]
    /\ aired = [s \in Sockets |-> [g \in Generations |-> 0]]
    /\ muted = [s \in Sockets |-> {}]
    /\ phase = "idle" /\ microphone = FALSE /\ activeRun = None
    /\ run = [r \in SessionRuns |-> "none"]
    /\ uttered = 0

-----------------------------------------------------------------------------
(* The session controller *)

\* A plausible mistake in Resting.
RestingListening(connected) == "listening"

Resting(connected) == IF connected THEN "listening" ELSE "idle"

MicrophoneIs(connected) ==
    /\ microphone' = connected
    /\ phase' = IF activeRun = None THEN Resting(connected) ELSE phase

InRunners(r) == run[r] \in {"running", "paused", "cancelled", "stalled"}

\* What a runner makes of a control; one that has ended, or has no executor
\* left, only says that it heard it.
Controlled(status, u) ==
    IF u = "pause" /\ status = "running" THEN "paused"
    ELSE IF u = "resume" /\ status = "paused" THEN "running"
    ELSE IF u = "cancel" /\ status \in {"running", "paused"} THEN "cancelled"
    ELSE status

\* A control word of a session with a run is for that run; it fails if the run
\* is no longer among the runners.
Commands(u) == u \in Controls /\ activeRun # None
Refused(u) == Commands(u) /\ ~InRunners(activeRun)

Obeys(u) ==
    /\ Commands(u) /\ InRunners(activeRun)
    /\ run' = [run EXCEPT ![activeRun] = Controlled(@, u)]
    /\ activeRun' = IF u = "cancel" THEN None ELSE activeRun
    /\ phase' = CASE u = "pause" -> "paused"
                  [] u = "resume" -> "working"
                  [] u = "cancel" -> Resting(microphone)

\* Anything else is a task, also when another run is at work.
StartsRun(u) ==
    /\ ~Commands(u)
    /\ \E r \in SessionRuns :
         /\ run[r] = "none" /\ \A q \in 1..(r - 1) : run[q] # "none"
         /\ run' = [run EXCEPT ![r] = "running"]
         /\ activeRun' = r
    /\ phase' = "working"

Transcript(u) == (Obeys(u) \/ StartsRun(u)) /\ UNCHANGED microphone

-----------------------------------------------------------------------------
(* Synthesis *)

\* A plausible mistake in Silenced.
SilencedQuietly(s) ==
    /\ muted' = [muted EXCEPT ![s] = IF active[s] THEN @ \cup {generation[s]} ELSE @]
    /\ active' = [active EXCEPT ![s] = FALSE]
    /\ UNCHANGED generation

\* interruptSpeech: the speech under way, if any, is not the current one any more.
Silenced(s) ==
    /\ muted' = [muted EXCEPT ![s] = IF active[s] THEN @ \cup {generation[s]} ELSE @]
    /\ generation' = [generation EXCEPT ![s] = IF active[s] THEN @ + 1 ELSE @]
    /\ active' = [active EXCEPT ![s] = FALSE]

\* speak: a new generation overtakes the one under way.
Speaks(s) ==
    LET g == generation[s] + 1
    IN  /\ g \in Generations
        /\ generation' = [generation EXCEPT ![s] = g]
        /\ speech' = [speech EXCEPT ![s][g] = "waiting"]
        /\ active' = [active EXCEPT ![s] = TRUE]
        /\ UNCHANGED <<aired, muted>>

Current(s, g) == g = generation[s] /\ engine[s] # "stopped"

\* A plausible mistake in Ended.
EndedAlways(s, g, how) ==
    /\ speech' = [speech EXCEPT ![s][g] = IF Current(s, g) THEN how ELSE "interrupted"]
    /\ active' = [active EXCEPT ![s] = FALSE]

\* The end of speak: only the current speech gives the voice back.
Ended(s, g, how) ==
    /\ speech' = [speech EXCEPT ![s][g] = IF Current(s, g) THEN how ELSE "interrupted"]
    /\ active' = [active EXCEPT ![s] = IF g = generation[s] THEN FALSE ELSE @]

NextChunk(s, g) ==
    /\ speech[s][g] = "waiting"
    /\ \/ /\ Current(s, g) /\ aired[s][g] < MaxChunks
          /\ aired' = [aired EXCEPT ![s][g] = @ + 1]
          /\ UNCHANGED <<speech, active>>
       \/ /\ ~Current(s, g)
          /\ Ended(s, g, "interrupted")
          /\ UNCHANGED aired
    /\ UNCHANGED <<transport, engine, task, heard, generation, muted, phase, microphone, activeRun, run, uttered>>

\* The synthesizer has no more chunks, or fails.
SpeechEnds(s, g) ==
    /\ speech[s][g] = "waiting"
    /\ \E how \in {"completed", "failed"} : Ended(s, g, how)
    /\ UNCHANGED <<transport, engine, task, heard, generation, aired, muted, phase, microphone, activeRun, run, uttered>>

\* The client reports that its user speaks.
BargeIn(s) ==
    /\ socket[s] = "open" /\ engine[s] # "none" /\ active[s]
    /\ generation[s] < MaxGeneration
    /\ Silenced(s)
    /\ UNCHANGED <<transport, engine, task, heard, speech, aired, phase, microphone, activeRun, run, uttered>>

-----------------------------------------------------------------------------
(* Connections *)

Connect(s) ==
    /\ socket[s] = "away"
    /\ socket' = [socket EXCEPT ![s] = "open"]
    /\ UNCHANGED <<replacing, registered, engine, task, heard, synthesis, session, run, uttered>>

\* A plausible mistake in Stopped: the input is left open.
StoppedListening(s) ==
    /\ Silenced(s)
    /\ MicrophoneIs(FALSE)
    /\ UNCHANGED <<engine, task, heard, speech, aired>>

\* engine.stop: speech falls silent, the input ends, the microphone is gone.
\* It is awaited until the transcription has ended, by its first caller only.
Stopped(s) ==
    /\ engine' = [engine EXCEPT ![s] = "stopped"]
    /\ Silenced(s)
    /\ MicrophoneIs(FALSE)
    /\ UNCHANGED <<task, heard, speech, aired>>

\* The connection gets an engine, which listens.
Registers(s) ==
    /\ registered' = s
    /\ engine' = [engine EXCEPT ![s] = "live"]
    /\ task' = [task EXCEPT ![s] = "waiting"]
    /\ MicrophoneIs(TRUE)
    /\ UNCHANGED <<heard, synthesis>>

CanSayHello(s) == socket[s] = "open" /\ engine[s] = "none" /\ replacing[s] = None

Hello(s) ==
    /\ CanSayHello(s)
    /\ registered # None => engine[registered] = "stopped"
    /\ socket' = [t \in Sockets |-> IF t = registered /\ socket[t] = "open" THEN "closing" ELSE socket[t]]
    /\ Registers(s)
    /\ UNCHANGED <<replacing, activeRun, run, uttered>>

\* The session has a connection already: it is closed and its engine stopped.
Replace(s) ==
    /\ CanSayHello(s)
    /\ registered # None /\ engine[registered] = "live"
    /\ socket' = [socket EXCEPT ![registered] = IF @ = "open" THEN "closing" ELSE @]
    /\ replacing' = [replacing EXCEPT ![s] = registered]
    /\ Stopped(registered)
    /\ UNCHANGED <<registered, activeRun, run, uttered>>

\* The transcription of the replaced engine has ended.
TakeOver(s) ==
    /\ replacing[s] # None /\ task[replacing[s]] = "ended"
    /\ replacing' = [replacing EXCEPT ![s] = None]
    /\ Registers(s)
    /\ UNCHANGED <<socket, activeRun, run, uttered>>

\* The close event of a socket stops its engine, if it has one.
Close(s) ==
    /\ socket[s] \in {"open", "closing"}
    /\ socket' = [socket EXCEPT ![s] = "gone"]
    /\ registered' = IF registered = s THEN None ELSE registered
    /\ IF engine[s] = "live" THEN Stopped(s)
       ELSE UNCHANGED <<engine, task, heard, synthesis, phase, microphone>>
    /\ UNCHANGED <<replacing, activeRun, run, uttered>>

-----------------------------------------------------------------------------
(* Transcription *)

\* A final transcript; speaker recognition is asked first.
Hear(s, u) ==
    /\ task[s] = "waiting" /\ uttered < MaxUtterances
    /\ task' = [task EXCEPT ![s] = "recognizing"]
    /\ heard' = [heard EXCEPT ![s] = u]
    /\ uttered' = uttered + 1
    /\ UNCHANGED <<transport, engine, synthesis, session, run>>

Handle(s) ==
    /\ task[s] = "recognizing"
    /\ Transcript(heard[s])
    /\ task' = [task EXCEPT ![s] = "waiting"]
    /\ heard' = [heard EXCEPT ![s] = None]
    /\ UNCHANGED <<transport, engine, synthesis, uttered>>

\* The refusal ends the loop over the transcripts, and nothing starts it again.
HandleRefused(s) ==
    /\ task[s] = "recognizing" /\ Refused(heard[s])
    /\ task' = [task EXCEPT ![s] = "ended"]
    /\ heard' = [heard EXCEPT ![s] = None]
    /\ UNCHANGED <<transport, engine, synthesis, session, run, uttered>>

\* The transcripts end after the input; when speech to text fails, at any time.
StreamEnds(s) ==
    /\ task[s] = "waiting" /\ engine[s] = "stopped"
    /\ task' = [task EXCEPT ![s] = "ended"]
    /\ UNCHANGED <<transport, engine, heard, synthesis, session, run, uttered>>

StreamFails(s) ==
    /\ task[s] = "waiting" /\ engine[s] = "live"
    /\ task' = [task EXCEPT ![s] = "ended"]
    /\ UNCHANGED <<transport, engine, heard, synthesis, session, run, uttered>>

-----------------------------------------------------------------------------
(* The session as other requests and the runs see it *)

\* POST /api/voice/utterance; a refusal is only an answer.
Utterance(u) ==
    /\ uttered < MaxUtterances /\ uttered' = uttered + 1
    /\ Transcript(u)
    /\ UNCHANGED <<transport, engine, task, heard, synthesis>>

\* POST /api/voice/microphone, of clients that do not stream.
Microphone(connected) ==
    /\ microphone # connected
    /\ MicrophoneIs(connected)
    /\ UNCHANGED <<transport, engine, task, heard, synthesis, activeRun, run, uttered>>

\* POST /api/runs/:id/control
ControlRun(r, u) ==
    /\ InRunners(r)
    /\ run' = [run EXCEPT ![r] = Controlled(@, u)]
    /\ UNCHANGED <<transport, engine, task, heard, synthesis, session, uttered>>

\* A plausible mistake in Forgotten.
ForgottenAlways(r) ==
    /\ activeRun' = None
    /\ phase' = Resting(microphone)

\* runCompleted: a session with another run is not concerned.
Forgotten(r) ==
    IF activeRun = r
    THEN activeRun' = None /\ phase' = Resting(microphone)
    ELSE UNCHANGED <<activeRun, phase>>

\* The summary of the run's end is spoken to the session it belongs to.
Announced(r) ==
    IF activeRun = r /\ registered # None /\ socket[registered] = "open"
    THEN Speaks(registered)
    ELSE UNCHANGED synthesis

RunCompletes(r) ==
    /\ run[r] = "running"
    /\ run' = [run EXCEPT ![r] = "done"]
    /\ Announced(r) /\ Forgotten(r)
    /\ UNCHANGED <<transport, engine, task, heard, microphone, uttered>>

\* A block, or a failure; a blocked run stays the session's run.
RunBlocks(r) ==
    /\ run[r] \in {"running", "paused", "cancelled"}
    /\ run' = [run EXCEPT ![r] = "blocked"]
    /\ Announced(r)
    /\ phase' = IF activeRun = r THEN "blocked" ELSE phase
    /\ UNCHANGED <<transport, engine, task, heard, microphone, activeRun, uttered>>

RunCancels(r) ==
    /\ run[r] = "cancelled"
    /\ run' = [run EXCEPT ![r] = "done"]
    /\ Forgotten(r)
    /\ UNCHANGED <<transport, engine, task, heard, synthesis, microphone, uttered>>

\* A step that fails while its run is paused ends the executor, not the pause.
RunStalls(r) ==
    /\ run[r] = "paused"
    /\ run' = [run EXCEPT ![r] = "stalled"]
    /\ UNCHANGED <<transport, engine, task, heard, synthesis, session, uttered>>

-----------------------------------------------------------------------------
Next ==
    \/ \E s \in Sockets :
         \/ Connect(s) \/ Hello(s) \/ Replace(s) \/ TakeOver(s) \/ Close(s) \/ BargeIn(s)
         \/ Handle(s) \/ HandleRefused(s) \/ StreamEnds(s) \/ StreamFails(s)
         \/ \E u \in Utterances : Hear(s, u)
         \/ \E g \in Generations : NextChunk(s, g) \/ SpeechEnds(s, g)
    \/ \E u \in Utterances : Utterance(u)
    \/ \E on \in BOOLEAN : Microphone(on)
    \/ \E r \in SessionRuns :
         \/ RunCompletes(r) \/ RunBlocks(r) \/ RunCancels(r) \/ RunStalls(r)
         \/ \E u \in Controls : ControlRun(r, u)

Spec == Init /\ [][Next]_vars

\* The local speech services answer or time out, and a transcript is handled.
\* Nobody has to speak, to connect, or to end a run.
VoiceFairness ==
    \A s \in Sockets :
      /\ WF_vars(TakeOver(s)) /\ WF_vars(Handle(s) \/ HandleRefused(s)) /\ WF_vars(StreamEnds(s))
      /\ \A g \in Generations : WF_vars(SpeechEnds(s, g))

-----------------------------------------------------------------------------
(* What must hold of a voice session, however its connections come and go,   *)
(* its user interrupts it and its runs end.                                  *)

\* Values the variables range over.
TypeOK ==
    /\ socket \in [Sockets -> {"away", "open", "closing", "gone"}]
    /\ replacing \in [Sockets -> Sockets \cup {None}] /\ registered \in Sockets \cup {None}
    /\ engine \in [Sockets -> {"none", "live", "stopped"}]
    /\ task \in [Sockets -> {"none", "waiting", "recognizing", "ended"}]
    /\ heard \in [Sockets -> Utterances \cup {None}]
    /\ generation \in [Sockets -> 0..(MaxGeneration + 1)] /\ active \in [Sockets -> BOOLEAN]
    /\ speech \in [Sockets -> [Generations -> {"none", "waiting", "completed", "interrupted", "failed"}]]
    /\ aired \in [Sockets -> [Generations -> 0..MaxChunks]]
    /\ \A s \in Sockets : muted[s] \subseteq 1..(generation[s] - 1)
    /\ phase \in {"idle", "listening", "working", "paused", "blocked"}
    /\ microphone \in BOOLEAN /\ activeRun \in SessionRuns \cup {None}
    /\ run \in [SessionRuns -> {"none", "running", "paused", "cancelled", "stalled", "blocked", "done"}]
    /\ uttered \in 0..MaxUtterances

\* The phase a client shows and the run it belongs to agree: at rest exactly
\* when there is no run, listening only with a microphone, blocked exactly when
\* the run is blocked, and never at work for a run that is over.
PhaseTellsRun ==
    /\ activeRun = None => phase = IF microphone THEN "listening" ELSE "idle"
    /\ activeRun # None =>
         /\ run[activeRun] \notin {"none", "done"}
         /\ phase \in {"working", "paused", "blocked"}
         /\ phase = "blocked" <=> run[activeRun] = "blocked"

\* A session only lets go of a run that is over or was cancelled: the late end
\* of an older run never takes the newer one away from its user, who could not
\* pause or stop it by voice any more (tests/voice-session.test.ts:33).
NewerRunKept ==
    [][activeRun # None /\ activeRun' = None =>
         run'[activeRun] \in {"done", "cancelled", "stalled"}]_vars

\* Once interrupted, a speech sends no further chunk, whatever the synthesizer
\* still delivers and whatever is said afterwards.
SilencedStaysSilent ==
    [][\A s \in Sockets : \A g \in muted[s] : aired'[s][g] = aired[s][g]]_vars

\* Nothing late undoes what came after it: no older run, no older speech.
LateChangesNothing == NewerRunKept /\ SilencedStaysSilent

\* The engine has the voice exactly while its newest speech is under way: the
\* late end of an older speech does not take it away, and a barge-in is never
\* lost on an engine that believes it is silent.
VoiceIsHeld ==
    \A s \in Sockets :
      active[s] <=> generation[s] \in Generations /\ speech[s][generation[s]] = "waiting"

\* Session and engines agree with the run and with the speech under way.
SessionAgrees == TypeOK /\ PhaseTellsRun /\ VoiceIsHeld

\* A client that connects to a session another connection holds is answered.
HelloAnswered == \A s \in Sockets : replacing[s] # None ~> engine[s] = "live"

-----------------------------------------------------------------------------
(* Statements of the repository that the code does not keep.                *)

\* docs/ADR-001-observable-voice-execution.md "microphone stream stays logically
\* attached to the active Janus session": while a connection serves the session
\* its transcripts are read (speech to text itself never failing).
StaysAttached ==
    [][\A s \in Sockets :
         engine[s] = "live" /\ engine'[s] = "live" /\ task[s] = "recognizing" => task'[s] # "ended"]_vars

\* websocket-transport.ts:221-227: the engine of a closed connection is stopped.
ClosedIsReleased == \A s \in Sockets : socket[s] = "gone" => engine[s] # "live"

\* websocket-transport.ts:154 "session replaced": a session has one live engine.
OneLiveEngine == \A s, t \in Sockets : engine[s] = "live" /\ engine[t] = "live" => s = t
=============================================================================
