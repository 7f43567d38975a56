---------------------------- MODULE FounderProofs ----------------------------
(* A voice session agrees with its run and with the speech under way, and    *)
(* nothing late undoes what came after it, for any sockets, speeches, chunks *)
(* and utterances; the page of the Founder says what is, for any numbers of  *)
(* sockets, speeches, commands, events, losses, sessions and polls.          *)
EXTENDS VoiceSession, FounderPage, TLAPS

-----------------------------------------------------------------------------
(* Voice *)

\* Speeches that were not begun have not begun.
Unspoken == \A s \in Sockets, g \in Generations : g > generation[s] => speech[s][g] = "none"
MutedTable == muted = [s \in Sockets |-> muted[s]]
VoiceInv == SessionAgrees /\ Unspoken /\ MutedTable

LEMMA VoiceNumbers ==
    /\ MaxGeneration \in Nat /\ MaxChunks \in Nat /\ MaxUtterances \in Nat
    /\ Generations = 1..MaxGeneration /\ SessionRuns = 1..MaxUtterances
    /\ None \notin SessionRuns /\ None \notin Sockets
<1>1. \A n \in SessionRuns : n \in Nat
  BY VoiceAssumption DEF SessionRuns
<1> QED BY <1>1, VoiceAssumption DEF Generations, SessionRuns

LEMMA VoiceStarts == ASSUME Init PROVE VoiceInv
<1>1. TypeOK
  <2>1. /\ 0 \in 0..(MaxGeneration + 1) /\ 0 \in 0..MaxChunks /\ 0 \in 0..MaxUtterances
    BY VoiceNumbers
  <2>2. /\ aired = [s \in Sockets |-> [g \in Generations |-> 0]]
        /\ speech = [s \in Sockets |-> [g \in Generations |-> "none"]]
    BY DEF Init
  <2>3. aired \in [Sockets -> [Generations -> 0..MaxChunks]]
    BY <2>1, <2>2
  <2>4. speech \in [Sockets -> [Generations -> {"none", "waiting", "completed", "interrupted", "failed"}]]
    BY <2>2
  <2> QED BY <2>1, <2>3, <2>4 DEF Init, TypeOK
<1>2. PhaseTellsRun /\ VoiceIsHeld /\ Unspoken /\ MutedTable
  BY VoiceNumbers DEF Init, PhaseTellsRun, VoiceIsHeld, Unspoken, MutedTable
<1> QED BY <1>1, <1>2 DEF VoiceInv, SessionAgrees

\* What VoiceIsHeld and Unspoken say, and the types, depend on these alone.
SpeechShape ==
    /\ generation \in [Sockets -> 0..(MaxGeneration + 1)] /\ active \in [Sockets -> BOOLEAN]
    /\ speech \in [Sockets -> [Generations -> {"none", "waiting", "completed", "interrupted", "failed"}]]
    /\ aired \in [Sockets -> [Generations -> 0..MaxChunks]]
    /\ \A s \in Sockets : muted[s] \subseteq 1..(generation[s] - 1)
    /\ MutedTable
SpeechInv == SpeechShape /\ VoiceIsHeld /\ Unspoken

RunShape ==
    /\ phase \in {"idle", "listening", "working", "paused", "blocked"}
    /\ microphone \in BOOLEAN /\ activeRun \in SessionRuns \cup {None}
    /\ run \in [SessionRuns -> {"none", "running", "paused", "cancelled", "stalled", "blocked", "done"}]
PhaseInv == RunShape /\ PhaseTellsRun

LinkShape ==
    /\ socket \in [Sockets -> {"away", "open", "closing", "gone"}]
    /\ replacing \in [Sockets -> Sockets \cup {None}] /\ registered \in Sockets \cup {None}
    /\ engine \in [Sockets -> {"none", "live", "stopped"}]
    /\ task \in [Sockets -> {"none", "waiting", "recognizing", "ended"}]
    /\ heard \in [Sockets -> Utterances \cup {None}]
    /\ uttered \in 0..MaxUtterances

LEMMA InvIsParts == VoiceInv <=> SpeechInv /\ PhaseInv /\ LinkShape
BY DEF VoiceInv, SessionAgrees, TypeOK, SpeechInv, SpeechShape, PhaseInv, RunShape, LinkShape

-----------------------------------------------------------------------------
(* Speech *)

LEMMA SpeechUntouched ==
    ASSUME SpeechInv, UNCHANGED synthesis
    PROVE  SpeechInv'
BY DEF SpeechInv, SpeechShape, MutedTable, VoiceIsHeld, Unspoken, synthesis

LEMMA SilencedKeeps ==
    ASSUME SpeechInv, NEW s \in Sockets, Silenced(s), UNCHANGED <<speech, aired>>
    PROVE  SpeechInv'
<1>1. MaxGeneration \in Nat /\ Generations = 1..MaxGeneration
  BY VoiceNumbers
<1>2. CASE ~active[s]
  <2>1. generation' = generation /\ active' = active /\ muted' = muted
    BY <1>2 DEF Silenced, SpeechInv, SpeechShape, MutedTable
  <2> QED BY <2>1 DEF SpeechInv, SpeechShape, MutedTable, VoiceIsHeld, Unspoken
<1>3. CASE active[s]
  <2>1. /\ generation' = [generation EXCEPT ![s] = generation[s] + 1]
        /\ active' = [active EXCEPT ![s] = FALSE]
        /\ muted' = [muted EXCEPT ![s] = muted[s] \cup {generation[s]}]
    BY <1>3 DEF Silenced
  <2>2. generation[s] \in Generations /\ generation[s] \in 1..MaxGeneration
    BY <1>1, <1>3 DEF SpeechInv, VoiceIsHeld
  <2>3. SpeechShape'
    <3>1. generation' \in [Sockets -> 0..(MaxGeneration + 1)] /\ active' \in [Sockets -> BOOLEAN]
      BY <2>1, <2>2, <1>1 DEF SpeechInv, SpeechShape, MutedTable
    <3>2. \A t \in Sockets : muted'[t] \subseteq 1..(generation'[t] - 1)
      <4> SUFFICES ASSUME NEW t \in Sockets, NEW m \in muted'[t] PROVE m \in 1..(generation'[t] - 1)
        OBVIOUS
      <4>1. muted[t] \subseteq 1..(generation[t] - 1)
        BY DEF SpeechInv, SpeechShape
      <4>2. muted'[t] = IF t = s THEN muted[s] \cup {generation[s]} ELSE muted[t]
        BY <2>1 DEF SpeechInv, SpeechShape, MutedTable
      <4>3. generation'[t] = IF t = s THEN generation[s] + 1 ELSE generation[t]
        BY <2>1 DEF SpeechInv, SpeechShape
      <4>4. CASE t = s
        <5>1. m \in 1..(generation[s] - 1) \/ m = generation[s]
          BY <4>1, <4>2, <4>4
        <5> QED BY <5>1, <4>3, <4>4, <2>2, <1>1
      <4>5. CASE t # s
        BY <4>1, <4>2, <4>3, <4>5
      <4> QED BY <4>4, <4>5
    <3>3. MutedTable'
      BY <2>1 DEF SpeechInv, SpeechShape, MutedTable
    <3>4. speech' = speech /\ aired' = aired
      OBVIOUS
    <3> QED BY <3>1, <3>2, <3>3, <3>4 DEF SpeechInv, SpeechShape
  <2>4. VoiceIsHeld'
    <3> SUFFICES ASSUME NEW t \in Sockets
                 PROVE  active'[t] <=> generation'[t] \in Generations /\ speech[t][generation'[t]] = "waiting"
      BY DEF VoiceIsHeld
    <3>1. CASE t # s
      BY <3>1, <2>1 DEF SpeechInv, SpeechShape, MutedTable, VoiceIsHeld
    <3>2. CASE t = s
      <4>1. generation'[t] = generation[s] + 1 /\ active'[t] = FALSE
        BY <3>2, <2>1 DEF SpeechInv, SpeechShape, MutedTable
      <4>2. generation[s] + 1 \in Generations => speech[s][generation[s] + 1] = "none"
        BY <2>2, <1>1 DEF SpeechInv, Unspoken
      <4> QED BY <4>1, <4>2, <3>2
    <3> QED BY <3>1, <3>2
  <2>5. Unspoken'
    BY <2>1, <2>2, <1>1 DEF SpeechInv, SpeechShape, MutedTable, Unspoken
  <2> QED BY <2>3, <2>4, <2>5 DEF SpeechInv
<1> QED BY <1>2, <1>3

LEMMA SpeaksKeeps ==
    ASSUME SpeechInv, NEW s \in Sockets, Speaks(s)
    PROVE  SpeechInv'
<1> DEFINE g == generation[s] + 1
<1>1. MaxGeneration \in Nat /\ Generations = 1..MaxGeneration
  BY VoiceNumbers
<1>2. /\ g \in Generations /\ generation' = [generation EXCEPT ![s] = g]
      /\ speech' = [speech EXCEPT ![s][g] = "waiting"]
      /\ active' = [active EXCEPT ![s] = TRUE] /\ aired' = aired /\ muted' = muted
  BY DEF Speaks
<1>3. g = generation[s] + 1 /\ generation[s] \in Nat /\ g \in 1..MaxGeneration
  BY <1>1, <1>2 DEF SpeechInv, SpeechShape, MutedTable
<1>4. \A t \in Sockets : speech[t] \in [Generations -> {"none", "waiting", "completed", "interrupted", "failed"}]
  BY DEF SpeechInv, SpeechShape, MutedTable
<1> HIDE DEF g
<1>5. SpeechShape'
  <2>1. generation' \in [Sockets -> 0..(MaxGeneration + 1)] /\ active' \in [Sockets -> BOOLEAN]
    BY <1>1, <1>2, <1>3 DEF SpeechInv, SpeechShape, MutedTable
  <2>2. speech' \in [Sockets -> [Generations -> {"none", "waiting", "completed", "interrupted", "failed"}]]
    BY <1>2, <1>4 DEF SpeechInv, SpeechShape, MutedTable
  <2>3. \A t \in Sockets : muted'[t] \subseteq 1..(generation'[t] - 1)
    BY <1>1, <1>2, <1>3, <2>1 DEF SpeechInv, SpeechShape, MutedTable
  <2> QED BY <1>2, <2>1, <2>2, <2>3 DEF SpeechInv, SpeechShape, MutedTable
<1>6. VoiceIsHeld'
  <2> SUFFICES ASSUME NEW t \in Sockets
               PROVE  active'[t] <=> generation'[t] \in Generations /\ speech'[t][generation'[t]] = "waiting"
    BY DEF VoiceIsHeld
  <2>1. CASE t # s
    BY <2>1, <1>2 DEF SpeechInv, SpeechShape, MutedTable, VoiceIsHeld
  <2>2. CASE t = s
    BY <2>2, <1>2, <1>4 DEF SpeechInv, SpeechShape, MutedTable
  <2> QED BY <2>1, <2>2
<1>7. Unspoken'
  <2> SUFFICES ASSUME NEW t \in Sockets, NEW h \in Generations, h > generation'[t]
               PROVE  speech'[t][h] = "none"
    BY DEF Unspoken
  <2>1. CASE t # s
    BY <2>1, <1>2 DEF SpeechInv, SpeechShape, MutedTable, Unspoken
  <2>2. CASE t = s
    <3>1. h > g /\ h > generation[s] /\ h # g
      BY <2>2, <1>1, <1>2, <1>3 DEF SpeechInv, SpeechShape, MutedTable
    <3>2. speech'[s][h] = speech[s][h]
      BY <3>1, <1>2, <1>4 DEF SpeechInv, SpeechShape, MutedTable
    <3> QED BY <3>1, <3>2, <2>2 DEF SpeechInv, Unspoken
  <2> QED BY <2>1, <2>2
<1> QED BY <1>5, <1>6, <1>7 DEF SpeechInv

\* A speech that is under way ends, or goes on.
LEMMA EndedKeeps ==
    ASSUME SpeechInv, NEW s \in Sockets, NEW g \in Generations, NEW how \in {"completed", "interrupted", "failed"},
           speech[s][g] = "waiting", Ended(s, g, how), UNCHANGED <<generation, aired, muted>>
    PROVE  SpeechInv'
<1>1. MaxGeneration \in Nat /\ Generations = 1..MaxGeneration
  BY VoiceNumbers
<1>2. PICK end \in {"completed", "interrupted", "failed"} : speech' = [speech EXCEPT ![s][g] = end]
  BY DEF Ended
<1>3. active' = [active EXCEPT ![s] = IF g = generation[s] THEN FALSE ELSE active[s]]
  BY DEF Ended
<1>4. \A t \in Sockets : speech[t] \in [Generations -> {"none", "waiting", "completed", "interrupted", "failed"}]
  BY DEF SpeechInv, SpeechShape, MutedTable
<1>5. SpeechShape'
  <2>1. active' \in [Sockets -> BOOLEAN]
    BY <1>3 DEF SpeechInv, SpeechShape, MutedTable
  <2>2. speech' \in [Sockets -> [Generations -> {"none", "waiting", "completed", "interrupted", "failed"}]]
    BY <1>2, <1>4 DEF SpeechInv, SpeechShape, MutedTable
  <2> QED BY <2>1, <2>2 DEF SpeechInv, SpeechShape, MutedTable
<1>6. VoiceIsHeld'
  <2> SUFFICES ASSUME NEW t \in Sockets
               PROVE  active'[t] <=> generation[t] \in Generations /\ speech'[t][generation[t]] = "waiting"
    BY DEF VoiceIsHeld
  <2>1. CASE t # s
    BY <2>1, <1>2, <1>3 DEF SpeechInv, SpeechShape, MutedTable, VoiceIsHeld
  <2>2. CASE t = s /\ g = generation[s]
    BY <2>2, <1>2, <1>3, <1>4 DEF SpeechInv, SpeechShape, MutedTable
  <2>3. CASE t = s /\ g # generation[s]
    BY <2>3, <1>2, <1>3, <1>4 DEF SpeechInv, SpeechShape, MutedTable, VoiceIsHeld
  <2> QED BY <2>1, <2>2, <2>3
<1>7. Unspoken'
  <2> SUFFICES ASSUME NEW t \in Sockets, NEW h \in Generations, h > generation[t]
               PROVE  speech'[t][h] = "none"
    BY DEF Unspoken
  <2>1. speech[t][h] = "none"
    BY DEF SpeechInv, Unspoken
  <2> QED BY <2>1, <1>2, <1>4 DEF SpeechInv, SpeechShape, MutedTable
<1> QED BY <1>5, <1>6, <1>7 DEF SpeechInv

LEMMA NextChunkKeeps ==
    ASSUME SpeechInv, NEW s \in Sockets, NEW g \in Generations, NextChunk(s, g)
    PROVE  SpeechInv'
<1>1. CASE Current(s, g) /\ aired[s][g] < MaxChunks /\ aired' = [aired EXCEPT ![s][g] = @ + 1] /\ UNCHANGED <<speech, active>>
  <2>1. generation' = generation /\ muted' = muted /\ speech' = speech /\ active' = active
    BY <1>1 DEF NextChunk
  <2>2. aired' \in [Sockets -> [Generations -> 0..MaxChunks]]
    <3>1. aired[s] \in [Generations -> 0..MaxChunks] /\ aired[s][g] + 1 \in 0..MaxChunks
      BY <1>1, VoiceNumbers DEF SpeechInv, SpeechShape, MutedTable
    <3> QED BY <3>1, <1>1 DEF SpeechInv, SpeechShape, MutedTable
  <2> QED BY <2>1, <2>2 DEF SpeechInv, SpeechShape, MutedTable, VoiceIsHeld, Unspoken
<1>2. CASE Ended(s, g, "interrupted") /\ UNCHANGED aired
  BY <1>2, EndedKeeps DEF NextChunk
<1> QED BY <1>1, <1>2 DEF NextChunk

LEMMA SpeechEndsKeeps ==
    ASSUME SpeechInv, NEW s \in Sockets, NEW g \in Generations, SpeechEnds(s, g)
    PROVE  SpeechInv'
BY EndedKeeps DEF SpeechEnds

-----------------------------------------------------------------------------
(* The run of the session and its phase *)

LEMMA PhaseUntouched ==
    ASSUME PhaseInv, UNCHANGED <<session, run>>
    PROVE  PhaseInv'
BY DEF PhaseInv, RunShape, PhaseTellsRun, session

LEMMA MicrophoneKeeps ==
    ASSUME PhaseInv, NEW connected \in BOOLEAN, MicrophoneIs(connected), UNCHANGED <<activeRun, run>>
    PROVE  PhaseInv'
BY DEF PhaseInv, RunShape, PhaseTellsRun, MicrophoneIs, Resting

LEMMA ControlledIs ==
    ASSUME NEW status \in {"running", "paused", "cancelled", "stalled"}, NEW u \in Controls
    PROVE  Controlled(status, u) \in {"running", "paused", "cancelled", "stalled"}
BY DEF Controlled, Controls

LEMMA ObeysKeeps ==
    ASSUME PhaseInv, NEW u, Obeys(u), microphone' = microphone
    PROVE  PhaseInv'
<1>1. u \in Controls /\ activeRun \in SessionRuns /\ InRunners(activeRun)
  BY DEF Obeys, Commands, PhaseInv, RunShape
<1>2. PICK status \in {"running", "paused", "cancelled", "stalled"} : run' = [run EXCEPT ![activeRun] = status]
  BY <1>1, ControlledIs DEF Obeys, InRunners
<1>3. CASE u = "cancel"
  <2>1. activeRun' = None /\ phase' = Resting(microphone)
    BY <1>3 DEF Obeys
  <2> QED BY <2>1, <1>2 DEF PhaseInv, RunShape, PhaseTellsRun, Resting
<1>4. CASE u # "cancel"
  <2>1. activeRun' = activeRun /\ phase' \in {"paused", "working"}
    BY <1>1, <1>4 DEF Obeys, Controls
  <2>2. activeRun # None
    BY <1>1, VoiceNumbers
  <2> QED BY <2>1, <2>2, <1>1, <1>2 DEF PhaseInv, RunShape, PhaseTellsRun
<1> QED BY <1>3, <1>4

LEMMA StartsKeeps ==
    ASSUME PhaseInv, NEW u, StartsRun(u), microphone' = microphone
    PROVE  PhaseInv'
<1>1. PICK r \in SessionRuns : run' = [run EXCEPT ![r] = "running"] /\ activeRun' = r
  BY DEF StartsRun
<1>2. phase' = "working" /\ r # None
  BY VoiceNumbers DEF StartsRun
<1> QED BY <1>1, <1>2 DEF PhaseInv, RunShape, PhaseTellsRun

LEMMA TranscriptKeeps ==
    ASSUME PhaseInv, NEW u, Transcript(u)
    PROVE  PhaseInv'
BY ObeysKeeps, StartsKeeps DEF Transcript

\* A run that ends, while the session has it or another one.
LEMMA ForgottenKeeps ==
    ASSUME PhaseInv, NEW r \in SessionRuns, run' = [run EXCEPT ![r] = "done"], Forgotten(r), microphone' = microphone
    PROVE  PhaseInv'
<1>1. CASE activeRun = r
  BY <1>1 DEF PhaseInv, RunShape, PhaseTellsRun, Forgotten, Resting
<1>2. CASE activeRun # r
  BY <1>2 DEF PhaseInv, RunShape, PhaseTellsRun, Forgotten
<1> QED BY <1>1, <1>2

LEMMA BlocksKeeps ==
    ASSUME PhaseInv, NEW r \in SessionRuns, RunBlocks(r)
    PROVE  PhaseInv'
<1>1. r # None
  BY VoiceNumbers
<1>2. CASE activeRun = r
  BY <1>1, <1>2 DEF PhaseInv, RunShape, PhaseTellsRun, RunBlocks
<1>3. CASE activeRun # r
  BY <1>3 DEF PhaseInv, RunShape, PhaseTellsRun, RunBlocks
<1> QED BY <1>2, <1>3

LEMMA ControlKeeps ==
    ASSUME PhaseInv, NEW r \in SessionRuns, NEW u \in Controls, ControlRun(r, u)
    PROVE  PhaseInv'
<1>1. PICK status \in {"running", "paused", "cancelled", "stalled"} : run' = [run EXCEPT ![r] = status]
  BY ControlledIs DEF ControlRun, InRunners
<1>2. run[r] \in {"running", "paused", "cancelled", "stalled"}
  BY DEF ControlRun, InRunners
<1>3. activeRun' = activeRun /\ phase' = phase /\ microphone' = microphone
  BY DEF ControlRun, session
<1> QED BY <1>1, <1>2, <1>3 DEF PhaseInv, RunShape, PhaseTellsRun

LEMMA StallsKeeps ==
    ASSUME PhaseInv, NEW r \in SessionRuns, RunStalls(r)
    PROVE  PhaseInv'
BY DEF PhaseInv, RunShape, PhaseTellsRun, RunStalls, session

-----------------------------------------------------------------------------
(* The connections *)

LEMMA StoppedKeeps ==
    ASSUME SpeechInv, PhaseInv, NEW s \in Sockets, Stopped(s), UNCHANGED <<activeRun, run>>
    PROVE  SpeechInv' /\ PhaseInv' /\ engine' = [engine EXCEPT ![s] = "stopped"] /\ task' = task /\ heard' = heard
<1>1. /\ Silenced(s) /\ speech' = speech /\ aired' = aired /\ MicrophoneIs(FALSE)
      /\ engine' = [engine EXCEPT ![s] = "stopped"] /\ task' = task /\ heard' = heard
  BY DEF Stopped
<1> QED BY <1>1, SilencedKeeps, MicrophoneKeeps

LEMMA RegistersKeeps ==
    ASSUME SpeechInv, PhaseInv, LinkShape, NEW s \in Sockets, Registers(s), UNCHANGED <<activeRun, run, uttered>>,
           socket' \in [Sockets -> {"away", "open", "closing", "gone"}],
           replacing' \in [Sockets -> Sockets \cup {None}]
    PROVE  SpeechInv' /\ PhaseInv' /\ LinkShape'
<1>1. UNCHANGED synthesis /\ MicrophoneIs(TRUE)
  BY DEF Registers
<1>2. LinkShape'
  BY DEF LinkShape, Registers
<1> QED BY <1>1, <1>2, SpeechUntouched, MicrophoneKeeps

LEMMA ConnectionsKeep ==
    ASSUME SpeechInv, PhaseInv, LinkShape, NEW s \in Sockets,
           Connect(s) \/ Hello(s) \/ Replace(s) \/ TakeOver(s) \/ Close(s) \/ BargeIn(s)
    PROVE  SpeechInv' /\ PhaseInv' /\ LinkShape'
<1>1. CASE Connect(s)
  <2>1. UNCHANGED synthesis /\ UNCHANGED <<session, run>>
    BY <1>1 DEF Connect
  <2>2. LinkShape'
    BY <1>1 DEF Connect, LinkShape
  <2> QED BY <2>1, <2>2, SpeechUntouched, PhaseUntouched
<1>2. CASE Hello(s)
  <2>1. /\ socket' \in [Sockets -> {"away", "open", "closing", "gone"}]
        /\ replacing' \in [Sockets -> Sockets \cup {None}] /\ Registers(s)
        /\ UNCHANGED <<activeRun, run, uttered>>
    BY <1>2 DEF Hello, LinkShape
  <2> QED BY <2>1, RegistersKeeps
<1>3. CASE Replace(s)
  <2>1. registered \in Sockets /\ Stopped(registered) /\ UNCHANGED <<activeRun, run>>
    BY <1>3 DEF Replace, LinkShape
  <2>2. SpeechInv' /\ PhaseInv' /\ engine' = [engine EXCEPT ![registered] = "stopped"] /\ task' = task /\ heard' = heard
    BY <2>1, StoppedKeeps
  <2>3. LinkShape'
    BY <1>3, <2>1, <2>2 DEF Replace, LinkShape
  <2> QED BY <2>2, <2>3
<1>4. CASE TakeOver(s)
  <2>1. /\ socket' \in [Sockets -> {"away", "open", "closing", "gone"}]
        /\ replacing' \in [Sockets -> Sockets \cup {None}] /\ Registers(s)
        /\ UNCHANGED <<activeRun, run, uttered>>
    BY <1>4 DEF TakeOver, LinkShape
  <2> QED BY <2>1, RegistersKeeps
<1>5. CASE Close(s)
  <2>1. socket' \in [Sockets -> {"away", "open", "closing", "gone"}] /\ registered' \in Sockets \cup {None}
        /\ UNCHANGED <<replacing, activeRun, run, uttered>>
    BY <1>5 DEF Close, LinkShape
  <2>2. CASE engine[s] = "live"
    <3>1. Stopped(s)
      BY <1>5, <2>2 DEF Close
    <3>2. SpeechInv' /\ PhaseInv' /\ engine' = [engine EXCEPT ![s] = "stopped"] /\ task' = task /\ heard' = heard
      BY <2>1, <3>1, StoppedKeeps
    <3> QED BY <2>1, <3>2 DEF LinkShape
  <2>3. CASE engine[s] # "live"
    <3>1. UNCHANGED <<engine, task, heard, synthesis, phase, microphone>>
      BY <1>5, <2>3 DEF Close
    <3> QED BY <2>1, <3>1, SpeechUntouched, PhaseUntouched DEF LinkShape, session
  <2> QED BY <2>2, <2>3
<1>6. CASE BargeIn(s)
  <2>1. Silenced(s) /\ UNCHANGED <<speech, aired>> /\ UNCHANGED <<session, run>>
    BY <1>6 DEF BargeIn, session
  <2>2. LinkShape'
    BY <1>6 DEF BargeIn, transport, LinkShape
  <2> QED BY <2>1, <2>2, SilencedKeeps, PhaseUntouched
<1> QED BY <1>1, <1>2, <1>3, <1>4, <1>5, <1>6

LEMMA TranscriptionKeeps ==
    ASSUME SpeechInv, PhaseInv, LinkShape, NEW s \in Sockets,
           \/ Handle(s) \/ HandleRefused(s) \/ StreamEnds(s) \/ StreamFails(s)
           \/ \E u \in Utterances : Hear(s, u)
    PROVE  SpeechInv' /\ PhaseInv' /\ LinkShape'
<1>1. UNCHANGED synthesis
  BY DEF Handle, HandleRefused, StreamEnds, StreamFails, Hear
<1>2. PhaseInv'
  <2>1. CASE Handle(s)
    BY <2>1, TranscriptKeeps DEF Handle
  <2>2. CASE ~Handle(s)
    <3>1. UNCHANGED <<session, run>>
      BY <2>2 DEF HandleRefused, StreamEnds, StreamFails, Hear
    <3> QED BY <3>1, PhaseUntouched
  <2> QED BY <2>1, <2>2
<1>3. LinkShape'
  <2>1. UNCHANGED transport /\ engine' = engine
    BY DEF Handle, HandleRefused, StreamEnds, StreamFails, Hear
  <2>2. task' \in [Sockets -> {"none", "waiting", "recognizing", "ended"}]
    BY DEF Handle, HandleRefused, StreamEnds, StreamFails, Hear, LinkShape
  <2>3. heard' \in [Sockets -> Utterances \cup {None}]
    BY DEF Handle, HandleRefused, StreamEnds, StreamFails, Hear, LinkShape
  <2>4. uttered' = uttered \/ (uttered < MaxUtterances /\ uttered' = uttered + 1)
    BY DEF Handle, HandleRefused, StreamEnds, StreamFails, Hear
  <2>5. uttered' \in 0..MaxUtterances
    BY <2>4, VoiceNumbers DEF LinkShape
  <2> QED BY <2>1, <2>2, <2>3, <2>5 DEF LinkShape, transport
<1> QED BY <1>1, <1>2, <1>3, SpeechUntouched

LEMMA SpeechesKeep ==
    ASSUME SpeechInv, PhaseInv, LinkShape, NEW s \in Sockets, NEW g \in Generations,
           NextChunk(s, g) \/ SpeechEnds(s, g)
    PROVE  SpeechInv' /\ PhaseInv' /\ LinkShape'
<1>1. UNCHANGED <<transport, engine, task, heard, phase, microphone, activeRun, run, uttered>>
  BY DEF NextChunk, SpeechEnds
<1>2. LinkShape' /\ PhaseInv'
  BY <1>1, PhaseUntouched DEF LinkShape, transport, session
<1> QED BY <1>2, NextChunkKeeps, SpeechEndsKeeps

LEMMA AnnouncedKeeps ==
    ASSUME SpeechInv, LinkShape, NEW r, Announced(r)
    PROVE  SpeechInv'
<1>1. CASE activeRun = r /\ registered # None /\ socket[registered] = "open"
  <2>1. registered \in Sockets /\ Speaks(registered)
    BY <1>1 DEF Announced, LinkShape
  <2> QED BY <2>1, SpeaksKeeps
<1>2. CASE ~(activeRun = r /\ registered # None /\ socket[registered] = "open")
  BY <1>2, SpeechUntouched DEF Announced
<1> QED BY <1>1, <1>2

LEMMA RunsKeep ==
    ASSUME SpeechInv, PhaseInv, LinkShape, NEW r \in SessionRuns,
           \/ RunCompletes(r) \/ RunBlocks(r) \/ RunCancels(r) \/ RunStalls(r)
           \/ \E u \in Controls : ControlRun(r, u)
    PROVE  SpeechInv' /\ PhaseInv' /\ LinkShape'
<1>1. UNCHANGED <<transport, engine, task, heard, uttered>>
  BY DEF RunCompletes, RunBlocks, RunCancels, RunStalls, ControlRun
<1>2. LinkShape'
  BY <1>1 DEF LinkShape, transport
<1>3. CASE RunCompletes(r)
  BY <1>2, <1>3, AnnouncedKeeps, ForgottenKeeps DEF RunCompletes
<1>4. CASE RunBlocks(r)
  BY <1>2, <1>4, AnnouncedKeeps, BlocksKeeps DEF RunBlocks
<1>5. CASE RunCancels(r)
  BY <1>2, <1>5, SpeechUntouched, ForgottenKeeps DEF RunCancels
<1>6. CASE RunStalls(r)
  BY <1>2, <1>6, SpeechUntouched, StallsKeeps DEF RunStalls
<1>7. ASSUME NEW u \in Controls, ControlRun(r, u) PROVE SpeechInv' /\ PhaseInv'
  BY <1>7, SpeechUntouched, ControlKeeps DEF ControlRun
<1> QED BY <1>2, <1>3, <1>4, <1>5, <1>6, <1>7

LEMMA VoiceKeeps ==
    ASSUME VoiceInv, [Next]_vars
    PROVE  VoiceInv'
<1>1. SpeechInv /\ PhaseInv /\ LinkShape
  BY InvIsParts
<1>2. SpeechInv' /\ PhaseInv' /\ LinkShape'
  <2>1. CASE UNCHANGED vars
    <3>1. UNCHANGED synthesis /\ UNCHANGED <<session, run>>
      BY <2>1 DEF vars
    <3>2. LinkShape'
      BY <2>1, <1>1 DEF vars, transport, LinkShape
    <3> QED BY <1>1, <3>1, <3>2, SpeechUntouched, PhaseUntouched
  <2>2. ASSUME NEW s \in Sockets,
               Connect(s) \/ Hello(s) \/ Replace(s) \/ TakeOver(s) \/ Close(s) \/ BargeIn(s)
        PROVE  SpeechInv' /\ PhaseInv' /\ LinkShape'
    BY <1>1, <2>2, ConnectionsKeep
  <2>3. ASSUME NEW s \in Sockets,
               \/ Handle(s) \/ HandleRefused(s) \/ StreamEnds(s) \/ StreamFails(s)
               \/ \E u \in Utterances : Hear(s, u)
        PROVE  SpeechInv' /\ PhaseInv' /\ LinkShape'
    BY <1>1, <2>3, TranscriptionKeeps
  <2>4. ASSUME NEW s \in Sockets, NEW g \in Generations, NextChunk(s, g) \/ SpeechEnds(s, g)
        PROVE  SpeechInv' /\ PhaseInv' /\ LinkShape'
    BY <1>1, <2>4, SpeechesKeep
  <2>5. ASSUME NEW u \in Utterances, Utterance(u)
        PROVE  SpeechInv' /\ PhaseInv' /\ LinkShape'
    <3>1. UNCHANGED synthesis /\ Transcript(u) /\ uttered < MaxUtterances /\ uttered' = uttered + 1
          /\ UNCHANGED <<transport, engine, task, heard>>
      BY <2>5 DEF Utterance
    <3>2. uttered' \in 0..MaxUtterances
      BY <1>1, <3>1, VoiceNumbers DEF LinkShape
    <3>3. LinkShape'
      BY <1>1, <3>1, <3>2 DEF LinkShape, transport
    <3> QED BY <1>1, <3>1, <3>3, SpeechUntouched, TranscriptKeeps
  <2>6. ASSUME NEW on \in BOOLEAN, Microphone(on)
        PROVE  SpeechInv' /\ PhaseInv' /\ LinkShape'
    <3>1. UNCHANGED synthesis /\ MicrophoneIs(on) /\ UNCHANGED <<activeRun, run>>
          /\ UNCHANGED <<transport, engine, task, heard, uttered>>
      BY <2>6 DEF Microphone
    <3>2. LinkShape'
      BY <1>1, <3>1 DEF LinkShape, transport
    <3> QED BY <1>1, <3>1, <3>2, SpeechUntouched, MicrophoneKeeps
  <2>7. ASSUME NEW r \in SessionRuns,
               \/ RunCompletes(r) \/ RunBlocks(r) \/ RunCancels(r) \/ RunStalls(r)
               \/ \E u \in Controls : ControlRun(r, u)
        PROVE  SpeechInv' /\ PhaseInv' /\ LinkShape'
    BY <1>1, <2>7, RunsKeep
  <2> QED BY <2>1, <2>2, <2>3, <2>4, <2>5, <2>6, <2>7 DEF Next
<1> QED
  BY <1>2 DEF VoiceInv, SessionAgrees, TypeOK, SpeechInv, SpeechShape, PhaseInv, RunShape, LinkShape

\* The phase tells the run, and an engine has the voice while its newest speech
\* is under way, for any sockets, speeches and utterances (session.ts;
\* duplex-engine.ts: speak, interruptSpeech).
THEOREM SessionHolds == Spec => []SessionAgrees
<1>1. VoiceInv => SessionAgrees
  BY DEF VoiceInv
<1> QED BY <1>1, VoiceStarts, VoiceKeeps, PTL DEF Spec

\* A run leaves the session when it is over or cancelled.
LEMMA RunIsKept ==
    ASSUME VoiceInv, [Next]_vars, activeRun # None, activeRun' = None
    PROVE  run'[activeRun] \in {"done", "cancelled", "stalled"}
<1>1. activeRun \in SessionRuns /\ RunShape
  BY DEF VoiceInv, SessionAgrees, TypeOK, RunShape
<1>2. ASSUME NEW u, Transcript(u) PROVE run'[activeRun] \in {"cancelled", "stalled"}
  <2>1. ~StartsRun(u)
    BY VoiceNumbers DEF StartsRun
  <2>2. Obeys(u) /\ u = "cancel"
    BY <1>2, <2>1 DEF Transcript, Obeys
  <2>3. run'[activeRun] = Controlled(run[activeRun], "cancel") /\ InRunners(activeRun)
    BY <2>2, <1>1 DEF Obeys, RunShape
  <2> QED BY <2>3 DEF Controlled, InRunners
<1>3. ASSUME NEW r \in SessionRuns, RunCompletes(r) \/ RunCancels(r) PROVE run'[activeRun] = "done"
  <2>1. Forgotten(r) /\ run' = [run EXCEPT ![r] = "done"]
    BY <1>3 DEF RunCompletes, RunCancels
  <2>2. r = activeRun
    BY <2>1 DEF Forgotten
  <2> QED BY <2>1, <2>2, <1>1 DEF RunShape
<1>4. \/ \E u \in Utterances : Utterance(u)
      \/ \E s \in Sockets : Handle(s)
      \/ \E r \in SessionRuns : RunCompletes(r) \/ RunCancels(r)
  BY DEF Next, vars, session, Connect, Hello, Replace, TakeOver, Close, BargeIn, HandleRefused, StreamEnds,
         StreamFails, Hear, NextChunk, SpeechEnds, Microphone, RunBlocks, RunStalls, ControlRun
<1> QED BY <1>2, <1>3, <1>4 DEF Utterance, Handle

\* A speech that was silenced is an earlier one than the current.
LEMMA NothingIsAired ==
    ASSUME VoiceInv, [Next]_vars, NEW s \in Sockets, NEW g \in muted[s]
    PROVE  aired'[s][g] = aired[s][g]
<1>1. SpeechInv
  BY InvIsParts
<1>2. g \in 1..(generation[s] - 1) /\ generation[s] \in 0..(MaxGeneration + 1)
  BY <1>1 DEF SpeechInv, SpeechShape
<1>3. g # generation[s] /\ g \in Generations
  BY <1>2, VoiceNumbers
<1>4. CASE aired' = aired
  BY <1>4
<1>5. ASSUME NEW t \in Sockets, NEW h \in Generations, NextChunk(t, h), aired' # aired
      PROVE  aired'[s][g] = aired[s][g]
  <2>1. Current(t, h) /\ aired' = [aired EXCEPT ![t][h] = aired[t][h] + 1]
    BY <1>5 DEF NextChunk
  <2>2. <<t, h>> # <<s, g>>
    BY <2>1, <1>3 DEF Current
  <2> QED BY <2>1, <2>2, <1>1, <1>3 DEF SpeechInv, SpeechShape
<1>6. aired' = aired \/ \E t \in Sockets, h \in Generations : NextChunk(t, h)
  BY DEF Next, vars, synthesis, session, Connect, Hello, Replace, TakeOver, Close, BargeIn, Handle, HandleRefused,
         StreamEnds, StreamFails, Hear, SpeechEnds, Microphone, RunCompletes, RunBlocks, RunCancels, RunStalls,
         ControlRun, Utterance, Announced, Speaks, Registers, Stopped
<1> QED BY <1>4, <1>5, <1>6

\* The late end of an older run takes no newer one away, and a speech that was
\* interrupted sends no chunk any more (session.ts: runCompleted;
\* duplex-engine.ts: speak).
THEOREM LateIsLate == Spec => LateChangesNothing
<1>1. Spec => []VoiceInv
  BY VoiceStarts, VoiceKeeps, PTL DEF Spec
<1>2. VoiceInv /\ [Next]_vars =>
        [activeRun # None /\ activeRun' = None => run'[activeRun] \in {"done", "cancelled", "stalled"}]_vars
  BY RunIsKept
<1>3. VoiceInv /\ [Next]_vars => [\A s \in Sockets : \A g \in muted[s] : aired'[s][g] = aired[s][g]]_vars
  BY NothingIsAired
<1> QED BY <1>1, <1>2, <1>3, PTL DEF Spec, LateChangesNothing, NewerRunKept, SilencedStaysSilent

-----------------------------------------------------------------------------
(* The page: its microphone                                                  *)

\* The stream is open from the moment it is granted until what started it has
\* gone, and one start at most is failing.
MicrophoneInv ==
    /\ live = IF stream THEN 1 ELSE 0
    /\ stream \in BOOLEAN /\ voiceMode \in {"pcm-stream", "browser-fallback"}
    /\ stream => starting = "resuming" \/ (starting = "no" /\ listening)
    /\ voiceMode = "browser-fallback" => starting = "no" /\ ~stream
    /\ \A s \in stops : s.caller = "start" => starting = "failing"
    /\ \A s, t \in stops : s.caller = "start" /\ t.caller = "start" => s = t

\* What Stop does to them, whoever calls it
LEMMA StopKeeps ==
    ASSUME MicrophoneInv, NEW l, NEW links, NEW caller \in {"button", "close", "start"}, Stop(l, links, caller),
           voiceMode' = voiceMode, voiceMode = "pcm-stream",
           caller = "start" => starting \notin {"no", "failing"}
    PROVE  MicrophoneInv'
<1>1. live' = 0 /\ stream' = FALSE
  BY DEF Stop, MicrophoneInv
<1>2. CASE context
  <2>1. stops' = stops \cup {[socket |-> l, caller |-> caller]} /\ starting' = IF caller = "start" THEN "failing" ELSE starting
    BY <1>2 DEF Stop
  <2>2. CASE caller = "start"
    <3>1. \A s \in stops : s.caller # "start"
      BY <2>2 DEF MicrophoneInv
    <3> QED BY <1>1, <2>1, <2>2, <3>1 DEF MicrophoneInv
  <2>3. CASE caller # "start"
    <3>1. [socket |-> l, caller |-> caller].caller # "start"
      BY <2>3
    <3> QED BY <1>1, <2>1, <2>3, <3>1 DEF MicrophoneInv
  <2> QED BY <2>2, <2>3
<1>3. CASE ~context
  <2>1. stops' = stops /\ starting' = IF caller = "start" THEN "no" ELSE starting
    BY <1>3 DEF Stop
  <2> QED BY <1>1, <2>1 DEF MicrophoneInv
<1> QED BY <1>2, <1>3

LEMMA MicrophoneKept ==
    ASSUME MicrophoneInv, [VoiceNext]_voiceVars
    PROVE  MicrophoneInv'
<1>1. ASSUME UNCHANGED <<button, starting, stream, live, stops>>, listening \/ ~listening' => listening' = listening
      PROVE  MicrophoneInv'
  BY <1>1 DEF MicrophoneInv, button
<1>2. CASE UNCHANGED voiceVars
  BY <1>1, <1>2 DEF voiceVars, button, capture
<1>3. CASE PressStop
  BY <1>3, StopKeeps DEF PressStop, button
<1>4. ASSUME NEW l \in Links, PressStart(l) PROVE MicrophoneInv'
  BY <1>4 DEF PressStart, Pressed, MicrophoneInv, button
<1>5. ASSUME NEW l \in Links, Opens(l) PROVE MicrophoneInv'
  BY <1>5 DEF Opens, MicrophoneInv, button
<1>6. CASE Greeted \/ ModuleLoads
  BY <1>6 DEF Greeted, ModuleLoads, MicrophoneInv, button
<1>7. CASE Granted
  BY <1>7 DEF Granted, MicrophoneInv, button
<1>8. CASE GrantedInVain \/ StartFails
  BY <1>8, StopKeeps DEF GrantedInVain, StartFails, MicrophoneInv, button
<1>9. CASE Started
  BY <1>9 DEF Started, MicrophoneInv, button
<1>10. ASSUME NEW l \in Links, Closes(l) PROVE MicrophoneInv'
  <2>1. CASE listening /\ voiceMode = "pcm-stream"
    <3>1. PICK mine, links : Stop(mine, links, "close")
      BY <1>10, <2>1 DEF Closes
    <3> QED BY <1>10, <2>1, <3>1, StopKeeps DEF Closes, button
  <2>2. CASE ~(listening /\ voiceMode = "pcm-stream")
    BY <1>1, <1>10, <2>2 DEF Closes
  <2> QED BY <2>1, <2>2
<1>11. ASSUME NEW s \in stops, StopEnds(s) PROVE MicrophoneInv'
  BY <1>11 DEF StopEnds, MicrophoneInv, button
<1>12. CASE PressRecognizer \/ RecognizerStarts \/ RecognizerEnds \/ StreamAvailable
  BY <1>12 DEF PressRecognizer, RecognizerStarts, RecognizerEnds, StreamAvailable, MicrophoneInv, capture, Pressed
<1>13. CASE Onset \/ Silence \/ Bytes \/ Resumes
  BY <1>1, <1>13 DEF Onset, Silence, Bytes, Resumes, capture
<1>14. ASSUME NEW n \in Speeches, SpeechStarted(n) \/ SpeechAudio(n) \/ SpeechCompleted(n) \/ SpeechInterrupted(n)
       PROVE  MicrophoneInv'
  BY <1>1, <1>14 DEF SpeechStarted, SpeechAudio, SpeechCompleted, SpeechInterrupted, capture
<1>15. ASSUME NEW c \in playing, SourceEnds(c) PROVE MicrophoneInv'
  BY <1>1, <1>15 DEF SourceEnds, capture
<1> QED BY <1>2, <1>3, <1>4, <1>5, <1>6, <1>7, <1>8, <1>9, <1>10, <1>11, <1>12, <1>13, <1>14, <1>15 DEF VoiceNext

-----------------------------------------------------------------------------
(* The page: the run it shows *)

RunEvents == {"heard", "paused", "resumed", "ended"}
ShownShape ==
    /\ log \in [Turns -> Seq(RunEvents)] /\ currentRunId \in Turns \cup {0}
    /\ currentRunActive \in BOOLEAN /\ paused \in BOOLEAN /\ received \in Nat
    /\ \A c \in controls : c.run \in Turns

\* Nothing is told of a run after its end.
EndsOnce == \A r \in Turns : \A i \in 1..Len(log[r]) : log[r][i] = "ended" => i = Len(log[r])

\* Of what has been received of run r: a pause that is shown was told, and not
\* taken back since; one that was told and is not shown was taken back.
ShowsRun(r) ==
    /\ received <= Len(log[r])
    /\ ~currentRunActive => Over(r)
    /\ currentRunActive => \A i \in 1..received : log[r][i] # "ended"
    /\ paused => \E i \in 1..Len(log[r]) : log[r][i] = "paused" /\ \A j \in i..received : log[r][j] \notin {"resumed", "ended"}
    /\ ~paused => \A i \in 1..received : log[r][i] = "paused" => \E j \in i..received : log[r][j] \in {"resumed", "ended"}

ShownInv ==
    /\ ShownShape /\ EndsOnce /\ asked \in [Turns -> {"no", "sent", "answered"}]
    /\ Shown => ShowsRun(currentRunId) /\ asked[currentRunId] # "no"

LEMMA ShownTells == ASSUME ShownInv PROVE ControlsTellRun
<1> SUFFICES ASSUME Shown, received = Len(log[currentRunId])
             PROVE  /\ currentRunActive <=> ~Over(currentRunId)
                    /\ paused <=> Held(currentRunId) /\ ~Over(currentRunId)
  BY DEF ControlsTellRun
<1> DEFINE r == currentRunId
           told == log[r]
<1>1. r \in Turns /\ told \in Seq(RunEvents) /\ Len(told) \in Nat /\ ShowsRun(r) /\ received = Len(told)
  BY DEF ShownInv, ShownShape, Shown
<1>2. \A i \in 1..Len(told) : told[i] = "ended" => i = Len(told)
  BY <1>1 DEF ShownInv, EndsOnce
<1>3. Over(r) <=> Len(told) > 0 /\ told[Len(told)] = "ended"
  BY <1>1 DEF Over
<1>4. currentRunActive <=> ~Over(r)
  BY <1>1, <1>3 DEF ShowsRun
<1>5. ASSUME paused PROVE Held(r) /\ ~Over(r)
  <2>1. PICK i \in 1..Len(told) : told[i] = "paused" /\ \A j \in i..Len(told) : told[j] \notin {"resumed", "ended"}
    BY <1>1, <1>5 DEF ShowsRun
  <2> QED BY <2>1, <1>1, <1>3 DEF Held
<1>6. ASSUME ~paused, ~Over(r) PROVE ~Held(r)
  <2> SUFFICES ASSUME NEW i \in 1..Len(told), told[i] = "paused"
               PROVE  \E j \in i..Len(told) : told[j] = "resumed"
    BY DEF Held
  <2>1. PICK j \in i..Len(told) : told[j] \in {"resumed", "ended"}
    BY <1>1, <1>6 DEF ShowsRun
  <2>2. told[j] # "ended"
    BY <2>1, <1>1, <1>2, <1>3, <1>6
  <2> QED BY <2>1, <2>2
<1> QED BY <1>4, <1>5, <1>6

\* A run is told one thing more.
LEMMA ToldKeeps ==
    ASSUME ShownInv, NEW r \in Turns, NEW event \in RunEvents, log' = [log EXCEPT ![r] = Append(log[r], event)], ~Over(r),
           UNCHANGED <<asked, currentRunId, currentRunActive, paused, received>>,
           controls' \subseteq controls
    PROVE  ShownInv'
<1>1. log[r] \in Seq(RunEvents) /\ Len(log[r]) \in Nat
  BY DEF ShownInv, ShownShape
<1>2. /\ Append(log[r], event) \in Seq(RunEvents) /\ Len(Append(log[r], event)) = Len(log[r]) + 1
      /\ \A i \in 1..Len(log[r]) : Append(log[r], event)[i] = log[r][i]
      /\ Append(log[r], event)[Len(log[r]) + 1] = event
  BY <1>1
<1>3. \A q \in Turns : log'[q] = IF q = r THEN Append(log[r], event) ELSE log[q]
  BY DEF ShownInv, ShownShape
<1>4. ShownShape'
  BY <1>2 DEF ShownInv, ShownShape
<1>5. \A i \in 1..Len(log[r]) : log[r][i] # "ended"
  <2>1. log[r] # <<>> <=> Len(log[r]) > 0
    BY <1>1
  <2> QED BY <2>1, <1>1 DEF ShownInv, EndsOnce, Over
<1>6. EndsOnce'
  <2> SUFFICES ASSUME NEW q \in Turns, NEW i \in 1..Len(log'[q]), log'[q][i] = "ended"
               PROVE  i = Len(log'[q])
    BY DEF EndsOnce
  <2>1. CASE q = r
    BY <2>1, <1>1, <1>2, <1>3, <1>5
  <2>2. CASE q # r
    BY <2>2, <1>3 DEF ShownInv, EndsOnce
  <2> QED BY <2>1, <2>2
<1>7. ASSUME Shown' PROVE ShowsRun(currentRunId)'
  <2>1. Shown /\ currentRunId \in Turns /\ ShowsRun(currentRunId)
    BY <1>7 DEF Shown, ShownInv, ShownShape
  <2>2. CASE currentRunId # r
    <3>1. log'[currentRunId] = log[currentRunId]
      BY <2>1, <2>2, <1>3
    <3> QED BY <2>1, <3>1 DEF ShowsRun, Over
  <2>3. CASE currentRunId = r
    <3>1. currentRunActive /\ received \in Nat /\ received <= Len(log[r]) /\ log'[r] = Append(log[r], event)
      BY <2>1, <2>3, <1>3 DEF ShowsRun, ShownInv, ShownShape
    <3>2. \A i \in 1..received : log'[r][i] = log[r][i]
      BY <3>1, <1>1, <1>2
    <3>3. paused => \E i \in 1..Len(log'[r]) : log'[r][i] = "paused" /\ \A j \in i..received : log'[r][j] \notin {"resumed", "ended"}
      <4> SUFFICES ASSUME paused PROVE \E i \in 1..Len(log'[r]) : log'[r][i] = "paused" /\ \A j \in i..received : log'[r][j] \notin {"resumed", "ended"}
        OBVIOUS
      <4>1. PICK i \in 1..Len(log[r]) : log[r][i] = "paused" /\ \A j \in i..received : log[r][j] \notin {"resumed", "ended"}
        BY <2>1, <2>3 DEF ShowsRun
      <4>2. i \in 1..Len(log'[r]) /\ log'[r][i] = "paused"
        BY <4>1, <3>1, <1>1, <1>2
      <4>3. \A j \in i..received : log'[r][j] = log[r][j]
        BY <3>1, <3>2, <1>1
      <4> QED BY <4>1, <4>2, <4>3
    <3>4. ~paused => \A i \in 1..received : log'[r][i] = "paused" => \E j \in i..received : log'[r][j] \in {"resumed", "ended"}
      BY <2>1, <2>3, <3>1, <3>2 DEF ShowsRun
    <3>5. received <= Len(log'[r])
      BY <3>1, <1>1, <1>2
    <3> QED BY <2>1, <2>3, <3>1, <3>2, <3>3, <3>4, <3>5 DEF ShowsRun
  <2> QED BY <2>2, <2>3
<1>8. asked' = asked /\ (Shown' => Shown)
  BY DEF Shown
<1> QED BY <1>4, <1>6, <1>7, <1>8 DEF ShownInv

LEMMA ReceiveKeeps == ASSUME ShownInv, Receive PROVE ShownInv'
<1> PICK r \in Turns : r = currentRunId
  BY DEF Receive, ShownInv, ShownShape, Shown
<1> PICK event : event = log[r][received + 1]
  OBVIOUS
<1>1. /\ r \in Turns /\ log[r] \in Seq(RunEvents) /\ Len(log[r]) \in Nat /\ received \in Nat
      /\ ShowsRun(r) /\ received < Len(log[r]) /\ received' = received + 1 /\ Shown
      /\ log' = log /\ currentRunId' = r /\ controls' = controls
      /\ currentRunActive \in BOOLEAN /\ paused \in BOOLEAN
  BY DEF Receive, ShownInv, ShownShape, Shown
<1>2. /\ paused' = CASE event = "paused" -> TRUE [] event \in {"resumed", "ended"} -> FALSE [] OTHER -> paused
      /\ currentRunActive' = IF event = "ended" THEN FALSE ELSE currentRunActive
  BY DEF Receive
<1>3. event = log[r][received + 1] /\ received + 1 \in 1..Len(log[r])
  BY <1>1
<1>4. ShownShape' /\ EndsOnce'
  <2>1. paused' \in BOOLEAN /\ currentRunActive' \in BOOLEAN
    BY <1>1, <1>2
  <2>2. received' \in Nat /\ currentRunId' \in Turns
    BY <1>1
  <2> QED BY <1>1, <2>1, <2>2 DEF ShownInv, ShownShape, EndsOnce
<1>5. event = "ended" => Over(r)
  <2>1. event = "ended" => received + 1 = Len(log[r])
    BY <1>1, <1>3 DEF ShownInv, EndsOnce
  <2>2. log[r] # <<>>
    BY <1>1
  <2> QED BY <2>1, <2>2, <1>3 DEF Over
<1>6. \A i \in 1..(received + 1) : i \in 1..received \/ i = received + 1
  BY <1>1
<1>7. /\ ~currentRunActive' => Over(r)
      /\ currentRunActive' => \A i \in 1..(received + 1) : log[r][i] # "ended"
  BY <1>1, <1>2, <1>3, <1>5, <1>6 DEF ShowsRun
<1>8. paused' => \E i \in 1..Len(log[r]) : log[r][i] = "paused" /\ \A j \in i..(received + 1) : log[r][j] \notin {"resumed", "ended"}
  <2>1. CASE event = "paused"
    <3>1. \A j \in (received + 1)..(received + 1) : j = received + 1
      BY <1>1
    <3> QED BY <2>1, <3>1, <1>3
  <2>2. CASE event \in {"resumed", "ended"}
    BY <2>2, <1>2
  <2>3. CASE event \notin {"paused", "resumed", "ended"} /\ paused
    <3>1. PICK i \in 1..Len(log[r]) : log[r][i] = "paused" /\ \A j \in i..received : log[r][j] \notin {"resumed", "ended"}
      BY <2>3, <1>1 DEF ShowsRun
    <3>2. \A j \in i..(received + 1) : j \in i..received \/ j = received + 1
      BY <1>1
    <3>3. \A j \in i..(received + 1) : log[r][j] \notin {"resumed", "ended"}
      BY <3>1, <3>2, <2>3, <1>3
    <3> QED BY <3>1, <3>3
  <2>4. CASE event \notin {"paused", "resumed", "ended"} /\ ~paused
    BY <2>4, <1>2
  <2> QED BY <2>1, <2>2, <2>3, <2>4
<1>9. ~paused' => \A i \in 1..(received + 1) : log[r][i] = "paused" => \E j \in i..(received + 1) : log[r][j] \in {"resumed", "ended"}
  <2> SUFFICES ASSUME ~paused', NEW i \in 1..(received + 1), log[r][i] = "paused"
               PROVE  \E j \in i..(received + 1) : log[r][j] \in {"resumed", "ended"}
    OBVIOUS
  <2>1. CASE event \in {"resumed", "ended"}
    <3>1. received + 1 \in i..(received + 1)
      BY <1>1
    <3> QED BY <2>1, <3>1, <1>3
  <2>2. CASE event \notin {"resumed", "ended"}
    <3>1. event # "paused" /\ ~paused
      BY <1>2, <2>2
    <3>2. i \in 1..received
      BY <3>1, <1>3, <1>6
    <3>3. PICK j \in i..received : log[r][j] \in {"resumed", "ended"}
      BY <3>1, <3>2, <1>1 DEF ShowsRun
    <3>4. j \in i..(received + 1)
      BY <1>1
    <3> QED BY <3>3, <3>4
  <2> QED BY <2>1, <2>2
<1>10. ShowsRun(currentRunId)'
  <2>1. received' <= Len(log[r])
    BY <1>1
  <2> QED BY <1>1, <1>7, <1>8, <1>9, <2>1 DEF ShowsRun, Over
<1>11. asked' = asked /\ asked \in [Turns -> {"no", "sent", "answered"}] /\ asked[r] # "no"
  BY <1>1 DEF Receive, ShownInv
<1> QED BY <1>1, <1>4, <1>10, <1>11 DEF ShownInv

LEMMA ShownStarts == ASSUME RunInit PROVE ShownInv
<1>1. \A r \in Turns : log[r] = <<>> /\ log[r] \in Seq(RunEvents) /\ Len(log[r]) = 0
  BY DEF RunInit
<1>2. log = [r \in Turns |-> log[r]]
  BY DEF RunInit
<1>3. log \in [Turns -> Seq(RunEvents)]
  BY <1>1, <1>2
<1>4. EndsOnce
  BY <1>1 DEF EndsOnce
<1> QED BY <1>3, <1>4 DEF RunInit, ShownInv, ShownShape, Shown

LEMMA ToldKept ==
    ASSUME ShownInv, NEW r \in Turns, NEW event \in RunEvents, Told(r, event),
           UNCHANGED <<asked, currentRunId, currentRunActive, paused, received>>, controls' \subseteq controls
    PROVE  ShownInv'
BY ToldKeeps DEF Told

LEMMA ShownKept ==
    ASSUME ShownInv, [ShownRunNext]_runVars
    PROVE  ShownInv'
<1>1. ASSUME UNCHANGED <<asked, log, currentRunId, currentRunActive, paused, received>>, \A c \in controls' : c.run \in Turns
      PROVE  ShownInv'
  BY <1>1 DEF ShownInv, ShownShape, EndsOnce, Shown, ShowsRun, Over
<1>2. \A c \in controls : c.run \in Turns
  BY DEF ShownInv, ShownShape
<1>3. CASE UNCHANGED runVars
  BY <1>1, <1>2, <1>3 DEF runVars
<1>4. ASSUME NEW t \in Turns, Submit(t) PROVE ShownInv'
  <2>1. /\ log' = [log EXCEPT ![t] = <<"heard">>] /\ asked' = [asked EXCEPT ![t] = "sent"] /\ asked[t] = "no"
        /\ UNCHANGED <<currentRunId, currentRunActive, paused, received, controls>>
    BY <1>4 DEF Submit
  <2>2. <<"heard">> \in Seq(RunEvents) /\ Len(<<"heard">>) = 1 /\ <<"heard">>[1] # "ended"
    BY DEF RunEvents
  <2>3. ShownShape'
    BY <2>1, <2>2 DEF ShownInv, ShownShape
  <2>4. \A q \in Turns : log'[q] = IF q = t THEN <<"heard">> ELSE log[q]
    BY <2>1 DEF ShownInv, ShownShape
  <2>5. EndsOnce'
    BY <2>2, <2>4 DEF ShownInv, EndsOnce
  <2>6. asked' \in [Turns -> {"no", "sent", "answered"}]
    BY <2>1 DEF ShownInv
  <2>7. ASSUME Shown' PROVE ShowsRun(currentRunId)' /\ asked'[currentRunId'] # "no"
    <3>1. currentRunId \in Turns /\ ShowsRun(currentRunId) /\ asked[currentRunId] # "no" /\ currentRunId # t
      BY <2>1, <2>7 DEF ShownInv, ShownShape, Shown
    <3>2. log'[currentRunId] = log[currentRunId] /\ asked'[currentRunId] = asked[currentRunId]
      BY <2>1, <3>1 DEF ShownInv, ShownShape
    <3> QED BY <2>1, <3>1, <3>2 DEF ShowsRun, Over
  <2> QED BY <2>3, <2>5, <2>6, <2>7 DEF ShownInv
<1>5. ASSUME NEW t \in Turns, Answered(t) PROVE ShownInv'
  <2>1. log' = log /\ controls' = controls
    BY <1>5 DEF Answered
  <2>0. asked' \in [Turns -> {"no", "sent", "answered"}] /\ asked'[t] # "no" /\ \A q \in Turns : asked[q] # "no" => asked'[q] # "no"
    BY <1>5 DEF Answered, ShownInv
  <2>2. CASE ActivateRun(t)
    <3>1. currentRunId' = t /\ currentRunActive' = TRUE /\ paused' = FALSE /\ received' = 0
      BY <2>2 DEF ActivateRun
    <3>2. ShownShape' /\ EndsOnce'
      BY <2>1, <3>1 DEF ShownInv, ShownShape, EndsOnce
    <3>3. ShowsRun(t)'
      <4>1. Len(log[t]) \in Nat
        BY DEF ShownInv, ShownShape
      <4> QED BY <2>1, <3>1, <4>1 DEF ShowsRun
    <3> QED BY <2>0, <3>1, <3>2, <3>3 DEF ShownInv
  <2>3. CASE UNCHANGED <<currentRunId, currentRunActive, paused, received>>
    <3>1. ShownShape' /\ EndsOnce' /\ (Shown => ShowsRun(currentRunId)')
      BY <2>1, <2>3 DEF ShownInv, ShownShape, EndsOnce, ShowsRun, Over
    <3>2. Shown => currentRunId \in Turns /\ asked[currentRunId] # "no"
      BY DEF ShownInv, ShownShape, Shown
    <3> QED BY <2>0, <2>3, <3>1, <3>2 DEF ShownInv, Shown
  <2> QED BY <1>5, <2>2, <2>3 DEF Answered
<1>6. ASSUME NEW t \in Turns, RunTold(t) PROVE ShownInv'
  <2>1. PICK event \in {"paused", "resumed", "ended"} : Told(t, event)
    BY <1>6 DEF RunTold
  <2> QED BY <1>6, <2>1, ToldKept DEF RunTold, RunEvents
<1>7. CASE StreamLost
  <2>1. /\ received' = 0 /\ log' = log /\ currentRunId' = currentRunId /\ paused' = paused
        /\ currentRunActive' = currentRunActive /\ controls' = controls /\ Shown /\ asked' = asked
    BY <1>7 DEF StreamLost
  <2>2. ShownShape' /\ EndsOnce' /\ currentRunId \in Turns /\ ShowsRun(currentRunId)
    BY <2>1 DEF ShownInv, ShownShape, EndsOnce, Shown
  <2>3. Len(log[currentRunId]) \in Nat
    BY <2>2 DEF ShownInv, ShownShape
  <2>4. paused => \E i \in 1..Len(log[currentRunId]) : log[currentRunId][i] = "paused"
    BY <2>2 DEF ShowsRun
  <2>5. \A i \in 1..Len(log[currentRunId]) : \A j \in i..0 : FALSE
    OBVIOUS
  <2>6. ShowsRun(currentRunId)'
    BY <2>1, <2>2, <2>3, <2>4, <2>5 DEF ShowsRun, Over
  <2> QED BY <2>1, <2>2, <2>6 DEF ShownInv
<1>8. ASSUME NEW action, PressControl(action) PROVE ShownInv'
  <2>1. currentRunId \in Turns
    BY <1>8 DEF PressControl, Shown, ShownInv, ShownShape
  <2> QED BY <1>1, <1>2, <1>8, <2>1 DEF PressControl
<1>9. ASSUME NEW c \in controls, ControlArrives(c) PROVE ShownInv'
  <2>1. c.run \in Turns /\ controls' \subseteq controls /\ UNCHANGED <<asked, currentRunId, currentRunActive, paused, received>>
    BY <1>2, <1>9 DEF ControlArrives
  <2>2. \/ log' = log
        \/ \E event \in RunEvents : Told(c.run, event)
    BY <1>9 DEF ControlArrives, RunEvents
  <2> QED BY <1>1, <1>2, <2>1, <2>2, ToldKept
<1> QED BY <1>3, <1>4, <1>5, <1>6, <1>7, <1>8, <1>9, ReceiveKeeps DEF ShownRunNext

-----------------------------------------------------------------------------
(* The page: the panel of approvals                                          *)

\* What asks again, or will
Asking == Polls # {} \/ timer \/ lostTimers > 0 \/ refreshing > 0
PanelInv ==
    /\ token \in Logins \cup {0} /\ logins \in Nat /\ polling \in [Logins -> Nat]
    /\ timer \in BOOLEAN /\ lostTimers \in Nat /\ refreshing \in Nat /\ visible \in BOOLEAN
    /\ SignedIn /\ visible => Asking

LEMMA PanelStarts == ASSUME PanelInit PROVE PanelInv
BY DEF PanelInit, PanelInv, SignedIn, Asking

LEMMA PollKeeps ==
    ASSUME PanelInv, Poll, UNCHANGED <<token, logins>>, lostTimers' \in Nat, refreshing' \in Nat, visible' \in BOOLEAN
    PROVE  PanelInv'
<1>1. CASE SignedIn
  <2>1. token \in Logins /\ polling' = [polling EXCEPT ![token] = polling[token] + 1] /\ timer' = FALSE
    BY <1>1 DEF Poll, SignedIn, PanelInv
  <2>2. polling' \in [Logins -> Nat] /\ polling'[token] > 0
    BY <2>1 DEF PanelInv
  <2>3. Polls' # {}
    BY <2>1, <2>2 DEF Polls
  <2> QED BY <2>1, <2>2, <2>3 DEF PanelInv, Asking
<1>2. CASE ~SignedIn
  BY <1>2 DEF Poll, SignedIn, PanelInv
<1> QED BY <1>1, <1>2

LEMMA SignOutKeeps ==
    ASSUME PanelInv, SignOut, UNCHANGED <<logins, timer, lostTimers, visible>>, polling' \in [Logins -> Nat]
    PROVE  PanelInv'
BY DEF SignOut, PanelInv, SignedIn

LEMMA PanelKept ==
    ASSUME PanelInv, [PanelNext]_panelVars
    PROVE  PanelInv'
<1>1. CASE UNCHANGED panelVars
  BY <1>1 DEF panelVars, PanelInv, SignedIn, Asking, Polls
<1>2. CASE Refreshed
  <2>1. refreshing' \in Nat /\ UNCHANGED <<token, logins, lostTimers, visible>>
    BY <1>2 DEF Refreshed, PanelInv
  <2>2. CASE SignedIn
    BY <1>2, <2>1, <2>2, PollKeeps DEF Refreshed, PanelInv
  <2>3. CASE ~SignedIn
    BY <1>2, <2>1, <2>3 DEF Refreshed, PanelInv, SignedIn
  <2> QED BY <2>2, <2>3
<1>3. CASE TimerFires
  BY <1>3, PollKeeps DEF TimerFires, PanelInv
<1>4. CASE PollsNow
  BY <1>4, PollKeeps DEF PollsNow, PanelInv
<1>5. CASE Hides
  BY <1>5 DEF Hides, PanelInv
<1>6. CASE PressSignIn
  BY <1>6 DEF PressSignIn, PanelInv, SignedIn, Asking, Polls
<1>7. CASE PressSignOut
  BY <1>7, SignOutKeeps DEF PressSignOut, PanelInv
<1>8. ASSUME NEW accepted \in BOOLEAN, SignInAnswered(accepted) PROVE PanelInv'
  <2>1. /\ refreshing' \in Nat /\ refreshing' > 0 /\ UNCHANGED <<polling, timer, lostTimers, visible>>
    BY <1>8 DEF SignInAnswered, PanelInv
  <2>2. logins' \in Nat /\ token' \in Logins \cup {0}
    BY <1>8, PageAssumption DEF SignInAnswered, PanelInv, Logins
  <2> QED BY <2>1, <2>2 DEF PanelInv, Asking
<1>9. ASSUME NEW s \in Logins, PollRefused(s) PROVE PanelInv'
  <2>1. polling' \in [Logins -> Nat]
    BY <1>9 DEF PollRefused, PanelInv
  <2> QED BY <1>9, <2>1, SignOutKeeps DEF PollRefused
<1>10. ASSUME NEW s \in Logins, LogoutAnswered(s) PROVE PanelInv'
  BY <1>10 DEF LogoutAnswered, PanelInv, SignedIn, Asking
<1>11. ASSUME NEW s \in Logins, Expires(s) PROVE PanelInv'
  BY <1>11 DEF Expires, PanelInv, SignedIn, Asking, Polls
<1>12. ASSUME NEW s \in Logins, NEW told \in BOOLEAN, PollAnswered(s, told) PROVE PanelInv'
  <2>1. polling' \in [Logins -> Nat] /\ UNCHANGED <<token, logins, refreshing, visible>>
    BY <1>12 DEF PollAnswered, PanelInv
  <2>2. timer' \in BOOLEAN /\ lostTimers' \in Nat /\ (visible => timer' = TRUE)
    <3>1. CASE visible
      BY <1>12, <3>1 DEF PollAnswered, Again, PanelInv
    <3>2. CASE ~visible
      BY <1>12, <3>2 DEF PollAnswered, Again, PanelInv
    <3> QED BY <3>1, <3>2
  <2> QED BY <2>1, <2>2 DEF PanelInv, Asking
<1> QED BY <1>1, <1>2, <1>3, <1>4, <1>5, <1>6, <1>7, <1>8, <1>9, <1>10, <1>11, <1>12 DEF PanelNext

-----------------------------------------------------------------------------

LEMMA MicrophoneStarts ==
    ASSUME NEW mode \in {"pcm-stream", "browser-fallback"}, NEW links, NEW speeches, VoiceInit(mode, links, speeches)
    PROVE  MicrophoneInv
BY DEF VoiceInit, MicrophoneInv

\* The page begins with the button it finds, with all its sockets and speeches
\* before it or some of them behind.
PageInit ==
    /\ \E mode \in {"pcm-stream", "browser-fallback"}, links \in SUBSET Links, speeches \in SUBSET Speeches :
         VoiceInit(mode, links, speeches)
    /\ RunInit /\ PanelInit

\* The microphone is released, the controls tell the run that is shown, and the
\* panel goes on asking, in whatever order the callbacks of the page come, for
\* any numbers of sockets, commands, events and sessions (app.js:
\* stopPcmVoice, connectEventStream, pollApprovals).
THEOREM PageHolds ==
    PageInit /\ [][VoiceNext]_voiceVars /\ [][ShownRunNext]_runVars /\ [][PanelNext]_panelVars => []PageAgrees
<1>1. PageInit => MicrophoneInv /\ ShownInv /\ PanelInv
  BY MicrophoneStarts, ShownStarts, PanelStarts DEF PageInit
<1>2. MicrophoneInv => MicrophoneReleased
  BY DEF MicrophoneInv, MicrophoneReleased
<1>3. PanelInv => PollingGoesOn
  BY DEF PanelInv, PollingGoesOn, Asking
<1>4. MicrophoneReleased /\ ControlsTellRun /\ PollingGoesOn => PageAgrees
  BY DEF PageAgrees
<1> QED BY <1>1, <1>2, <1>3, <1>4, MicrophoneKept, ShownKept, PanelKept, ShownTells, PTL
=============================================================================
