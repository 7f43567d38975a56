----------------------------- MODULE FounderPage -----------------------------
(* The page of the Founder (apps/pwa): the voice button, the speech it plays, *)
(* the run it shows and the panel of approvals.  A callback of the page is    *)
(* one step; what it awaits comes back later, in any order.  The three parts  *)
(* share nothing but the screen.  The other ends of its connections send what *)
(* they may send.                                                             *)
EXTENDS Naturals, Sequences, FiniteSets

CONSTANTS
  MaxLinks,      \* voice sockets the page opens
  MaxSpeeches, MaxFrames,
  MaxTurns,      \* commands, each of which starts a run
  MaxEvents,     \* of one run, less than the 500 that are sent again
  MaxLosses,     \* of the stream of events
  MaxLogins, MaxPolls

ASSUME PageAssumption ==
    {MaxLinks, MaxSpeeches, MaxFrames, MaxTurns, MaxEvents, MaxLosses, MaxLogins, MaxPolls} \subseteq Nat

VARIABLES
  voiceMode, listening, recognizer,         \* the voice button, the recognizer of the browser
  starting, trying, voiceSocket, link,      \* startPcmVoice, its socket, the page's, all of them
  context, stream, live, stops,             \* audioContext, mediaStream, tracks, stopPcmVoice under way
  speechActive, ttsActive,
  served, saying, sent, frame,              \* the other end: connection, speeches, bytes announced
  pendingMeta, waiting, playing,            \* pendingTtsAudioMeta, enqueue under way, sources
  asked, log,                               \* commands sent, events of their runs
  currentRunId, currentRunActive, paused, received, controls, losses,
  token, logins, valid, entering, offered,  \* the session kept, the ones known, signing in
  leaving, refreshing, polling, timer, lostTimers, visible, listed

button == <<voiceMode, recognizer>>
capture == <<starting, trying, voiceSocket, link, context, stream, live, stops>>
otherEnd == <<served, saying, sent, frame>>
voiceVars == <<button, listening, capture, speechActive, ttsActive, otherEnd, pendingMeta, waiting, playing>>
runVars == <<asked, log, currentRunId, currentRunActive, paused, received, controls, losses>>
panelVars == <<token, logins, valid, entering, offered, leaving, refreshing, polling, timer, lostTimers, visible, listed>>

Links == 1..MaxLinks
Speeches == 1..MaxSpeeches
Turns == 1..MaxTurns
Logins == 1..MaxLogins

-----------------------------------------------------------------------------
(* The voice button *)

\* A page with some of its sockets and speeches already past.
VoiceInit(mode, links, speeches) ==
    /\ voiceMode = mode /\ listening = FALSE /\ recognizer = "off"
    /\ starting = "no" /\ trying = 0 /\ voiceSocket = 0
    /\ link = [l \in Links |-> IF l \in links THEN "none" ELSE "closed"]
    /\ context = FALSE /\ stream = FALSE /\ live = 0 /\ stops = {}
    /\ speechActive = FALSE /\ ttsActive = FALSE
    /\ served = 0 /\ saying = [n \in Speeches |-> IF n \in speeches THEN "none" ELSE "over"]
    /\ sent = [n \in Speeches |-> 0] /\ frame = <<>>
    /\ pendingMeta = <<>> /\ waiting = {} /\ playing = {}

\* interrupt of the player, and the announced frames forgotten.
Flushed == playing' = {} /\ pendingMeta' = <<>>

Closing(links, l) ==
    [k \in Links |-> IF k = l /\ links[k] \in {"connecting", "open"} THEN "closing" ELSE links[k]]

\* stopPcmVoice, called with socket l while the sockets are as given.  The
\* tracks stop at once, the socket after the audio context has closed.
Stop(l, links, caller) ==
    /\ listening' = FALSE /\ speechActive' = FALSE /\ ttsActive' = FALSE
    /\ Flushed
    /\ stream' = FALSE /\ live' = IF stream THEN live - 1 ELSE live
    /\ IF context
       THEN /\ stops' = stops \cup {[socket |-> l, caller |-> caller]}
            /\ link' = links /\ voiceSocket' = l
            /\ starting' = IF caller = "start" THEN "failing" ELSE starting
       ELSE /\ link' = Closing(links, l) /\ voiceSocket' = 0
            /\ starting' = IF caller = "start" THEN "no" ELSE starting
            /\ UNCHANGED stops
    /\ UNCHANGED context

StopEnds(s) ==
    /\ s \in stops
    /\ stops' = stops \ {s}
    /\ context' = FALSE
    /\ link' = Closing(link, s.socket)
    /\ voiceSocket' = IF voiceSocket = s.socket THEN 0 ELSE voiceSocket
    /\ starting' = IF s.caller = "start" THEN "no" ELSE starting
    /\ UNCHANGED <<button, listening, trying, stream, live, speechActive, ttsActive, otherEnd, pendingMeta, waiting, playing>>

Pressed == starting = "no"   \* the button is disabled while a start is under way

PressStop ==
    /\ Pressed /\ voiceMode = "pcm-stream" /\ listening
    /\ Stop(voiceSocket, link, "button")
    /\ UNCHANGED <<button, trying, otherEnd, waiting>>

PressStart(l) ==
    /\ Pressed /\ voiceMode = "pcm-stream" /\ ~listening
    /\ link[l] = "none" /\ \A k \in 1..(l - 1) : link[k] # "none"
    /\ link' = [link EXCEPT ![l] = "connecting"]
    /\ voiceSocket' = l /\ trying' = l /\ starting' = "opening"
    /\ UNCHANGED <<button, listening, context, stream, live, stops, speechActive, ttsActive, otherEnd, pendingMeta, waiting, playing>>

Opens(l) ==
    /\ link[l] = "connecting"
    /\ link' = [link EXCEPT ![l] = "open"]
    /\ starting' = IF l = trying /\ starting = "opening" THEN "greeting" ELSE starting
    /\ UNCHANGED <<button, listening, trying, voiceSocket, context, stream, live, stops, speechActive, ttsActive, otherEnd, pendingMeta, waiting, playing>>

\* The other end is ready for this connection; an older one has no engine left.
Greeted ==
    /\ starting = "greeting" /\ link[trying] = "open"
    /\ starting' = "module" /\ context' = TRUE
    /\ served' = trying /\ frame' = <<>>
    /\ saying' = [n \in Speeches |-> IF saying[n] = "going" THEN "over" ELSE saying[n]]
    /\ UNCHANGED <<button, listening, trying, voiceSocket, link, stream, live, stops, speechActive, ttsActive, sent, pendingMeta, waiting, playing>>

ModuleLoads ==
    /\ starting = "module"
    /\ starting' = "microphone"
    /\ UNCHANGED <<button, listening, trying, voiceSocket, link, context, stream, live, stops, speechActive, ttsActive, otherEnd, pendingMeta, waiting, playing>>

\* The person lets the page have the microphone.
Granted ==
    /\ starting = "microphone" /\ context
    /\ stream' = TRUE /\ live' = live + 1
    /\ starting' = "resuming"
    /\ UNCHANGED <<button, listening, trying, voiceSocket, link, context, stops, speechActive, ttsActive, otherEnd, pendingMeta, waiting, playing>>

\* A stop that ended meanwhile has taken the audio context away: the tracks just
\* granted are stopped again.
GrantedInVain ==
    /\ starting = "microphone" /\ ~context
    /\ Stop(voiceSocket, link, "start")
    /\ UNCHANGED <<button, trying, otherEnd, waiting>>

Started ==
    /\ starting = "resuming"
    /\ starting' = "no" /\ listening' = TRUE /\ speechActive' = FALSE
    /\ UNCHANGED <<button, trying, voiceSocket, link, context, stream, live, stops, ttsActive, otherEnd, pendingMeta, waiting, playing>>

\* A plausible mistake in StartFails.
StartGivenUp ==
    /\ starting \in {"opening", "greeting", "module", "microphone", "resuming"}
    /\ starting' = "no" /\ listening' = FALSE
    /\ UNCHANGED <<button, trying, voiceSocket, link, context, stream, live, stops, speechActive, ttsActive, otherEnd, pendingMeta, waiting, playing>>

\* Whatever it awaits may be refused or take too long.
StartFails ==
    /\ starting \in {"opening", "greeting", "module", "microphone", "resuming"}
    /\ Stop(voiceSocket, link, "start")
    /\ UNCHANGED <<button, trying, otherEnd, waiting>>

\* The close event of any socket, also of one that was replaced.
Closes(l) ==
    /\ link[l] \in {"connecting", "open", "closing"}
    /\ LET links == [link EXCEPT ![l] = "closed"]
           mine == IF voiceSocket = l THEN 0 ELSE voiceSocket
       IN  IF listening /\ voiceMode = "pcm-stream"
           THEN Stop(mine, links, "close")
           ELSE /\ link' = links /\ voiceSocket' = mine /\ Flushed
                /\ UNCHANGED <<listening, starting, context, stream, live, stops, speechActive, ttsActive>>
    /\ UNCHANGED <<button, trying, otherEnd, waiting>>

(* The recognizer of the browser, until the page has learnt of the stream *)

\* start() throws when the recognizer is not off.
PressRecognizer ==
    /\ Pressed /\ voiceMode = "browser-fallback"
    /\ IF listening
       THEN /\ listening' = FALSE
            /\ recognizer' = IF recognizer = "off" THEN "off" ELSE "ending"
       ELSE /\ listening' = (recognizer = "off")
            /\ recognizer' = IF recognizer = "off" THEN "opening" ELSE recognizer
    /\ UNCHANGED <<voiceMode, capture, speechActive, ttsActive, otherEnd, pendingMeta, waiting, playing>>

RecognizerStarts ==
    /\ recognizer = "opening"
    /\ recognizer' = "on" /\ listening' = TRUE
    /\ UNCHANGED <<voiceMode, capture, speechActive, ttsActive, otherEnd, pendingMeta, waiting, playing>>

RecognizerEnds ==
    /\ recognizer \in {"opening", "on", "ending"}
    /\ recognizer' = IF listening THEN "opening" ELSE "off"
    /\ UNCHANGED <<voiceMode, listening, capture, speechActive, ttsActive, otherEnd, pendingMeta, waiting, playing>>

\* checkHealth, at the end of a run that failed.
StreamAvailable ==
    /\ voiceMode = "browser-fallback"
    /\ voiceMode' = "pcm-stream"
    /\ UNCHANGED <<recognizer, listening, capture, speechActive, ttsActive, otherEnd, pendingMeta, waiting, playing>>

-----------------------------------------------------------------------------
(* Speech *)

\* The user's voice is heard in two frames, or has been silent for 25.
Onset ==
    /\ listening /\ stream /\ trying # 0 /\ link[trying] = "open" /\ ~speechActive
    /\ speechActive' = TRUE
    /\ IF ttsActive THEN Flushed ELSE UNCHANGED <<playing, pendingMeta>>
    /\ UNCHANGED <<button, listening, capture, ttsActive, otherEnd, waiting>>

Silence ==
    /\ listening /\ stream /\ trying # 0 /\ link[trying] = "open" /\ speechActive
    /\ speechActive' = FALSE
    /\ UNCHANGED <<button, listening, capture, ttsActive, otherEnd, pendingMeta, waiting, playing>>

Delivered == served # 0 /\ link[served] = "open"
Newest(n) == \A m \in Speeches : saying[m] = "going" => m <= n

SpeechStarted(n) ==
    /\ Delivered /\ frame = <<>> /\ saying[n] = "none" /\ \A m \in 1..(n - 1) : saying[m] # "none"
    /\ saying' = [saying EXCEPT ![n] = "going"]
    /\ ttsActive' = TRUE
    /\ UNCHANGED <<button, listening, capture, speechActive, served, sent, frame, pendingMeta, waiting, playing>>

SpeechAudio(n) ==
    /\ Delivered /\ frame = <<>> /\ saying[n] = "going" /\ Newest(n) /\ sent[n] < MaxFrames
    /\ sent' = [sent EXCEPT ![n] = @ + 1]
    /\ frame' = <<n, sent'[n]>>
    /\ pendingMeta' = Append(pendingMeta, frame')
    /\ UNCHANGED <<button, listening, capture, speechActive, ttsActive, served, saying, waiting, playing>>

\* The bytes are of no use without what announced them.  A player whose context
\* is suspended awaits it first.
Bytes ==
    /\ Delivered /\ frame # <<>>
    /\ frame' = <<>>
    /\ IF pendingMeta = <<>> THEN UNCHANGED <<pendingMeta, waiting, playing>>
       ELSE /\ pendingMeta' = Tail(pendingMeta)
            /\ \/ waiting = {} /\ playing' = playing \cup {frame} /\ UNCHANGED waiting
               \/ waiting' = waiting \cup {frame} /\ UNCHANGED playing
    /\ UNCHANGED <<button, listening, capture, speechActive, ttsActive, served, saying, sent>>

\* The generation is read only now, so what was interrupted meanwhile plays.
Resumes ==
    /\ waiting # {}
    /\ playing' = playing \cup waiting /\ waiting' = {}
    /\ UNCHANGED <<button, listening, capture, speechActive, ttsActive, otherEnd, pendingMeta>>

SourceEnds(c) ==
    /\ c \in playing
    /\ playing' = playing \ {c}
    /\ UNCHANGED <<button, listening, capture, speechActive, ttsActive, otherEnd, pendingMeta, waiting>>

\* The last chunk was sent, which is not when the last one has been heard.
SpeechCompleted(n) ==
    /\ Delivered /\ frame = <<>> /\ saying[n] = "going" /\ Newest(n)
    /\ saying' = [saying EXCEPT ![n] = "over"]
    /\ ttsActive' = FALSE
    /\ UNCHANGED <<button, listening, capture, speechActive, served, sent, frame, pendingMeta, waiting, playing>>

\* Also of a speech that a newer one has overtaken.
SpeechInterrupted(n) ==
    /\ Delivered /\ frame = <<>> /\ saying[n] = "going"
    /\ saying' = [saying EXCEPT ![n] = "over"]
    /\ ttsActive' = FALSE /\ Flushed
    /\ UNCHANGED <<button, listening, capture, speechActive, served, sent, frame, waiting>>

VoiceNext ==
    \/ PressStop \/ Greeted \/ ModuleLoads \/ Granted \/ GrantedInVain \/ Started \/ StartFails
    \/ \E l \in Links : PressStart(l) \/ Opens(l) \/ Closes(l)
    \/ \E s \in stops : StopEnds(s)
    \/ PressRecognizer \/ RecognizerStarts \/ RecognizerEnds \/ StreamAvailable
    \/ Onset \/ Silence \/ Bytes \/ Resumes
    \/ \E n \in Speeches : SpeechStarted(n) \/ SpeechAudio(n) \/ SpeechCompleted(n) \/ SpeechInterrupted(n)
    \/ \E c \in playing : SourceEnds(c)

-----------------------------------------------------------------------------
(* The run that is shown *)

Shown == currentRunId # 0
Over(r) == log[r] # <<>> /\ log[r][Len(log[r])] = "ended"
\* The runner's own flag: whether the last pause was not taken back.
Held(r) ==
    \E i \in 1..Len(log[r]) : log[r][i] = "paused" /\ \A j \in i..Len(log[r]) : log[r][j] # "resumed"

RunInit ==
    /\ asked = [t \in Turns |-> "no"] /\ log = [t \in Turns |-> <<>>]
    /\ currentRunId = 0 /\ currentRunActive = FALSE /\ paused = FALSE
    /\ received = 0 /\ controls = {} /\ losses = 0

\* A command, typed or spoken, starts a run; its answer comes later.
Submit(t) ==
    /\ asked[t] = "no" /\ \A u \in 1..(t - 1) : asked[u] # "no"
    /\ asked' = [asked EXCEPT ![t] = "sent"]
    /\ log' = [log EXCEPT ![t] = <<"heard">>]
    /\ UNCHANGED <<currentRunId, currentRunActive, paused, received, controls, losses>>

\* A plausible mistake in ActivateRun.
ActivateRunOnly(r) ==
    /\ currentRunId' = r /\ currentRunActive' = TRUE
    /\ received' = 0
    /\ UNCHANGED paused

\* The stream of another run's events begins from its first one.
ActivateRun(r) ==
    /\ currentRunId' = r /\ currentRunActive' = TRUE /\ paused' = FALSE
    /\ received' = 0

Answered(t) ==
    /\ asked[t] = "sent"
    /\ asked' = [asked EXCEPT ![t] = "answered"]
    /\ ActivateRun(t) \/ UNCHANGED <<currentRunId, currentRunActive, paused, received>>
    /\ UNCHANGED <<log, controls, losses>>

Receive ==
    /\ Shown /\ received < Len(log[currentRunId])
    /\ received' = received + 1
    /\ LET event == log[currentRunId][received']
       IN  /\ paused' = CASE event = "paused" -> TRUE [] event \in {"resumed", "ended"} -> FALSE [] OTHER -> paused
           /\ currentRunActive' = IF event = "ended" THEN FALSE ELSE currentRunActive
    /\ UNCHANGED <<asked, log, currentRunId, controls, losses>>

\* A lost stream is opened again and gives all events of the run again.
StreamLost ==
    /\ Shown /\ losses < MaxLosses
    /\ losses' = losses + 1 /\ received' = 0
    /\ UNCHANGED <<asked, log, currentRunId, currentRunActive, paused, controls>>

PressControl(action) ==
    /\ Shown /\ currentRunActive
    /\ action \in {"cancel", IF paused THEN "resume" ELSE "pause"}
    /\ controls' = controls \cup {[run |-> currentRunId, action |-> action]}
    /\ UNCHANGED <<asked, log, currentRunId, currentRunActive, paused, received, losses>>

\* What a control does to a run that is not over.
Told(r, event) ==
    /\ log[r] # <<>> /\ ~Over(r)
    /\ Len(log[r]) < IF event = "ended" THEN MaxEvents ELSE MaxEvents - 1
    /\ event = "resumed" => Held(r)
    /\ log' = [log EXCEPT ![r] = Append(@, event)]

\* One that comes too late, or has nothing to resume, tells nobody.
ControlArrives(c) ==
    /\ c \in controls /\ controls' = controls \ {c}
    /\ LET event == CASE c.action = "pause" -> "paused" [] c.action = "resume" -> "resumed" [] OTHER -> "ended"
       IN  Told(c.run, event) \/ UNCHANGED log
    /\ UNCHANGED <<asked, currentRunId, currentRunActive, paused, received, losses>>

\* The run ends, or somebody else controls it.
RunTold(r) ==
    /\ \E event \in {"paused", "resumed", "ended"} : Told(r, event)
    /\ UNCHANGED <<asked, currentRunId, currentRunActive, paused, received, controls, losses>>

ShownRunNext ==
    \/ \E t \in Turns : Submit(t) \/ Answered(t) \/ RunTold(t)
    \/ Receive \/ StreamLost
    \/ \E action \in {"pause", "resume", "cancel"} : PressControl(action)
    \/ \E c \in controls : ControlArrives(c)

-----------------------------------------------------------------------------
(* The panel of approvals *)

SignedIn == token # 0
Polls == {s \in Logins : polling[s] > 0}
Room == \A s \in Logins : polling[s] < MaxPolls

\* Opened on a device that has its key.
PanelInit ==
    /\ token = 0 /\ logins = 0 /\ valid = {}
    /\ entering = FALSE /\ offered = FALSE /\ leaving = {} /\ refreshing = 1
    /\ polling = [s \in Logins |-> 0] /\ timer = FALSE /\ lostTimers = 0
    /\ visible = TRUE /\ listed = FALSE

\* pollApprovals: the timer it knows of is cleared, and a list asked for.
Poll ==
    /\ Room /\ timer' = FALSE
    /\ polling' = IF SignedIn THEN [polling EXCEPT ![token] = @ + 1] ELSE polling

\* refreshFounderControls, once the device key is loaded.
Refreshed ==
    /\ refreshing > 0 /\ refreshing' = refreshing - 1
    /\ offered' = ~SignedIn
    /\ IF SignedIn THEN Poll /\ UNCHANGED listed
       ELSE listed' = FALSE /\ UNCHANGED <<timer, polling>>
    /\ UNCHANGED <<token, logins, valid, entering, leaving, lostTimers, visible>>

\* A plausible mistake in Again: an error ends the polling.
AgainIfTold(told) ==
    IF visible /\ told
    THEN timer' = TRUE /\ lostTimers' = IF timer THEN lostTimers + 1 ELSE lostTimers
    ELSE UNCHANGED <<timer, lostTimers>>

\* A visible page asks again, whether it was told the list or not.  A timer that
\* another poll has set meanwhile goes on, but cannot be cleared any more.
Again(told) ==
    IF visible
    THEN timer' = TRUE /\ lostTimers' = IF timer THEN lostTimers + 1 ELSE lostTimers
    ELSE UNCHANGED <<timer, lostTimers>>

\* signOut forgets the session of now, and tells the other end if there is one.
SignOut ==
    /\ token' = 0
    /\ IF SignedIn THEN leaving' = leaving \cup {token} /\ UNCHANGED refreshing
       ELSE refreshing' = refreshing + 1 /\ UNCHANGED leaving

PollAnswered(s, told) ==
    /\ polling[s] > 0 /\ polling' = [polling EXCEPT ![s] = @ - 1]
    /\ told => s \in valid
    /\ listed' = (listed \/ told)
    /\ Again(told)
    /\ UNCHANGED <<token, logins, valid, entering, offered, leaving, refreshing, visible>>

\* The session of this poll is not known any more.
PollRefused(s) ==
    /\ polling[s] > 0 /\ polling' = [polling EXCEPT ![s] = @ - 1]
    /\ s \notin valid
    /\ SignOut
    /\ UNCHANGED <<logins, valid, entering, offered, timer, lostTimers, visible, listed>>

TimerFires ==
    /\ \/ timer /\ UNCHANGED lostTimers
       \/ lostTimers > 0 /\ lostTimers' = lostTimers - 1
    /\ Poll
    /\ UNCHANGED <<token, logins, valid, entering, offered, leaving, refreshing, visible, listed>>

\* The page comes to the front, or a decision was answered.
PollsNow ==
    /\ lostTimers < MaxPolls
    /\ visible' = TRUE /\ (visible => listed)
    /\ Poll
    /\ UNCHANGED <<token, logins, valid, entering, offered, leaving, refreshing, lostTimers, listed>>

Hides ==
    /\ visible /\ visible' = FALSE
    /\ UNCHANGED <<token, logins, valid, entering, offered, leaving, refreshing, polling, timer, lostTimers, listed>>

PressSignIn ==
    /\ offered /\ ~entering /\ refreshing = 0 /\ entering' = TRUE
    /\ UNCHANGED <<token, logins, valid, offered, leaving, refreshing, polling, timer, lostTimers, visible, listed>>

SignInAnswered(accepted) ==
    /\ entering /\ entering' = FALSE /\ refreshing' = refreshing + 1
    /\ IF accepted
       THEN logins < MaxLogins /\ logins' = logins + 1 /\ token' = logins' /\ valid' = valid \cup {logins'}
       ELSE UNCHANGED <<token, logins, valid>>
    /\ UNCHANGED <<offered, leaving, polling, timer, lostTimers, visible, listed>>

PressSignOut ==
    /\ SignedIn /\ SignOut
    /\ UNCHANGED <<logins, valid, entering, offered, polling, timer, lostTimers, visible, listed>>

LogoutAnswered(s) ==
    /\ s \in leaving /\ leaving' = leaving \ {s} /\ valid' = valid \ {s}
    /\ refreshing' = refreshing + 1
    /\ UNCHANGED <<token, logins, entering, offered, polling, timer, lostTimers, visible, listed>>

Expires(s) ==
    /\ s \in valid /\ valid' = valid \ {s}
    /\ UNCHANGED <<token, logins, entering, offered, leaving, refreshing, polling, timer, lostTimers, visible, listed>>

PanelNext ==
    \/ Refreshed \/ TimerFires \/ PollsNow \/ Hides \/ PressSignIn \/ PressSignOut
    \/ \E accepted \in BOOLEAN : SignInAnswered(accepted)
    \/ \E s \in Logins :
         \/ PollRefused(s) \/ LogoutAnswered(s) \/ Expires(s)
         \/ \E told \in BOOLEAN : PollAnswered(s, told)

-----------------------------------------------------------------------------
\* The microphone is open at most once, and only while the button shows it or
\* a start is under way: whatever order its callbacks come back in, a start
\* that fails and a socket that closes leave no track behind (app.js:585, 656).
MicrophoneReleased == live <= 1 /\ (live = 1 => stream /\ (listening \/ starting # "no"))

\* Once all that was sent has arrived, the controls are those of the run that
\* is shown: there while it is not over, and "continue" exactly when it is held,
\* however often the stream was lost and whichever command was answered last.
ControlsTellRun ==
    Shown /\ received = Len(log[currentRunId]) =>
      /\ currentRunActive <=> ~Over(currentRunId)
      /\ paused <=> Held(currentRunId) /\ ~Over(currentRunId)

\* While the Founder is signed in and looks at the page, it goes on asking what
\* waits for him: an approval nobody is shown expires (docs/founder-approvals.md:8).
PollingGoesOn ==
    SignedIn /\ visible => Polls # {} \/ timer \/ lostTimers > 0 \/ refreshing > 0

\* The screen, the microphone and the panel say what is.
PageAgrees == MicrophoneReleased /\ ControlsTellRun /\ PollingGoesOn

\* README.md:63 "Barge-in is local and immediate: when the user starts speaking,
\* scheduled TTS playback is cut".
BargeInCuts == [][~speechActive /\ speechActive' => playing' = {}]_voiceVars
=============================================================================
