------------------------- MODULE HouseholdRecognition -------------------------
(* Recognition of the household by face and voice                            *)
(* (packages/modules/face-id, packages/modules/speaker-id and their          *)
(* adapters): scripts grant consent, enrol, revoke and forget in one         *)
(* encrypted file; the runtime reads that file to name who is on a photo or  *)
(* in the audio of an utterance, and a face that matched leads the runs of   *)
(* its session for a while (apps/runtime/server.ts: faceHints).  Each        *)
(* process serialises its own updates of the file, and only its own.         *)
EXTENDS Integers, Sequences, FiniteSets

CONSTANTS
  Subjects,
  Scripts,     \* runs of scripts/face-enroll.ts and voice-enroll.ts
  Photos,      \* posts of /api/identity/face for one session
  HintLife,    \* FACE_PRESENCE_TTL_MS
  EmbedLimit,  \* the timeout of the embedder
  BufferLimit, \* chunks of audio kept
  MaxMoment, MaxLed, MaxSpoken, MaxHouseRestarts  \* bounds

ASSUME RecognitionAssumption == {HintLife, EmbedLimit, MaxSpoken} \subseteq Nat

VARIABLES
  vault,       \* durable: the subjects in the file
  script,      \* the scripts, with the copy that an update works on
  lost,        \* history: an update has overwritten that of another process
  withdrawn,   \* history: when the consent of a subject was last withdrawn
  photo,       \* the posts at work, with whom they may name
  faceHint,    \* memory: the fresh match of the session
  led,         \* history: the face that led a run, and for how long its consent was gone
  audio,       \* memory: utterance of each chunk in the buffer
  finals,      \* final transcripts that wait for the one before them
  spoken,      \* the utterance that is heard
  named,       \* history: the chunks an utterance was identified by
  aside,       \* history: utterances whose audio may mix with another's
  moment, houseRestarts

fileVars == <<vault, script, lost, withdrawn>>
faceVars == <<photo, faceHint, led>>
audioVars == <<audio, finals, spoken, named, aside>>
houseVars == <<fileVars, faceVars, audioVars, moment, houseRestarts>>

NotKnown == [consented |-> FALSE, template |-> FALSE]
NoFace == [of |-> "nobody", at |-> 0]
NotLaunchedYet == [op |-> "none", of |-> "nobody", at |-> "none", copy |-> <<>>]
NotPosted == [at |-> "none", asked |-> 0, may |-> {}]

-----------------------------------------------------------------------------
(* The file, and the scripts that write it *)

Enrolled(file) == {x \in Subjects : file[x].template /\ file[x].consented}

At(k, place) == script' = [script EXCEPT ![k].at = place]

\* One command of a script each
Launches(k, op, x) ==
    /\ script[k].at = "none"
    /\ script' = [script EXCEPT ![k] = [op |-> op, of |-> x, at |-> "change", copy |-> <<>>]]
    /\ UNCHANGED <<vault, lost, withdrawn>>

\* EncryptedVault.update reads the file, and later replaces all of it.
Reads(k) ==
    /\ script[k].at \in {"change", "store"}
    /\ script' = [script EXCEPT ![k].at = IF @ = "change" THEN "changing" ELSE "storing",
                                ![k].copy = vault]
    /\ UNCHANGED <<vault, lost, withdrawn>>

Writes(k, x, subject) ==
    /\ vault' = [script[k].copy EXCEPT ![x] = subject]
    /\ lost' = (lost \/ vault # script[k].copy)
    /\ withdrawn' = [y \in Subjects |->
         IF vault[y].consented /\ ~vault'[y].consented THEN moment ELSE withdrawn[y]]

\* A consent that is granted keeps the template; one that is withdrawn takes
\* it along, as does forgetting a subject.
Changes(k) ==
    LET x == script[k].of IN
    /\ script[k].at = "changing"
    /\ Writes(k, x, IF script[k].op = "enrol" THEN [script[k].copy[x] EXCEPT !.consented = TRUE] ELSE NotKnown)
    /\ At(k, IF script[k].op = "enrol" THEN "check" ELSE "over")

\* The consent is checked before the photos or recordings are embedded.
Checks(k) ==
    /\ script[k].at = "check"
    /\ At(k, IF vault[script[k].of].consented THEN "embedding" ELSE "over")
    /\ UNCHANGED <<vault, lost, withdrawn>>

\* They may be too few, of several people, or unlike each other.
Embeds(k, usable) ==
    /\ script[k].at = "embedding" /\ At(k, IF usable THEN "store" ELSE "over")
    /\ UNCHANGED <<vault, lost, withdrawn>>

\* A plausible mistake in Stores.
StoresUnasked(k) ==
    /\ script[k].at = "storing" /\ At(k, "over")
    /\ Writes(k, script[k].of, [script[k].copy[script[k].of] EXCEPT !.template = TRUE])

\* The consent is checked again in the update that stores the template.
Stores(k) ==
    /\ script[k].at = "storing" /\ At(k, "over")
    /\ IF script[k].copy[script[k].of].consented
       THEN Writes(k, script[k].of, [script[k].copy[script[k].of] EXCEPT !.template = TRUE])
       ELSE UNCHANGED <<vault, lost, withdrawn>>

\* The file is replaced by a rename, so that a script that dies writes nothing.
ScriptDies(k) ==
    /\ script[k].at \notin {"none", "over"} /\ At(k, "over")
    /\ UNCHANGED <<vault, lost, withdrawn>>

ScriptNext ==
    /\ \E k \in Scripts :
         \/ \E op \in {"enrol", "revoke", "forget"}, x \in Subjects : Launches(k, op, x)
         \/ \E usable \in BOOLEAN : Embeds(k, usable)
         \/ Reads(k) \/ Changes(k) \/ Checks(k) \/ Stores(k) \/ ScriptDies(k)
    /\ UNCHANGED <<faceVars, audioVars, moment, houseRestarts>>

-----------------------------------------------------------------------------
(* Faces *)

\* A post reads the file and awaits the embedding of its photo.
PostPhoto(p) ==
    /\ photo[p].at = "none"
    /\ photo' = [photo EXCEPT ![p] = [at |-> "embedding", asked |-> moment, may |-> Enrolled(vault)]]
    /\ UNCHANGED <<faceHint, led>>

\* One of those enrolled when the file was read, or nobody: a face below the
\* threshold, two that are close, none or several on the photo
NamePhoto(p, x) ==
    /\ photo[p].at = "embedding" /\ x \in photo[p].may \cup {"nobody"}
    /\ photo' = [photo EXCEPT ![p].at = "answered"]
    /\ faceHint' = IF x = "nobody" THEN NoFace ELSE [of |-> x, at |-> moment]
    /\ UNCHANGED led

PhotoFails(p) ==
    /\ photo[p].at = "embedding" /\ photo' = [photo EXCEPT ![p].at = "answered"]
    /\ UNCHANGED <<faceHint, led>>

\* A plausible mistake in FreshHint.
AnyHint == faceHint

FreshHint == IF faceHint # NoFace /\ moment - faceHint.at > HintLife THEN NoFace ELSE faceHint

\* A run of the session starts, led by the face that is fresh.
StartLed ==
    /\ Len(led) < MaxLed
    /\ faceHint' = FreshHint
    /\ led' = Append(led, [of |-> FreshHint.of,
                           gone |-> IF FreshHint = NoFace \/ vault[FreshHint.of].consented THEN 0
                                    ELSE moment - withdrawn[FreshHint.of]])
    /\ UNCHANGED photo

FaceNext ==
    /\ \E p \in Photos : PostPhoto(p) \/ PhotoFails(p) \/ (\E x \in Subjects \cup {"nobody"} : NamePhoto(p, x))
       \/ StartLed
    /\ UNCHANGED <<fileVars, audioVars, moment, houseRestarts>>

-----------------------------------------------------------------------------
(* Voices *)

\* Audio of the utterance that is heard, which goes to the transcription and
\* to the buffer; the oldest chunks leave a full buffer.
Hears ==
    /\ spoken <= MaxSpoken /\ Len(SelectSeq(audio, LAMBDA u : u = spoken)) < BufferLimit
    /\ audio' = LET kept == Append(audio, spoken)
                IN  IF Len(kept) > BufferLimit THEN Tail(kept) ELSE kept
    /\ aside' = IF finals # <<>> THEN aside \cup {spoken} \cup {finals[i] : i \in DOMAIN finals} ELSE aside
    /\ UNCHANGED <<finals, spoken, named>>

\* The transcription of what was heard is final; another utterance begins.
EndsUtterance ==
    /\ spoken <= MaxSpoken /\ (\E i \in DOMAIN audio : audio[i] = spoken)
    /\ finals' = Append(finals, spoken) /\ spoken' = spoken + 1
    /\ UNCHANGED <<audio, named, aside>>

\* Or nothing is transcribed of it, and its audio stays.
EndsUnheard ==
    /\ spoken <= MaxSpoken /\ (\E i \in DOMAIN audio : audio[i] = spoken)
    /\ spoken' = spoken + 1 /\ aside' = aside \cup {spoken, spoken + 1}
    /\ UNCHANGED <<audio, finals, named>>

\* A plausible mistake in Drained.
DrainedLater(taken) == audio

Drained(taken) == <<>>

\* The final transcript is handled: its speaker is identified by what is in
\* the buffer, which is emptied.
Identify ==
    /\ finals # <<>>
    /\ named' = [named EXCEPT ![Head(finals)] = audio]
    /\ audio' = Drained(audio) /\ finals' = Tail(finals)
    /\ UNCHANGED <<spoken, aside>>

VoiceNext == (Hears \/ EndsUtterance \/ EndsUnheard \/ Identify) /\ UNCHANGED <<fileVars, faceVars, moment, houseRestarts>>

-----------------------------------------------------------------------------

\* The embedder is given up after its timeout.
MomentPasses ==
    /\ moment < MaxMoment /\ moment' = moment + 1
    /\ \A p \in Photos : photo[p].at = "embedding" => moment - photo[p].asked < EmbedLimit
    /\ UNCHANGED <<fileVars, faceVars, audioVars, houseRestarts>>

RestartHouse ==
    /\ houseRestarts < MaxHouseRestarts /\ houseRestarts' = houseRestarts + 1
    /\ faceHint' = NoFace /\ audio' = <<>> /\ finals' = <<>>
    /\ photo' = [p \in Photos |-> IF photo[p].at = "embedding" THEN [photo[p] EXCEPT !.at = "answered"] ELSE photo[p]]
    /\ spoken' = IF spoken \in {audio[i] : i \in DOMAIN audio} THEN spoken + 1 ELSE spoken
    /\ UNCHANGED <<fileVars, led, named, aside, moment>>

HouseInit ==
    /\ vault = [x \in Subjects |-> NotKnown] /\ script = [k \in Scripts |-> NotLaunchedYet]
    /\ lost = FALSE /\ withdrawn = [x \in Subjects |-> 0]
    /\ photo = [p \in Photos |-> NotPosted] /\ faceHint = NoFace /\ led = <<>>
    /\ audio = <<>> /\ finals = <<>> /\ spoken = 1 /\ named = [u \in 1..MaxSpoken |-> <<>>] /\ aside = {}
    /\ moment = 1 /\ houseRestarts = 0

HouseNext == ScriptNext \/ FaceNext \/ VoiceNext \/ MomentPasses \/ RestartHouse

-----------------------------------------------------------------------------
(* Properties *)

\* Nobody has a template without a consent, however consents, enrolments and
\* withdrawals alternate, unless two processes wrote the file at once.
TemplatesAllowed == lost \/ \A x \in Subjects : vault[x].template => vault[x].consented

\* A face leads no run for longer after its consent is gone than a photo may
\* be embedded and a match is fresh.
WithdrawnSoonForgotten == \A i \in DOMAIN led : led[i].gone <= HintLife + EmbedLimit

\* An utterance is identified by its own audio, unless the next one began
\* before it was handled or nothing was transcribed of the one before it.
HeardOnce == \A u \in 1..MaxSpoken : u \notin aside => \A i \in DOMAIN named[u] : named[u][i] = u

\* What recognition keeps and whom it names (identifier.ts: enroll, identify;
\* server.ts: freshFaceHint).
RecognitionAgrees == TemplatesAllowed /\ WithdrawnSoonForgotten /\ HeardOnce

\* Claim of packages/modules/speaker-id/README.md:17, and of vault.ts:87 that
\* concurrent callers lose no updates: a template needs a consent.
NeverWithout == \A x \in Subjects : vault[x].template => vault[x].consented
=============================================================================
