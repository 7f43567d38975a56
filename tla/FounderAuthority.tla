--------------------------- MODULE FounderAuthority ---------------------------
(* Who may act, and for how long: sign-in by challenge and session           *)
(* (packages/security/src/authority-auth.ts), face-bound keys and one-time   *)
(* proofs (founder-biometric.ts), and the requests of apps/runtime/server.ts *)
(* that use them.  Such a request is authorized first and reads its body     *)
(* afterwards.  Credentials and face keys are durable, the rest is memory.   *)
(* What has expired is gone, because every operation prunes first.           *)
EXTENDS Integers, FiniteSets

CONSTANTS
  Others,          \* principals other than the Founder
  Keys,            \* ids of face keys
  Provisionings,   \* the sets of face keys that may be configured out of band
  Bootstrap,       \* JANUS_ALLOW_BIOMETRIC_BOOTSTRAP
  ChallengeTtl, SessionTtl, ProofTtl, Skew,
  MaxIds, MaxRequests, MaxCommands, MaxVersion

ASSUME AuthorityAssumption ==
    /\ "founder" \notin Others /\ Provisionings \subseteq SUBSET Keys /\ Bootstrap \in BOOLEAN
    /\ {ChallengeTtl, SessionTtl, ProofTtl} \subseteq Nat \ {0}
    /\ {Skew, MaxIds, MaxRequests, MaxCommands} \subseteq Nat /\ MaxVersion \in Nat \ {0}

VARIABLES
  credential,   \* durable: state and version of each principal's public key
  faceKey,      \* durable: none, active or revoked
  challenges, sessions,                 \* of LocalAuthorityAuthService
  faceChallenges, enrollments, proofs,  \* of FounderBiometricService
  requests,     \* authorized requests whose body is awaited
  commands,     \* commands under way: their ages
  cut           \* per principal, the version last revoked             (history)

auth == <<challenges, sessions>>
face == <<faceChallenges, enrollments, proofs>>
vars == <<credential, faceKey, auth, face, requests, commands, cut>>

Principals == Others \cup {"founder"}
Ids == 1..MaxIds
\* the actions of the requests that need a proof, and one that a run carries out
Requested == {"delegate", "revoke", "enroll", "revoke_key"}
Actions == Requested \cup {"private"}

IsActive(p) == credential[p].state = "active"
ActiveKeys == {k \in Keys : faceKey[k] = "active"}
FounderSessions == {s \in sessions : s.principal = "founder"}

Init ==
    /\ credential = [p \in Principals |->
         IF p = "founder" THEN [state |-> "active", version |-> 1]
         ELSE [state |-> "none", version |-> 0]]
    /\ \E P \in Provisionings : faceKey = [k \in Keys |-> IF k \in P THEN "active" ELSE "none"]
    /\ challenges = {} /\ sessions = {}
    /\ faceChallenges = {} /\ enrollments = {} /\ proofs = {}
    /\ requests = {} /\ commands = {}
    /\ cut = [p \in Others |-> 0]

-----------------------------------------------------------------------------
(* Time, as the ticks each thing has left *)

Older(S) == {[x EXCEPT !.left = @ - 1] : x \in S}

\* A plausible mistake in Pruned.
PrunedLate(S) == {x \in S : x.left >= 0}

\* prune of both services
Pruned(S) == {x \in S : x.left > 0}

Tick ==
    /\ challenges' = Pruned(Older(challenges)) /\ sessions' = Pruned(Older(sessions))
    /\ faceChallenges' = Pruned(Older(faceChallenges)) /\ enrollments' = Pruned(Older(enrollments))
    /\ proofs' = Pruned(Older(proofs))
    /\ commands' = {IF c < ProofTtl + Skew THEN c + 1 ELSE c : c \in commands}
    /\ UNCHANGED <<credential, faceKey, requests, cut>>

\* A restart of the runtime.
Crash ==
    /\ challenges' = {} /\ sessions' = {}
    /\ faceChallenges' = {} /\ enrollments' = {} /\ proofs' = {}
    /\ requests' = {} /\ commands' = {}
    /\ UNCHANGED <<credential, faceKey, cut>>

IdsOf(S) == {x.id : x \in S}
Mentioned == IdsOf(challenges \cup sessions \cup faceChallenges \cup enrollments \cup proofs)
             \cup UNION {{r.proof, r.session} : r \in requests}

\* Ids are random: a new one is mentioned nowhere.
NewId == CHOOSE i \in Ids : i \notin Mentioned
CanIssue == \E i \in Ids : i \notin Mentioned

\* The two requests of delegation present the session again when carried out.
Request(a, s, i) ==
    LET alike(n) == [action |-> a, proof |-> i, copy |-> n,
                     session |-> IF a \in {"delegate", "revoke"} THEN s.id ELSE 0]
    IN  /\ Cardinality(requests) < MaxRequests
        /\ requests' = requests \cup {alike(CHOOSE n \in 1..MaxRequests : alike(n) \notin requests)}

\* Of requests that are alike, the last.
Leaves(r) ==
    /\ r \in requests /\ [r EXCEPT !.copy = @ + 1] \notin requests
    /\ requests' = requests \ {r}

Arrives(r, a) == r.action = a /\ Leaves(r)

-----------------------------------------------------------------------------
(* Sign-in *)

IssueChallenge(p) ==
    /\ IsActive(p) /\ CanIssue
    /\ challenges' = challenges \cup {[id |-> NewId, principal |-> p, left |-> ChallengeTtl]}
    /\ UNCHANGED <<credential, faceKey, sessions, face, requests, commands, cut>>

\* A plausible mistake in VerifyChallenge: a challenge is spent by success only.
VerifyChallengeKept(c, signed) ==
    /\ c \in challenges
    /\ IF signed /\ IsActive(c.principal)
       THEN sessions' = sessions \cup {[id |-> c.id, principal |-> c.principal,
                  key |-> credential[c.principal].version, left |-> SessionTtl]}
       ELSE UNCHANGED sessions
    /\ UNCHANGED <<credential, faceKey, challenges, face, requests, commands, cut>>

\* Any answer spends the challenge; a signature with the principal's present
\* key makes it a session.
VerifyChallenge(c, signed) ==
    /\ c \in challenges
    /\ challenges' = challenges \ {c}
    /\ IF signed /\ IsActive(c.principal)
       THEN sessions' = sessions \cup {[id |-> c.id, principal |-> c.principal,
                  key |-> credential[c.principal].version, left |-> SessionTtl]}
       ELSE UNCHANGED sessions
    /\ UNCHANGED <<credential, faceKey, face, requests, commands, cut>>

Logout(s) ==
    /\ s \in sessions
    /\ sessions' = sessions \ {s}
    /\ UNCHANGED <<credential, faceKey, challenges, face, requests, commands, cut>>

-----------------------------------------------------------------------------
(* Face keys and proofs, for a Founder who was signed in when asking *)

SignedIn(s) ==
    /\ s \in FounderSessions /\ Request("face", s, 0)
    /\ UNCHANGED <<credential, faceKey, auth, face, commands, cut>>

IssueFaceChallenge(r, a) ==
    /\ Arrives(r, "face") /\ ActiveKeys # {} /\ CanIssue
    /\ faceChallenges' = faceChallenges \cup {[id |-> NewId, action |-> a, left |-> ChallengeTtl]}
    /\ UNCHANGED <<credential, faceKey, auth, enrollments, proofs, commands, cut>>

VerifyAssertion(r, c, k, signed) ==
    /\ Arrives(r, "face") /\ c \in faceChallenges
    /\ faceChallenges' = faceChallenges \ {c}
    /\ IF signed /\ faceKey[k] = "active"
       THEN proofs' = proofs \cup {[id |-> c.id, action |-> c.action, key |-> k,
                                    left |-> ProofTtl]}
       ELSE UNCHANGED proofs
    /\ UNCHANGED <<credential, faceKey, auth, enrollments, commands, cut>>

IssueEnrollment(r, k) ==
    /\ Arrives(r, "face") /\ faceKey[k] = "none" /\ CanIssue
    /\ ActiveKeys # {} \/ Bootstrap
    /\ enrollments' = enrollments \cup {[id |-> NewId, key |-> k, left |-> ChallengeTtl]}
    /\ UNCHANGED <<credential, faceKey, auth, faceChallenges, proofs, commands, cut>>

-----------------------------------------------------------------------------
(* Authorizing a request *)

\* A plausible mistake in Consumed.
ConsumedTwice(q) == UNCHANGED proofs

\* consumeProof: the proof of an action is used up by it.
Consumed(q) == proofs' = proofs \ {q}

\* requireFounderBiometricAuthority
Authorize(s, q) ==
    /\ s \in FounderSessions /\ q \in proofs /\ q.action \in Requested
    /\ Consumed(q) /\ Request(q.action, s, q.id)
    /\ UNCHANGED <<credential, faceKey, auth, faceChallenges, enrollments, commands, cut>>

\* The first face key has no other to vouch for it.
AuthorizeFirstKey(s) ==
    /\ s \in FounderSessions /\ ActiveKeys = {} /\ Bootstrap /\ Request("enroll", s, 0)
    /\ UNCHANGED <<credential, faceKey, auth, face, commands, cut>>

\* The body does not arrive, or is not accepted.
Abandon(r) ==
    /\ Leaves(r)
    /\ UNCHANGED <<credential, faceKey, auth, face, commands, cut>>


-----------------------------------------------------------------------------
(* Carrying out a request *)

\* The session must still hold; a principal known before gets the new key.
Delegate(r, p) ==
    /\ Arrives(r, "delegate") /\ r.session \in IdsOf(sessions)
    /\ credential[p].version < MaxVersion
    /\ credential' = [credential EXCEPT ![p] = [state |-> "active", version |-> @.version + 1]]
    /\ UNCHANGED <<faceKey, auth, face, commands, cut>>

\* A plausible mistake in Revoke.
RevokeKeepingSessions(r, p) ==
    /\ Arrives(r, "revoke") /\ r.session \in IdsOf(sessions)
    /\ IsActive(p)
    /\ credential' = [credential EXCEPT ![p].state = "revoked"]
    /\ cut' = [cut EXCEPT ![p] = credential[p].version]
    /\ UNCHANGED <<faceKey, auth, face, commands>>

\* As administrator or as operator; asked for the other role it is not accepted.
Revoke(r, p) ==
    /\ Arrives(r, "revoke") /\ r.session \in IdsOf(sessions)
    /\ IsActive(p)
    /\ credential' = [credential EXCEPT ![p].state = "revoked"]
    /\ sessions' = {s \in sessions : s.principal # p}
    /\ cut' = [cut EXCEPT ![p] = credential[p].version]
    /\ UNCHANGED <<faceKey, challenges, face, commands>>

\* A plausible mistake in Enroll.
EnrollAgain(r, e, signed) ==
    /\ Arrives(r, "enroll") /\ e \in enrollments
    /\ enrollments' = enrollments \ {e}
    /\ IF signed
       THEN faceKey' = [faceKey EXCEPT ![e.key] = "active"]
       ELSE UNCHANGED faceKey
    /\ UNCHANGED <<credential, auth, faceChallenges, proofs, commands, cut>>

Enroll(r, e, signed) ==
    /\ Arrives(r, "enroll") /\ e \in enrollments
    /\ enrollments' = enrollments \ {e}
    /\ IF signed /\ faceKey[e.key] = "none"
       THEN faceKey' = [faceKey EXCEPT ![e.key] = "active"]
       ELSE UNCHANGED faceKey
    /\ UNCHANGED <<credential, auth, faceChallenges, proofs, commands, cut>>

\* A plausible mistake in RevokeFaceKey.
RevokeAnyFaceKey(r, k) ==
    /\ Arrives(r, "revoke_key") /\ k \in ActiveKeys
    /\ faceKey' = [faceKey EXCEPT ![k] = "revoked"]
    /\ proofs' = {q \in proofs : q.key # k}
    /\ UNCHANGED <<credential, auth, faceChallenges, enrollments, commands, cut>>

\* A plausible mistake in RevokeFaceKey.
RevokeFaceKeyOnly(r, k) ==
    /\ Arrives(r, "revoke_key") /\ k \in ActiveKeys /\ Cardinality(ActiveKeys) > 1
    /\ faceKey' = [faceKey EXCEPT ![k] = "revoked"]
    /\ UNCHANGED <<credential, auth, face, commands, cut>>

\* The last key stays; proofs given with the revoked one are void.
RevokeFaceKey(r, k) ==
    /\ Arrives(r, "revoke_key") /\ k \in ActiveKeys /\ Cardinality(ActiveKeys) > 1
    /\ faceKey' = [faceKey EXCEPT ![k] = "revoked"]
    /\ proofs' = {q \in proofs : q.key # k}
    /\ UNCHANGED <<credential, auth, faceChallenges, enrollments, commands, cut>>

-----------------------------------------------------------------------------
(* Commands *)

\* A command keeps its principal and the time it was given at.
Command(s) ==
    /\ s \in FounderSessions
    /\ Cardinality(commands) < MaxCommands
    /\ commands' = commands \cup {0}
    /\ UNCHANGED <<credential, faceKey, auth, face, requests, cut>>

\* A step of its run needs a proof: one verified after the command was given is
\* lost, and the run is blocked.
RunActs(c, q) ==
    /\ c \in commands /\ q \in proofs /\ q.action = "private"
    /\ Consumed(q)
    /\ commands' = IF c <= ProofTtl - q.left + Skew THEN commands ELSE commands \ {c}
    /\ UNCHANGED <<credential, faceKey, auth, faceChallenges, enrollments, requests, cut>>

-----------------------------------------------------------------------------
Next ==
    \/ Tick \/ Crash
    \/ \E p \in Principals : IssueChallenge(p)
    \/ \E c \in challenges, signed \in BOOLEAN : VerifyChallenge(c, signed)
    \/ \E s \in sessions : Logout(s) \/ Command(s) \/ SignedIn(s) \/ AuthorizeFirstKey(s) \/ \E q \in proofs : Authorize(s, q)
    \/ \E r \in requests :
         \/ Abandon(r)
         \/ \E a \in Actions : IssueFaceChallenge(r, a)
         \/ \E c \in faceChallenges, k \in Keys, signed \in BOOLEAN : VerifyAssertion(r, c, k, signed)
         \/ \E k \in Keys : IssueEnrollment(r, k)
         \/ \E p \in Others : Delegate(r, p) \/ Revoke(r, p)
         \/ \E e \in enrollments, signed \in BOOLEAN : Enroll(r, e, signed)
         \/ \E k \in Keys : RevokeFaceKey(r, k)
    \/ \E c \in commands, q \in proofs : RunActs(c, q)

Spec == Init /\ [][Next]_vars
=============================================================================
