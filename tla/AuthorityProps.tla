---------------------------- MODULE AuthorityProps ----------------------------
(* What must hold of sign-in, delegation, face keys and proofs, whatever is  *)
(* interleaved, expires or is lost in a restart.                             *)
EXTENDS FounderAuthority, TLC

\* For model checking: no operation tells one key from another.
Symmetry == Permutations(Keys)

Expiring(S) == \A x \in S : x.id \in Ids /\ x.left > 0

\* Values the variables range over; nothing expired is kept.
TypeOK ==
    /\ \A p \in Principals :
         /\ credential[p].state \in {"none", "active", "revoked"}
         /\ credential[p].version \in 0..MaxVersion
    /\ faceKey \in [Keys -> {"none", "active", "revoked"}]
    /\ Expiring(challenges) /\ Expiring(sessions)
    /\ Expiring(faceChallenges) /\ Expiring(enrollments) /\ Expiring(proofs)
    /\ \A s \in sessions : s.principal \in Principals /\ s.key \in 1..MaxVersion
    /\ \A q \in proofs : q.key \in Keys /\ q.action \in Actions
    /\ \A r \in requests : r.action \in Requested \cup {"face"} /\ r.proof \in Ids \cup {0}
    /\ \A c \in commands : c \in 0..ProofTtl + Skew
    /\ cut \in [Others -> 0..MaxVersion]

Held == challenges \cup sessions \cup faceChallenges \cup enrollments \cup proofs

\* A challenge becomes one session or one proof and a proof one request, in
\* whatever requests it is presented: no id is held twice
\* (docs/ADR-006-local-public-key-authority-authentication.md:17).
OneUse ==
    /\ \A x, y \in Held : x.id = y.id => x = y
    /\ \A r \in requests : r.proof \notin IdsOf(Held)
    /\ \A r, q \in requests : r.proof = q.proof /\ r.proof # 0 => r = q

\* A revoked principal has no session, not even after it is delegated again
\* (docs/ADR-006-local-public-key-authority-authentication.md:46).
RevokedSessionsEnd ==
    \A s \in sessions :
      s.principal # "founder" => IsActive(s.principal) /\ s.key > cut[s.principal]

\* Once there is a face key there is always one, however many revocations were
\* authorized together (docs/ios-founder-faceid-bridge.md "refuses to revoke the
\* last active Founder Face ID key").
LastFaceKeyStays == [][ActiveKeys # {} => ActiveKeys' # {}]_vars

\* A revoked key id is never active again, also when its enrollment was under
\* way (docs/ios-founder-faceid-bridge.md "keeps biometric key IDs append-only").
FaceKeysAppendOnly == [][\A k \in Keys : faceKey[k] = "revoked" => faceKey'[k] = "revoked"]_vars

\* A proof that can still be used was made with a key that is still active,
\* however long the request or the run that will present it has waited.
ProofsAreLive == \A q \in proofs : faceKey[q.key] = "active"

\* What is held is live and held once, and a revocation leaves nothing that can
\* still be used (authority-auth.ts: revokePrincipalSessions, verifyChallenge;
\* founder-biometric.ts: revokeKey, consumeProof).
TokensAgree == TypeOK /\ OneUse /\ RevokedSessionsEnd /\ ProofsAreLive

\* Face keys are kept: the last one active, the revoked ones revoked.
FaceKeysKept == LastFaceKeyStays /\ FaceKeysAppendOnly

-----------------------------------------------------------------------------
(* Statements of the repository that the code does not keep.                *)

\* docs/ios-founder-faceid-bridge.md "requires an already enrolled Face ID proof
\* for key rotation": no key is added to others without a proof.
RotationNeedsProof ==
    [][\A k \in Keys : faceKey[k] = "none" /\ faceKey'[k] = "active" /\ ActiveKeys # {} =>
         \E r \in requests \ requests' : r.action = "enroll" /\ r.proof # 0]_vars
=============================================================================
