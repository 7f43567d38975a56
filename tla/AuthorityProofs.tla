--------------------------- MODULE AuthorityProofs ---------------------------
(* Sign-in, delegation, face keys and proofs keep their safety properties    *)
(* for any principals and keys, any lifetimes and any number of ids; the     *)
(* social watch of the Founder's services runs once at a time, for any       *)
(* accounts, names of runs and requests; and the vault holds nobody else's   *)
(* tokens, leases none that were not stored and gives back nothing that was  *)
(* removed, for any services, requests, callers and bounds.                  *)
EXTENDS AuthorityProps, SocialWatch, Credentials, FiniteSetTheorems, TLAPS

Lifetimes == Nat \ {0}
ChallengeRecords == [id : Ids, principal : Principals, left : Lifetimes]
SessionRecords ==
    [id : Ids, principal : Principals, key : 1..MaxVersion, left : Lifetimes]
FaceChallengeRecords == [id : Ids, action : Actions, left : Lifetimes]
EnrollmentRecords == [id : Ids, key : Keys, left : Lifetimes]
ProofRecords == [id : Ids, action : Actions, key : Keys, left : Lifetimes]

\* What each table holds; the Founder's own key is never replaced or revoked.
Shapes ==
    /\ credential \in [Principals -> [state : {"none", "active", "revoked"}, version : 0..MaxVersion]]
    /\ credential["founder"] = [state |-> "active", version |-> 1]
    /\ faceKey \in [Keys -> {"none", "active", "revoked"}]
    /\ challenges \subseteq ChallengeRecords /\ sessions \subseteq SessionRecords
    /\ faceChallenges \subseteq FaceChallengeRecords
    /\ enrollments \subseteq EnrollmentRecords /\ proofs \subseteq ProofRecords
    /\ \A r \in requests : r.action \in Requested \cup {"face"} /\ r.proof \in Ids \cup {0}
    /\ commands \subseteq 0..ProofTtl + Skew
    /\ cut \in [Others -> 0..MaxVersion]

\* A key in use is newer than the one revoked last.
KeysAdvance ==
    \A p \in Others :
      cut[p] <= credential[p].version /\ (IsActive(p) => cut[p] < credential[p].version)

AuthorityInv == Shapes /\ OneUse /\ KeysAdvance /\ RevokedSessionsEnd /\ ProofsAreLive

-----------------------------------------------------------------------------
\* The bounds are numbers, and the lifetimes leave something to live.
LEMMA Bounds ==
    /\ ChallengeTtl \in Lifetimes /\ SessionTtl \in Lifetimes /\ ProofTtl \in Lifetimes
    /\ Skew \in Nat /\ MaxIds \in Nat /\ MaxVersion \in Nat \ {0}
    /\ "founder" \notin Others
BY AuthorityAssumption DEF Lifetimes

\* A record tells what kind of thing it is: nothing is a challenge and a
\* session, a proof and anything else.
LEMMA KindsApart ==
    /\ ChallengeRecords \cap SessionRecords = {}
    /\ ChallengeRecords \cap ProofRecords = {}
    /\ SessionRecords \cap ProofRecords = {}
    /\ FaceChallengeRecords \cap ProofRecords = {}
    /\ EnrollmentRecords \cap ProofRecords = {}
    /\ FaceChallengeRecords \cap ChallengeRecords = {}
    /\ FaceChallengeRecords \cap SessionRecords = {}
    /\ FaceChallengeRecords \cap EnrollmentRecords = {}
    /\ EnrollmentRecords \cap ChallengeRecords = {}
    /\ EnrollmentRecords \cap SessionRecords = {}
<1>1. /\ \A x \in ChallengeRecords : DOMAIN x = {"id", "principal", "left"}
      /\ \A x \in SessionRecords : DOMAIN x = {"id", "principal", "key", "left"}
      /\ \A x \in FaceChallengeRecords : DOMAIN x = {"id", "action", "left"}
      /\ \A x \in EnrollmentRecords : DOMAIN x = {"id", "key", "left"}
      /\ \A x \in ProofRecords : DOMAIN x = {"id", "action", "key", "left"}
  BY DEF ChallengeRecords, SessionRecords, FaceChallengeRecords, EnrollmentRecords, ProofRecords
<1> HIDE DEF ChallengeRecords, SessionRecords, FaceChallengeRecords, EnrollmentRecords, ProofRecords
<1> QED BY <1>1

\* A new id is held by nothing and named by no request.
LEMMA NewIdIsNew ==
    ASSUME CanIssue
    PROVE  /\ NewId \in Ids
           /\ \A x \in Held : x.id # NewId
           /\ \A r \in requests : r.proof # NewId
<1>1. NewId \in Ids /\ NewId \notin Mentioned
  BY DEF CanIssue, NewId
<1>2. \A x \in Held : x.id \in Mentioned
  BY DEF Mentioned, IdsOf, Held
<1>3. \A r \in requests : r.proof \in Mentioned
  BY DEF Mentioned
<1> QED BY <1>1, <1>2, <1>3

\* The named parts give what the run checks.
LEMMA InvGivesTokens == AuthorityInv => TypeOK /\ TokensAgree
BY Bounds
   DEF AuthorityInv, Shapes, TokensAgree, TypeOK, Expiring, ChallengeRecords, SessionRecords,
       FaceChallengeRecords, EnrollmentRecords, ProofRecords, Lifetimes

\* Fewer tokens and fewer requests.
LEMMA FewerKeepOneUse ==
    ASSUME OneUse, Held' \subseteq Held, requests' \subseteq requests
    PROVE  OneUse'
BY DEF OneUse, IdsOf

\* One token more, or one in the place of another, under an id of its own.
LEMMA OneMoreKeepsOneUse ==
    ASSUME OneUse, NEW n, Held' \subseteq Held \cup {n}, requests' \subseteq requests,
           \A x \in Held' : x.id = n.id => x = n,
           \A r \in requests : r.proof # n.id
    PROVE  OneUse'
BY DEF OneUse, IdsOf

\* A request that no proof came with.
LEMMA RequestKeepsOneUse ==
    ASSUME OneUse, UNCHANGED Held, NEW a, NEW s, Request(a, s, 0), 0 \notin IdsOf(Held)
    PROVE  OneUse'
BY DEF OneUse, IdsOf, Request

\* What nothing has touched stays as it was.
LEMMA Untouched ==
    ASSUME AuthorityInv, UNCHANGED vars
    PROVE  AuthorityInv'
BY DEF AuthorityInv, Shapes, OneUse, KeysAdvance, RevokedSessionsEnd, ProofsAreLive, vars, auth,
       face, Held, IsActive, IdsOf

\* The accounts and the face keys are as they were, and the tokens about them
\* are fewer or older.
LEMMA AccountsKept ==
    ASSUME AuthorityInv, UNCHANGED <<credential, faceKey, cut>>,
           \A s \in sessions' : \E t \in sessions : s.principal = t.principal /\ s.key = t.key,
           \A q \in proofs' : \E t \in proofs : q.key = t.key
    PROVE  KeysAdvance' /\ RevokedSessionsEnd' /\ ProofsAreLive'
<1>1. KeysAdvance'
  BY DEF AuthorityInv, KeysAdvance, IsActive
<1>2. RevokedSessionsEnd'
  BY DEF AuthorityInv, RevokedSessionsEnd, IsActive
<1>3. ProofsAreLive'
  BY DEF AuthorityInv, ProofsAreLive
<1> QED BY <1>1, <1>2, <1>3

LEMMA IdsAreNumbers ==
    ASSUME Shapes
    PROVE  \A x \in Held : x.id \in Ids /\ x.id # 0
BY Bounds DEF Shapes, Held, ChallengeRecords, SessionRecords, FaceChallengeRecords,
     EnrollmentRecords, ProofRecords, Ids

-----------------------------------------------------------------------------
LEMMA InitHolds == Init => AuthorityInv
<1> SUFFICES ASSUME Init PROVE AuthorityInv
  OBVIOUS
<1>1. Shapes
  <2>1. credential \in [Principals -> [state : {"none", "active", "revoked"}, version : 0..MaxVersion]]
    BY Bounds DEF Init
  <2>2. credential["founder"] = [state |-> "active", version |-> 1]
    BY DEF Init, Principals
  <2>3. faceKey \in [Keys -> {"none", "active", "revoked"}] /\ cut \in [Others -> 0..MaxVersion]
    BY Bounds DEF Init
  <2> QED BY <2>1, <2>2, <2>3 DEF Init, Shapes
<1>2. OneUse
  BY DEF Init, OneUse, Held
<1>3. KeysAdvance
  BY Bounds DEF Init, KeysAdvance, IsActive, Principals
<1>4. RevokedSessionsEnd /\ ProofsAreLive
  BY DEF Init, RevokedSessionsEnd, ProofsAreLive
<1> QED BY <1>1, <1>2, <1>3, <1>4 DEF AuthorityInv

\* What lived to see the tick is what was held before, a tick older.
LEMMA TickKeeps ==
    ASSUME AuthorityInv, Tick
    PROVE  AuthorityInv'
<1> DEFINE Aged(x) == [x EXCEPT !.left = @ - 1]
<1>1. ASSUME NEW S PROVE Pruned(Older(S)) = {y \in {Aged(x) : x \in S} : y.left > 0}
  BY DEF Pruned, Older
<1>2. \A x \in Held : Aged(x).id = x.id
  BY DEF AuthorityInv, Shapes, Held, ChallengeRecords, SessionRecords, FaceChallengeRecords,
         EnrollmentRecords, ProofRecords
<1>3. \A y \in Held' : \E x \in Held : y = Aged(x)
  BY <1>1 DEF Tick, Held
<1>4. OneUse'
  <2> HIDE DEF Aged
  <2>1. \A x, y \in Held' : x.id = y.id => x = y
    BY <1>2, <1>3 DEF AuthorityInv, OneUse
  <2>2. IdsOf(Held') \subseteq IdsOf(Held) /\ requests' = requests
    BY <1>2, <1>3 DEF IdsOf, Tick
  <2> QED BY <2>1, <2>2 DEF AuthorityInv, OneUse, IdsOf
<1>5. Shapes'
  <2>1. /\ challenges' \subseteq ChallengeRecords /\ sessions' \subseteq SessionRecords
        /\ faceChallenges' \subseteq FaceChallengeRecords
        /\ enrollments' \subseteq EnrollmentRecords /\ proofs' \subseteq ProofRecords
    BY <1>1 DEF Tick, AuthorityInv, Shapes, ChallengeRecords, SessionRecords, FaceChallengeRecords,
         EnrollmentRecords, ProofRecords, Lifetimes
  <2>2. commands' \subseteq 0..ProofTtl + Skew
    BY Bounds DEF Tick, AuthorityInv, Shapes, Lifetimes
  <2> QED BY <2>1, <2>2 DEF Tick, AuthorityInv, Shapes
<1>6. /\ \A s \in sessions' : \E t \in sessions : s.principal = t.principal /\ s.key = t.key
      /\ \A q \in proofs' : \E t \in proofs : q.key = t.key
  BY <1>1 DEF Tick, AuthorityInv, Shapes, SessionRecords, ProofRecords
<1>7. KeysAdvance' /\ RevokedSessionsEnd' /\ ProofsAreLive'
  BY <1>6, AccountsKept DEF Tick
<1> QED BY <1>4, <1>5, <1>7 DEF AuthorityInv

LEMMA CrashKeeps ==
    ASSUME AuthorityInv, Crash
    PROVE  AuthorityInv'
<1>1. Held' = {}
  BY DEF Crash, Held
<1>2. Shapes' /\ OneUse'
  BY <1>1 DEF Crash, AuthorityInv, Shapes, OneUse
<1>3. KeysAdvance' /\ RevokedSessionsEnd' /\ ProofsAreLive'
  BY AccountsKept DEF Crash
<1> QED BY <1>2, <1>3 DEF AuthorityInv

\* Sign-in: a challenge is issued, spent for a session or spent for nothing.
LEMMA SignInKeeps ==
    ASSUME AuthorityInv,
           \/ \E p \in Principals : IssueChallenge(p)
           \/ \E c \in challenges, signed \in BOOLEAN : VerifyChallenge(c, signed)
           \/ \E s \in sessions : Logout(s) \/ Command(s)
    PROVE  AuthorityInv'
<1>1. ASSUME NEW p \in Principals, IssueChallenge(p)
      PROVE  AuthorityInv'
  <2> DEFINE n == [id |-> NewId, principal |-> p, left |-> ChallengeTtl]
  <2>1. n \in ChallengeRecords /\ Held' = Held \cup {n} /\ requests' = requests /\ n.id = NewId
    BY <1>1, Bounds, NewIdIsNew DEF IssueChallenge, ChallengeRecords, Held, face
  <2>2. OneUse'
    <3> HIDE DEF n
    <3> QED BY <1>1, <2>1, NewIdIsNew, OneMoreKeepsOneUse DEF IssueChallenge, AuthorityInv
  <2>3. Shapes'
    BY <1>1, <2>1 DEF IssueChallenge, AuthorityInv, Shapes, face
  <2>4. KeysAdvance' /\ RevokedSessionsEnd' /\ ProofsAreLive'
    BY <1>1, AccountsKept DEF IssueChallenge, face
  <2> QED BY <2>2, <2>3, <2>4 DEF AuthorityInv
<1>2. ASSUME NEW c \in challenges, NEW signed \in BOOLEAN, VerifyChallenge(c, signed)
      PROVE  AuthorityInv'
  <2> DEFINE n == [id |-> c.id, principal |-> c.principal,
                   key |-> credential[c.principal].version, left |-> SessionTtl]
  <2>1. c \in ChallengeRecords /\ c.id \in Ids /\ c.principal \in Principals /\ c \in Held
    BY DEF AuthorityInv, Shapes, ChallengeRecords, Held
  <2>2. IsActive(c.principal) =>
          /\ credential[c.principal].version \in 1..MaxVersion
          /\ c.principal # "founder" => credential[c.principal].version > cut[c.principal]
    BY <2>1, Bounds DEF AuthorityInv, Shapes, KeysAdvance, IsActive, Principals
  <2>3. Held' \subseteq Held \cup {n} /\ c \notin Held'
    <3>1. c \notin sessions' \cup faceChallenges \cup enrollments \cup proofs
      <4>1. n.key = credential[c.principal].version /\ DOMAIN n # DOMAIN c
        BY <2>1 DEF ChallengeRecords
      <4> QED BY <1>2, <2>1, <4>1, KindsApart DEF VerifyChallenge, AuthorityInv, Shapes
    <3> QED BY <1>2, <3>1 DEF VerifyChallenge, Held, face
  <2>4. OneUse'
    <3>1. n.id = c.id
      OBVIOUS
    <3>2. \A r \in requests : r.proof # c.id
      BY <2>1 DEF AuthorityInv, OneUse, IdsOf
    <3>3. \A x \in Held' : x.id = c.id => x = n
      BY <2>1, <2>3 DEF AuthorityInv, OneUse
    <3>4. requests' = requests
      BY <1>2 DEF VerifyChallenge
    <3> HIDE DEF n
    <3> QED BY <2>3, <3>1, <3>2, <3>3, <3>4, OneMoreKeepsOneUse DEF AuthorityInv
  <2>5. Shapes'
    <3>1. IsActive(c.principal) => n \in SessionRecords
      BY <2>1, <2>2, Bounds DEF SessionRecords
    <3>2. sessions' \subseteq SessionRecords
      BY <1>2, <3>1 DEF VerifyChallenge, AuthorityInv, Shapes
    <3> QED BY <1>2, <3>2 DEF VerifyChallenge, AuthorityInv, Shapes, face
  <2>6. KeysAdvance' /\ ProofsAreLive'
    BY <1>2 DEF VerifyChallenge, AuthorityInv, KeysAdvance, ProofsAreLive, IsActive, face
  <2>7. RevokedSessionsEnd'
    BY <1>2, <2>1, <2>2 DEF VerifyChallenge, AuthorityInv, RevokedSessionsEnd, IsActive
  <2> QED BY <2>4, <2>5, <2>6, <2>7 DEF AuthorityInv
<1>3. ASSUME NEW s \in sessions, Logout(s) \/ Command(s)
      PROVE  AuthorityInv'
  <2>1. Held' \subseteq Held /\ requests' = requests
    BY <1>3 DEF Logout, Command, Held, face, auth
  <2>2. OneUse'
    BY <2>1, FewerKeepOneUse DEF AuthorityInv
  <2>3. Shapes'
    <3>1. 0 \in 0..ProofTtl + Skew
      BY Bounds DEF Lifetimes
    <3>2. CASE Logout(s)
      BY <3>2 DEF Logout, AuthorityInv, Shapes, face
    <3>3. CASE Command(s)
      BY <3>1, <3>3 DEF Command, AuthorityInv, Shapes, face, auth
    <3> QED BY <1>3, <3>2, <3>3
  <2>4. KeysAdvance' /\ RevokedSessionsEnd' /\ ProofsAreLive'
    BY <1>3, AccountsKept DEF Logout, Command, face, auth
  <2> QED BY <2>2, <2>3, <2>4 DEF AuthorityInv
<1> QED BY <1>1, <1>2, <1>3

\* Of a request that leaves, nothing is left.
LEMMA LeavesOnly ==
    ASSUME NEW r, Leaves(r)
    PROVE  requests' \subseteq requests
BY DEF Leaves

\* Requests that carry no proof, and those that are given up.
LEMMA RequestsKeep ==
    ASSUME AuthorityInv,
           \/ \E s \in sessions : SignedIn(s) \/ AuthorizeFirstKey(s)
           \/ \E r \in requests : Abandon(r)
    PROVE  AuthorityInv'
<1>1. UNCHANGED <<credential, faceKey, cut, challenges, sessions, faceChallenges, enrollments,
                  proofs, commands>>
  BY DEF SignedIn, AuthorizeFirstKey, Abandon, auth, face
<1>2. Held' = Held
  BY <1>1 DEF Held
<1>3. KeysAdvance' /\ RevokedSessionsEnd' /\ ProofsAreLive'
  BY <1>1, AccountsKept
<1>4. CASE \E s \in sessions : SignedIn(s) \/ AuthorizeFirstKey(s)
  <2>1. PICK s \in sessions, a \in Requested \cup {"face"} : Request(a, s, 0)
    BY <1>4 DEF SignedIn, AuthorizeFirstKey, Requested
  <2>2. 0 \notin IdsOf(Held)
    BY IdsAreNumbers DEF AuthorityInv, IdsOf
  <2>3. OneUse'
    BY <1>2, <2>1, <2>2, RequestKeepsOneUse DEF AuthorityInv
  <2>4. \A r \in requests' : r \in requests \/ (r.action = a /\ r.proof = 0)
    BY <2>1 DEF Request
  <2>5. Shapes'
    BY <1>1, <2>4 DEF AuthorityInv, Shapes
  <2> QED BY <1>3, <2>3, <2>5 DEF AuthorityInv
<1>5. CASE \E r \in requests : Abandon(r)
  <2>1. requests' \subseteq requests
    BY <1>5, LeavesOnly DEF Abandon
  <2> QED BY <1>1, <1>2, <1>3, <2>1, FewerKeepOneUse DEF AuthorityInv, Shapes
<1> QED BY <1>4, <1>5

\* A challenge for the face, and what answers it.
LEMMA FaceKeeps ==
    ASSUME AuthorityInv, NEW r \in requests,
           \/ \E a \in Actions : IssueFaceChallenge(r, a)
           \/ \E c \in faceChallenges, k \in Keys, signed \in BOOLEAN : VerifyAssertion(r, c, k, signed)
           \/ \E k \in Keys : IssueEnrollment(r, k)
    PROVE  AuthorityInv'
<1>1. ASSUME NEW a \in Actions, IssueFaceChallenge(r, a)
      PROVE  AuthorityInv'
  <2> DEFINE n == [id |-> NewId, action |-> a, left |-> ChallengeTtl]
  <2>1. n \in FaceChallengeRecords /\ Held' = Held \cup {n} /\ n.id = NewId
    BY <1>1, Bounds, NewIdIsNew DEF IssueFaceChallenge, FaceChallengeRecords, Held, auth
  <2>2. requests' \subseteq requests
    BY <1>1, LeavesOnly DEF IssueFaceChallenge, Arrives
  <2>3. OneUse'
    <3> HIDE DEF n
    <3> QED BY <1>1, <2>1, <2>2, NewIdIsNew, OneMoreKeepsOneUse DEF IssueFaceChallenge, AuthorityInv
  <2>4. Shapes'
    BY <1>1, <2>1, <2>2 DEF IssueFaceChallenge, AuthorityInv, Shapes, auth
  <2>5. KeysAdvance' /\ RevokedSessionsEnd' /\ ProofsAreLive'
    BY <1>1, AccountsKept DEF IssueFaceChallenge, auth
  <2> QED BY <2>3, <2>4, <2>5 DEF AuthorityInv
<1>2. ASSUME NEW c \in faceChallenges, NEW k \in Keys, NEW signed \in BOOLEAN,
             VerifyAssertion(r, c, k, signed)
      PROVE  AuthorityInv'
  <2> DEFINE n == [id |-> c.id, action |-> c.action, key |-> k, left |-> ProofTtl]
  <2>1. /\ c \in FaceChallengeRecords /\ c.id \in Ids /\ c.action \in Actions /\ c \in Held
        /\ n \in ProofRecords
    BY Bounds DEF AuthorityInv, Shapes, FaceChallengeRecords, ProofRecords, Held
  <2>2. requests' \subseteq requests
    BY <1>2, LeavesOnly DEF VerifyAssertion, Arrives
  <2>3. Held' \subseteq Held \cup {n} /\ c \notin Held'
    <3>1. c \notin challenges \cup sessions \cup enrollments \cup proofs'
      BY <1>2, <2>1, KindsApart DEF VerifyAssertion, AuthorityInv, Shapes
    <3> QED BY <1>2, <3>1 DEF VerifyAssertion, Held, auth
  <2>4. OneUse'
    <3>1. n.id = c.id
      OBVIOUS
    <3>2. \A q \in requests : q.proof # c.id
      BY <2>1 DEF AuthorityInv, OneUse, IdsOf
    <3>3. \A x \in Held' : x.id = c.id => x = n
      BY <2>1, <2>3 DEF AuthorityInv, OneUse
    <3> HIDE DEF n
    <3> QED BY <2>2, <2>3, <3>1, <3>2, <3>3, OneMoreKeepsOneUse DEF AuthorityInv
  <2>5. Shapes'
    BY <1>2, <2>1, <2>2 DEF VerifyAssertion, AuthorityInv, Shapes, auth
  <2>6. KeysAdvance' /\ RevokedSessionsEnd'
    BY <1>2 DEF VerifyAssertion, AuthorityInv, KeysAdvance, RevokedSessionsEnd, IsActive, auth
  <2>7. ProofsAreLive'
    BY <1>2 DEF VerifyAssertion, AuthorityInv, ProofsAreLive
  <2> QED BY <2>4, <2>5, <2>6, <2>7 DEF AuthorityInv
<1>3. ASSUME NEW k \in Keys, IssueEnrollment(r, k)
      PROVE  AuthorityInv'
  <2> DEFINE n == [id |-> NewId, key |-> k, left |-> ChallengeTtl]
  <2>1. n \in EnrollmentRecords /\ Held' = Held \cup {n} /\ n.id = NewId
    BY <1>3, Bounds, NewIdIsNew DEF IssueEnrollment, EnrollmentRecords, Held, auth
  <2>2. requests' \subseteq requests
    BY <1>3, LeavesOnly DEF IssueEnrollment, Arrives
  <2>3. OneUse'
    <3> HIDE DEF n
    <3> QED BY <1>3, <2>1, <2>2, NewIdIsNew, OneMoreKeepsOneUse DEF IssueEnrollment, AuthorityInv
  <2>4. Shapes'
    BY <1>3, <2>1, <2>2 DEF IssueEnrollment, AuthorityInv, Shapes, auth
  <2>5. KeysAdvance' /\ RevokedSessionsEnd' /\ ProofsAreLive'
    BY <1>3, AccountsKept DEF IssueEnrollment, auth
  <2> QED BY <2>3, <2>4, <2>5 DEF AuthorityInv
<1> QED BY <1>1, <1>2, <1>3

\* A proof is used up by the request or the step that presents it.
LEMMA ConsumingKeeps ==
    ASSUME AuthorityInv,
           \/ \E s \in sessions, q \in proofs : Authorize(s, q)
           \/ \E c \in commands, q \in proofs : RunActs(c, q)
    PROVE  AuthorityInv'
<1>1. PICK q \in proofs : (\E s \in sessions : Authorize(s, q)) \/ (\E c \in commands : RunActs(c, q))
  OBVIOUS
<1>2. /\ UNCHANGED <<credential, faceKey, cut, challenges, sessions, faceChallenges, enrollments>>
      /\ proofs' = proofs \ {q} /\ commands' \subseteq commands
  BY <1>1 DEF Authorize, RunActs, Consumed, auth
<1>3. q \in ProofRecords /\ q \in Held /\ q.id \in Ids
  BY DEF AuthorityInv, Shapes, ProofRecords, Held
<1>4. Held' \subseteq Held /\ q \notin Held'
  BY <1>2, <1>3, KindsApart DEF AuthorityInv, Shapes, Held
<1>5. KeysAdvance' /\ RevokedSessionsEnd' /\ ProofsAreLive'
  BY <1>2, AccountsKept
<1>6. CASE \E s \in sessions : Authorize(s, q)
  <2>1. PICK s \in sessions : q.action \in Requested /\ Request(q.action, s, q.id)
    BY <1>6 DEF Authorize
  <2>2. PICK n : n.action = q.action /\ n.proof = q.id /\ requests' = requests \cup {n}
    BY <2>1 DEF Request
  <2>3. OneUse'
    <3>1. \A x \in Held' : x.id # q.id
      BY <1>3, <1>4 DEF AuthorityInv, OneUse
    <3>2. \A u \in requests : u.proof # q.id
      BY <1>3 DEF AuthorityInv, OneUse, IdsOf
    <3> QED BY <1>4, <2>2, <3>1, <3>2 DEF AuthorityInv, OneUse, IdsOf
  <2>4. Shapes'
    BY <1>2, <1>3, <2>1, <2>2 DEF AuthorityInv, Shapes
  <2> QED BY <1>5, <2>3, <2>4 DEF AuthorityInv
<1>7. CASE \E c \in commands : RunActs(c, q)
  <2>1. requests' = requests
    BY <1>7 DEF RunActs
  <2> QED BY <1>2, <1>4, <1>5, <2>1, FewerKeepOneUse DEF AuthorityInv, Shapes
<1> QED BY <1>1, <1>6, <1>7

\* Delegation: a principal gets a key newer than any before, or loses its key
\* and its sessions.
LEMMA DelegationKeeps ==
    ASSUME AuthorityInv, NEW r \in requests, NEW p \in Others, Delegate(r, p) \/ Revoke(r, p)
    PROVE  AuthorityInv'
<1>1. requests' \subseteq requests
  BY LeavesOnly DEF Delegate, Revoke, Arrives
<1>2. p \in Principals /\ p # "founder" /\ credential[p].version \in 0..MaxVersion
  BY Bounds DEF AuthorityInv, Shapes, Principals
<1>3. CASE Delegate(r, p)
  <2> DEFINE new == [state |-> "active", version |-> credential[p].version + 1]
  <2>1. /\ credential' = [credential EXCEPT ![p] = new]
        /\ UNCHANGED <<faceKey, challenges, sessions, faceChallenges, enrollments, proofs, commands, cut>>
        /\ credential[p].version + 1 \in 1..MaxVersion
    BY <1>2, <1>3, Bounds DEF Delegate, auth, face
  <2>2. Shapes'
    BY <1>1, <1>2, <2>1 DEF AuthorityInv, Shapes
  <2>3. OneUse'
    BY <1>1, <2>1, FewerKeepOneUse DEF AuthorityInv, Held
  <2>4. credential' \in [Principals -> [state : {"none", "active", "revoked"}, version : 0..MaxVersion]]
    BY <2>2 DEF Shapes
  <2>5. KeysAdvance'
    BY <1>2, <2>1 DEF AuthorityInv, Shapes, KeysAdvance, IsActive, Principals
  <2>6. RevokedSessionsEnd'
    BY <1>2, <2>1 DEF AuthorityInv, Shapes, RevokedSessionsEnd, IsActive, SessionRecords
  <2>7. ProofsAreLive'
    BY <2>1 DEF AuthorityInv, ProofsAreLive
  <2> QED BY <2>2, <2>3, <2>5, <2>6, <2>7 DEF AuthorityInv
<1>4. CASE Revoke(r, p)
  <2>1. /\ credential' = [credential EXCEPT ![p] = [state |-> "revoked", version |-> credential[p].version]]
        /\ sessions' = {s \in sessions : s.principal # p}
        /\ cut' = [cut EXCEPT ![p] = credential[p].version]
        /\ UNCHANGED <<faceKey, challenges, faceChallenges, enrollments, proofs, commands>>
    <3>1. credential[p] \in [state : {"none", "active", "revoked"}, version : 0..MaxVersion]
      BY <1>2 DEF AuthorityInv, Shapes
    <3>2. [credential[p] EXCEPT !.state = "revoked"]
            = [state |-> "revoked", version |-> credential[p].version]
      BY <3>1
    <3> QED BY <1>4, <3>2 DEF Revoke, face
  <2>2. Shapes'
    BY <1>1, <1>2, <2>1 DEF AuthorityInv, Shapes
  <2>3. OneUse'
    BY <1>1, <2>1, FewerKeepOneUse DEF AuthorityInv, Held
  <2>4. KeysAdvance'
    BY <1>2, <2>1 DEF AuthorityInv, Shapes, KeysAdvance, IsActive, Principals
  <2>5. RevokedSessionsEnd'
    BY <1>2, <2>1 DEF AuthorityInv, Shapes, RevokedSessionsEnd, IsActive, SessionRecords, Principals
  <2>6. ProofsAreLive'
    BY <2>1 DEF AuthorityInv, ProofsAreLive
  <2> QED BY <2>2, <2>3, <2>4, <2>5, <2>6 DEF AuthorityInv
<1> QED BY <1>3, <1>4

\* What happens to face keys: one is enrolled that never was, or one of several
\* is revoked.
LEMMA FaceKeySteps ==
    ASSUME Shapes, NEW r \in requests,
           \/ \E e \in enrollments, signed \in BOOLEAN : Enroll(r, e, signed)
           \/ \E k \in Keys : RevokeFaceKey(r, k)
    PROVE  /\ requests' \subseteq requests
           /\ UNCHANGED <<credential, challenges, sessions, faceChallenges, commands, cut>>
           /\ enrollments' \subseteq enrollments /\ proofs' \subseteq proofs
           /\ \/ UNCHANGED faceKey
              \/ \E k \in Keys : faceKey[k] = "none" /\ faceKey' = [faceKey EXCEPT ![k] = "active"]
              \/ \E k \in ActiveKeys : /\ faceKey' = [faceKey EXCEPT ![k] = "revoked"]
                                       /\ Cardinality(ActiveKeys) > 1
                                       /\ \A q \in proofs' : q.key # k
<1>1. ASSUME NEW e \in enrollments, NEW signed \in BOOLEAN, Enroll(r, e, signed)
      PROVE  /\ requests' \subseteq requests
             /\ UNCHANGED <<credential, challenges, sessions, faceChallenges, commands, cut>>
             /\ enrollments' \subseteq enrollments /\ proofs' \subseteq proofs
             /\ \/ UNCHANGED faceKey
                \/ \E k \in Keys : faceKey[k] = "none" /\ faceKey' = [faceKey EXCEPT ![k] = "active"]
  <2>1. e.key \in Keys
    BY DEF Shapes, EnrollmentRecords
  <2> QED BY <1>1, <2>1, LeavesOnly DEF Enroll, Arrives, auth
<1>2. ASSUME NEW k \in Keys, RevokeFaceKey(r, k)
      PROVE  /\ requests' \subseteq requests
             /\ UNCHANGED <<credential, challenges, sessions, faceChallenges, commands, cut>>
             /\ enrollments' \subseteq enrollments /\ proofs' \subseteq proofs
             /\ k \in ActiveKeys /\ faceKey' = [faceKey EXCEPT ![k] = "revoked"]
             /\ Cardinality(ActiveKeys) > 1
             /\ \A q \in proofs' : q.key # k
  BY <1>2, LeavesOnly DEF RevokeFaceKey, Arrives, auth
<1>3. CASE \E e \in enrollments, signed \in BOOLEAN : Enroll(r, e, signed)
  BY <1>1, <1>3
<1>4. CASE \E k \in Keys : RevokeFaceKey(r, k)
  BY <1>2, <1>4
<1> QED BY <1>3, <1>4

LEMMA FaceKeysKeep ==
    ASSUME AuthorityInv, NEW r \in requests,
           \/ \E e \in enrollments, signed \in BOOLEAN : Enroll(r, e, signed)
           \/ \E k \in Keys : RevokeFaceKey(r, k)
    PROVE  AuthorityInv'
<1>1. Shapes
  BY DEF AuthorityInv
<1>2. Held' \subseteq Held
  BY <1>1, FaceKeySteps DEF Held
<1>3. OneUse'
  BY <1>1, <1>2, FaceKeySteps, FewerKeepOneUse DEF AuthorityInv
<1>4. Shapes'
  BY <1>1, FaceKeySteps DEF Shapes, ActiveKeys
<1>5. KeysAdvance' /\ RevokedSessionsEnd'
  BY <1>1, FaceKeySteps DEF AuthorityInv, KeysAdvance, RevokedSessionsEnd, IsActive
<1>6. ProofsAreLive'
  BY <1>1, FaceKeySteps DEF AuthorityInv, Shapes, ProofsAreLive, ProofRecords, ActiveKeys
<1> QED BY <1>3, <1>4, <1>5, <1>6 DEF AuthorityInv

-----------------------------------------------------------------------------
LEMMA NextKeeps == AuthorityInv /\ [Next]_vars => AuthorityInv'
BY Untouched, TickKeeps, CrashKeeps, SignInKeeps, RequestsKeep, FaceKeeps, ConsumingKeeps,
   DelegationKeeps, FaceKeysKeep
   DEF Next

LEMMA InvHolds == Spec => []AuthorityInv
BY InitHolds, NextKeeps, PTL DEF Spec

\* What is held is live and held once, whatever expires, is revoked or is
\* presented twice (authority-auth.ts, founder-biometric.ts): for any
\* principals, keys, lifetimes and number of ids.
THEOREM HeldOnce == Spec => []TokensAgree
BY InvHolds, InvGivesTokens, PTL

\* One of several is left when one is revoked.
LEMMA OneIsLeft ==
    ASSUME Shapes, NEW k \in ActiveKeys, Cardinality(ActiveKeys) > 1,
           faceKey' = [faceKey EXCEPT ![k] = "revoked"]
    PROVE  ActiveKeys' # {}
<1>1. ActiveKeys' = ActiveKeys \ {k}
  BY DEF ActiveKeys, Shapes
<1>2. ActiveKeys # {k}
  BY FS_Singleton
<1> QED BY <1>1, <1>2

LEMMA KeysStep ==
    ASSUME AuthorityInv, [Next]_vars
    PROVE  /\ ActiveKeys # {} => ActiveKeys' # {}
           /\ \A k \in Keys : faceKey[k] = "revoked" => faceKey'[k] = "revoked"
<1>1. Shapes
  BY DEF AuthorityInv
<1>2. ASSUME NEW r \in requests,
             \/ \E e \in enrollments, signed \in BOOLEAN : Enroll(r, e, signed)
             \/ \E k \in Keys : RevokeFaceKey(r, k)
      PROVE  /\ ActiveKeys # {} => ActiveKeys' # {}
             /\ \A k \in Keys : faceKey[k] = "revoked" => faceKey'[k] = "revoked"
  <2>1. \/ UNCHANGED faceKey
        \/ \E k \in Keys : faceKey[k] = "none" /\ faceKey' = [faceKey EXCEPT ![k] = "active"]
        \/ \E k \in ActiveKeys : /\ faceKey' = [faceKey EXCEPT ![k] = "revoked"]
                                 /\ Cardinality(ActiveKeys) > 1
    BY <1>1, <1>2, FaceKeySteps
  <2>2. CASE UNCHANGED faceKey
    BY <2>2 DEF ActiveKeys
  <2>3. CASE \E k \in Keys : faceKey[k] = "none" /\ faceKey' = [faceKey EXCEPT ![k] = "active"]
    BY <1>1, <2>3 DEF ActiveKeys, Shapes
  <2>4. ASSUME NEW k \in ActiveKeys, faceKey' = [faceKey EXCEPT ![k] = "revoked"],
               Cardinality(ActiveKeys) > 1
        PROVE  /\ ActiveKeys' # {}
               /\ \A j \in Keys : faceKey[j] = "revoked" => faceKey'[j] = "revoked"
    BY <1>1, <2>4, OneIsLeft DEF ActiveKeys, Shapes
  <2> QED BY <2>1, <2>2, <2>3, <2>4
<1>3. CASE UNCHANGED faceKey
  BY <1>3 DEF ActiveKeys
<1> QED
  BY <1>2, <1>3
     DEF Next, vars, Tick, Crash, IssueChallenge, VerifyChallenge, Logout, Command, SignedIn,
         AuthorizeFirstKey, Authorize, Abandon, IssueFaceChallenge, VerifyAssertion, IssueEnrollment,
         Delegate, Revoke, RunActs

\* However many revocations were authorized together, a face key stays, and a
\* revoked key id is never active again (founder-biometric.ts: revokeKey,
\* verifyEnrollment).
THEOREM KeysAreKept == Spec => FaceKeysKept
<1>1. AuthorityInv /\ [Next]_vars =>
        [(ActiveKeys # {} => ActiveKeys' # {})
         /\ (\A k \in Keys : faceKey[k] = "revoked" => faceKey'[k] = "revoked")]_vars
  BY KeysStep
<1> QED BY <1>1, InvHolds, PTL DEF Spec, FaceKeysKept, LastFaceKeyStays, FaceKeysAppendOnly

-----------------------------------------------------------------------------
(* The scheduler of the social watch                                         *)

\* What a run keeps while it reads
Reading(x) ==
    /\ x.stage = "read"
    /\ x = [stage |-> x.stage, left |-> x.left, read |-> x.read, failed |-> x.failed]

WatchShape ==
    /\ run = [r \in Runs |-> run[r]]
    /\ \A r \in Runs : run[r] = NoRun \/ run[r] = Planning \/ Reading(run[r])
    /\ asks \in [Asks -> Runs \cup {"new", "answered"}]
    /\ ticking \in Runs \cup {"none"} /\ armed \in BOOLEAN

\* WatchRunsOnce without cardinality
OneRun ==
    mode = "scheduled" =>
      /\ \A r, s \in Runs : run[r] # NoRun /\ run[s] # NoRun => r = s
      /\ armed <=> ticking = "none"
      /\ ticking # "none" => run[ticking] # NoRun
      /\ \A q \in Asks : asks[q] \in Runs => run[asks[q]] # NoRun

WatchInv == WatchShape /\ OneRun

\* The scheduler never has two runs, and whoever waits, waits for the one it
\* has: at the start, and whichever of the timer, a request, a failure or the
\* end of a run comes next (social-watch-scheduler.ts:90-115).
LEMMA WatchInvInit == WatchInit => WatchInv
<1>1. ASSUME WatchInit PROVE WatchShape
  BY <1>1 DEF WatchInit, WatchShape
<1>2. ASSUME WatchInit PROVE OneRun
  BY <1>2, WatchAssumption DEF WatchInit, OneRun
<1>. QED  BY <1>1, <1>2 DEF WatchInv

LEMMA WatchInvKept == WatchInv /\ [WatchNext]_watchVars => WatchInv'
<1>. SUFFICES ASSUME WatchInv, [WatchNext]_watchVars PROVE WatchInv'
  OBVIOUS
<1>. USE DEF WatchInv
<1>1. ASSUME NEW r \in Runs, RunNow(r)
      PROVE  /\ run' = [s \in Runs |-> run'[s]]
             /\ \A s \in Runs : run'[s] = run[s] \/ run'[s] = Planning
             /\ run'[r] # NoRun
             /\ OneRun /\ mode = "scheduled" =>
                  \A s \in Runs : run'[s] # NoRun => s = r
  <2>1. CASE UnderWay # {} /\ r \in UnderWay /\ UNCHANGED run
    BY <2>1 DEF UnderWay, WatchShape, OneRun
  <2>2. CASE UnderWay = {} /\ run' = [run EXCEPT ![r] = Planning]
    BY <2>2 DEF UnderWay, WatchShape, Planning, NoRun
  <2>. QED  BY <1>1, <2>1, <2>2 DEF RunNow
<1>2. ASSUME NEW r \in Runs, TimerFires(r) PROVE WatchInv'
  <2>. USE <1>2, WatchAssumption DEF TimerFires
  <2>1. WatchShape'
    BY <1>1 DEF WatchShape
  <2>2. \A s \in Runs : run[s] # NoRun => run'[s] # NoRun
    BY <1>1 DEF Planning, NoRun
  <2>3. r # "none" /\ run'[r] # NoRun /\ \A s \in Runs : run'[s] # NoRun => s = r
    BY <1>1
  <2>4. OneRun'
    BY <2>2, <2>3 DEF OneRun
  <2>. QED  BY <2>1, <2>4
<1>3. ASSUME NEW q \in Asks, NEW r \in Runs, AskNow(q, r) PROVE WatchInv'
  <2>. USE <1>3, WatchAssumption DEF AskNow
  <2>1. CASE mode = "scheduled"
    <3>1. WatchShape'
      BY <2>1, <1>1 DEF WatchShape
    <3>2. \A s \in Runs : run[s] # NoRun => run'[s] # NoRun
      BY <2>1, <1>1 DEF Planning, NoRun
    <3>3. run'[r] # NoRun /\ \A s \in Runs : run'[s] # NoRun => s = r
      BY <2>1, <1>1
    <3>4. \A p \in Asks : asks'[p] = asks[p] \/ asks'[p] = r
      BY DEF WatchShape
    <3>5. OneRun'
      BY <3>2, <3>3, <3>4 DEF OneRun, WatchShape
    <3>. QED  BY <3>1, <3>5
  <2>2. CASE mode # "scheduled"
    <3>1. WatchShape'
      BY <2>2 DEF WatchShape
    <3>2. OneRun'
      BY <2>2 DEF OneRun
    <3>. QED  BY <3>1, <3>2
  <2>. QED  BY <2>1, <2>2
<1>4. ASSUME NEW r \in Runs, Released(r), run[r] # NoRun, UNCHANGED mode PROVE WatchInv'
  <2>. USE <1>4, WatchAssumption DEF Released
  <2>1. WatchShape'
    BY DEF WatchShape
  <2>2. OneRun'
    BY DEF WatchShape, OneRun
  <2>. QED  BY <2>1, <2>2
<1>5. ASSUME NEW r \in Runs, Fails(r) PROVE WatchInv'
  BY <1>4, <1>5 DEF Fails, NoRun
<1>6. ASSUME NEW r \in Runs, Reports(r) PROVE WatchInv'
  BY <1>4, <1>6 DEF Reports, NoRun
<1>7. ASSUME NEW r \in Runs, NEW x, Reading(x), run[r] # NoRun,
             run' = [run EXCEPT ![r] = x], UNCHANGED <<mode, armed, ticking, asks>>
      PROVE  WatchInv'
  <2>1. x # NoRun
    BY <1>7 DEF Reading, NoRun
  <2>2. WatchShape'
    BY <1>7 DEF WatchShape
  <2>3. OneRun'
    BY <1>7, <2>1 DEF WatchShape, OneRun
  <2>. QED  BY <2>2, <2>3
<1>8. ASSUME NEW r \in Runs, NEW ready, Plan(r, ready) PROVE WatchInv'
  <2>. DEFINE x == [stage |-> "read", left |-> AccountsIn(ready), read |-> {}, failed |-> {}]
  <2>1. Reading(x)
    BY DEF Reading
  <2>2. run[r] # NoRun /\ run' = [run EXCEPT ![r] = x] /\ UNCHANGED <<mode, armed, ticking, asks>>
    BY <1>8 DEF Plan, NoRun
  <2>. HIDE DEF x
  <2>. QED  BY <2>1, <2>2, <1>7
<1>9. ASSUME NEW r \in Runs, NEW ok, Reads(r, ok) PROVE WatchInv'
  <2>1. run[r] # NoRun
    BY <1>9 DEF Reads, NoRun
  <2>2. run[r] = [stage |-> run[r].stage, left |-> run[r].left, read |-> run[r].read, failed |-> run[r].failed]
    BY <1>9 DEF WatchShape, Reads, Reading, NoRun, Planning
  <2>. DEFINE a == Head(run[r].left)
              x == [stage |-> "read", left |-> Tail(run[r].left),
                    read |-> IF ok THEN run[r].read \cup {a} ELSE run[r].read,
                    failed |-> IF ok THEN run[r].failed ELSE run[r].failed \cup {a}]
  <2>3. Reading(x)
    BY DEF Reading
  <2>4. run' = [run EXCEPT ![r].left = Tail(@),
                           ![r].read = IF ok THEN @ \cup {a} ELSE @,
                           ![r].failed = IF ok THEN @ ELSE @ \cup {a}]
    BY <1>9 DEF Reads
  <2>5. run[r].stage = "read"
    BY <1>9 DEF Reads
  <2>6. run' = [run EXCEPT ![r] = x]
    <3>1. run'[r] = x
      BY <2>2, <2>4, <2>5, Zenon DEF WatchShape
    <3>2. run' = [s \in Runs |-> IF s = r THEN run'[r] ELSE run[s]]
      BY <2>4 DEF WatchShape
    <3>. QED  BY <3>1, <3>2 DEF WatchShape
  <2>7. UNCHANGED <<mode, armed, ticking, asks>>
    BY <1>9 DEF Reads
  <2>. HIDE DEF x
  <2>. QED  BY <2>1, <2>3, <2>6, <2>7, <1>7
<1>10. CASE UNCHANGED watchVars
  BY <1>10 DEF watchVars, WatchShape, OneRun, Reading
<1>. QED
  BY <1>2, <1>3, <1>5, <1>6, <1>8, <1>9, <1>10 DEF WatchNext

\* Two runs would have two members, so that the set counts one at most.
LEMMA WatchInvImplies == WatchInv => WatchRunsOnce
<1>. SUFFICES ASSUME WatchInv, mode = "scheduled" PROVE WatchRunsOnce
  BY DEF WatchRunsOnce
<1>1. Cardinality(UnderWay) <= 1
  <2>1. CASE UnderWay = {}
    BY <2>1, FS_EmptySet
  <2>2. ASSUME NEW r \in UnderWay PROVE Cardinality(UnderWay) <= 1
    <3>1. UnderWay = {r}
      BY <2>2 DEF UnderWay, WatchInv, OneRun
    <3>. QED  BY <3>1, FS_Singleton
  <2>. QED  BY <2>1, <2>2
<1>2. ticking # "none" => ticking \in UnderWay
  BY DEF WatchInv, WatchShape, OneRun, UnderWay
<1>3. \A q \in Waiting : asks[q] \in UnderWay
  BY DEF WatchInv, OneRun, UnderWay, Waiting
<1>4. armed = (ticking = "none")
  BY DEF WatchInv, WatchShape, OneRun
<1>. QED  BY <1>1, <1>2, <1>3, <1>4 DEF WatchRunsOnce

\* One run at a time, with its timer set or its tick waiting, for any accounts,
\* runs and requests (social-watch-scheduler.ts:101).
THEOREM OneRunAtATime == WatchSpec => []WatchRunsOnce
<1>1. WatchInit => WatchInv
  BY WatchInvInit
<1>2. WatchInv /\ [WatchNext]_watchVars => WatchInv'
  BY WatchInvKept
<1>3. WatchInv => WatchRunsOnce
  BY WatchInvImplies
<1>. QED  BY <1>1, <1>2, <1>3, PTL DEF WatchSpec

-----------------------------------------------------------------------------
(* Permissions the registered accounts have given, and what may be stored    *)
Given == (1..issued) \ foreign
Entries ==
    [grant : Given, access : Given \cup {0}, refresh : BOOLEAN,
     dated : BOOLEAN, due : BOOLEAN, lost : BOOLEAN]

Marks == {"absent", "lost", "usable"}
BareJobs == [stage : {"new", "done", "open", "exchange", "remove", "describe"}]
PutJobs == [stage : {"put"}, entry : Entries]
RevokeJobs == [stage : {"revoke", "remove"}, entry : Entries \cup {Absent}]
SyncJobs == [stage : {"sync"}, as : [Services -> Marks]]
Jobs == BareJobs \cup PutJobs \cup RevokeJobs \cup SyncJobs

Renewals ==
    {NoRenewal} \cup [entry : Entries, stage : {"ask", "store", "result"},
                      outcome : {"renewed", "refused", "kept", "transient"}]

Asking == [stage : {"holds", "waits"}, entry : Entries \cup {Absent}, seen : SUBSET Int]
Leases == [stage : {"leased"}, entry : Int, seen : SUBSET Int]

\* A lease under way has seen what it read and what is stored now.
HasSeen(k) ==
    LET e == caller[k].entry
        stored == vault[Of[k]]
    IN  /\ e # Absent => e.access \in caller[k].seen
        /\ stored # Absent => stored.access \in caller[k].seen

\* Permissions are numbered as they are issued.
Numbers ==
    /\ issued \in 0..MaxGrants /\ alive \subseteq 1..issued /\ foreign \subseteq 1..issued
    /\ cache \in [Services -> Marks] /\ capable \subseteq Services

\* What the vault, the requests and the renewals keep
Rows ==
    /\ vault \in [Services -> Entries \cup {Absent}]
    /\ job \in [Handlers -> Jobs]
    /\ renewal \in [Services -> Renewals]

\* What the leases keep, and have seen
LeasesHold ==
    /\ caller \in [Callers -> {Idle, Away} \cup Asking \cup Leases]
    /\ \A k \in Callers :
         /\ caller[k].stage \in {"holds", "waits"} => HasSeen(k)
         /\ caller[k].stage = "leased" => caller[k].entry \in caller[k].seen

\* One consent per mailbox and mode is open.
OneOpen == \A c, d \in Open : Of[c] = Of[d] => c = d

\* Where numbers come from, what the rows keep, what leases have seen: inductive
\* where VaultAgrees is not, for it does not say what is still to be stored.
CredentialInv == Numbers /\ Rows /\ LeasesHold /\ OneOpen

-----------------------------------------------------------------------------
(* Facts the steps share                                                     *)

\* Requests and calls name services, and consents name those of Google.
LEMMA OfServices ==
    /\ \A x \in Handlers \cup Callers : Of[x] \in Services
    /\ \A c \in Consents : c \in Handlers /\ Of[c] \in Google
    /\ Posts \subseteq Handlers /\ Consents \cap Posts = {}
    /\ MaxGrants \in Nat
BY CredentialAssumption DEF Handlers, Services

\* What was given stays given, and a new permission is of the account.
LEMMA GivenGrows ==
    ASSUME Numbers, issued' \in {issued, issued + 1}, foreign' \subseteq foreign \cup {issued + 1}
    PROVE  Given \subseteq Given' /\ Entries \subseteq Entries'
<1>1. issued \in Nat /\ foreign \subseteq 1..issued
  BY OfServices DEF Numbers
<1>2. Given \subseteq Given'
  BY <1>1 DEF Given
<1> QED BY <1>2 DEF Entries

\* So what is kept of them stays well formed.
LEMMA RowsGrow ==
    ASSUME Numbers, Entries \subseteq Entries'
    PROVE  /\ Jobs \subseteq Jobs' /\ Renewals \subseteq Renewals' /\ Asking \subseteq Asking'
BY DEF Jobs, BareJobs, PutJobs, RevokeJobs, SyncJobs, Renewals, Asking

\* The stage tells what a request keeps.
LEMMA JobShapes ==
    ASSUME Rows, NEW h \in Handlers
    PROVE  /\ job[h].stage \in {"new", "open", "exchange", "done", "describe"} => job[h] = [stage |-> job[h].stage]
           /\ job[h].stage = "put" => job[h].entry \in Entries /\ job[h] \in PutJobs
           /\ job[h].stage = "revoke" => job[h] \in RevokeJobs
           /\ job[h].stage = "sync" => job[h].as \in [Services -> Marks]
<1>1. job[h] \in Jobs
  BY DEF Rows
<1> QED BY <1>1 DEF Jobs, BareJobs, PutJobs, RevokeJobs, SyncJobs

\* A description is one of three marks.
LEMMA DescribedMarks == \A e : Described(e) \in Marks
BY DEF Described, Marks

\* The stage tells what a lease keeps.
LEMMA CallerShapes ==
    ASSUME LeasesHold, NEW k \in Callers
    PROVE  /\ caller[k].stage \in {"holds", "waits"} => caller[k] \in Asking
           /\ caller[k].stage = "leased" => caller[k] \in Leases
           /\ caller[k].stage \in {"idle", "away", "holds", "waits", "leased"}
BY DEF LeasesHold, Idle, Away, Asking, Leases

\* A write of one entry: every lease under way has seen it.
LEMMA StoresHolds ==
    ASSUME Numbers, Rows, LeasesHold, UNCHANGED <<foreign, issued>>,
           NEW s \in Services, NEW e \in Entries \cup {Absent}, Stores(s, e)
    PROVE  vault' \in [Services -> Entries \cup {Absent}]' /\ LeasesHold'
<1>1. Entries' = Entries /\ Asking' = Asking
  BY DEF Entries, Given, Asking
<1>2. vault' = [vault EXCEPT ![s] = e]
  BY DEF Stores
<1>3. vault' \in [Services -> Entries \cup {Absent}]
  BY <1>2 DEF Rows
<1>4. ASSUME NEW k \in Callers
      PROVE  /\ caller'[k] \in {Idle, Away} \cup Asking \cup Leases
             /\ caller'[k].stage \in {"holds", "waits"} => HasSeen(k)'
             /\ caller'[k].stage = "leased" => caller'[k].entry \in caller'[k].seen
  <2>1. CASE caller[k].stage \in {"holds", "waits"} /\ Of[k] = s /\ e # Absent
    <3>1. caller[k] \in Asking /\ HasSeen(k)
      BY <2>1, CallerShapes DEF LeasesHold
    <3>2. caller'[k] = [caller[k] EXCEPT !.seen = @ \cup {e.access}]
      BY <2>1 DEF Stores
    <3>3. e.access \in Int
      BY <2>1 DEF Entries, Given
    <3>4. /\ caller'[k] \in Asking /\ caller'[k].entry = caller[k].entry /\ caller'[k].stage = caller[k].stage
          /\ caller'[k].seen = caller[k].seen \cup {e.access}
      BY <3>1, <3>2, <3>3 DEF Asking
    <3>5. vault'[Of[k]] = e
      BY <1>2, <2>1 DEF Rows
    <3> QED BY <2>1, <3>1, <3>4, <3>5 DEF HasSeen
  <2>2. CASE ~(caller[k].stage \in {"holds", "waits"} /\ Of[k] = s /\ e # Absent)
    <3>1. caller'[k] = caller[k]
      BY <2>2 DEF Stores
    <3>2. vault'[Of[k]] = vault[Of[k]] \/ (Of[k] = s /\ vault'[Of[k]] = e)
      BY <1>2, OfServices DEF Rows
    <3>3. caller[k].stage \in {"holds", "waits"} => vault'[Of[k]] = vault[Of[k]] \/ vault'[Of[k]] = Absent
      BY <2>2, <3>2
    <3> QED BY <3>1, <3>3 DEF LeasesHold, HasSeen
  <2> QED BY <2>1, <2>2
<1>5. caller' \in [Callers -> {Idle, Away} \cup Asking \cup Leases]
  <2>1. caller' = [k \in Callers |-> caller'[k]]
    BY DEF Stores
  <2> QED BY <1>4, <2>1
<1> QED BY <1>1, <1>3, <1>4, <1>5 DEF LeasesHold

-----------------------------------------------------------------------------
(* One lemma per kind of step                                                *)

\* What a request does by itself
LEMMA OwnStep ==
    ASSUME CredentialInv, UNCHANGED <<vault, caller, renewal, cache, capable, foreign, issued>>,
           alive' \subseteq alive, job' \in [Handlers -> Jobs], OneOpen'
    PROVE  CredentialInv'
<1>1. Given' = Given /\ Entries' = Entries /\ Jobs' = Jobs /\ Renewals' = Renewals /\ Asking' = Asking
  BY DEF Entries, Given, Jobs, BareJobs, PutJobs, RevokeJobs, SyncJobs, Renewals, Asking
<1>2. \A k \in Callers : HasSeen(k)' = HasSeen(k)
  BY DEF HasSeen
<1> QED BY <1>1, <1>2 DEF CredentialInv, Numbers, Rows, LeasesHold

\* A request goes on to a stage in which it is not open.
LEMMA JobMoves ==
    ASSUME CredentialInv, NEW h \in Handlers, NEW j \in Jobs, j.stage # "open",
           UNCHANGED <<vault, caller, renewal, cache, capable, foreign, issued>>,
           alive' \subseteq alive, job' = [job EXCEPT ![h] = j]
    PROVE  CredentialInv'
<1>1. job' \in [Handlers -> Jobs] /\ \A c \in Consents : job'[c].stage = "open" => job[c].stage = "open"
  BY OfServices DEF CredentialInv, Rows
<1>2. OneOpen'
  BY <1>1 DEF CredentialInv, OneOpen, Open
<1> QED BY <1>1, <1>2, OwnStep

\* A request that keeps nothing but its stage
LEMMA BareIsJob ==
    \A x \in {"new", "done", "open", "exchange", "remove", "describe"} :
        [stage |-> x] \in Jobs /\ [stage |-> x].stage = x
BY DEF Jobs, BareJobs

\* A consent begins, ends, comes back or fails (google-oauth.ts: begin,
\* completeAuthorization).
LEMMA ConsentSteps ==
    ASSUME CredentialInv, NEW c \in Consents, Start(c) \/ Ends(c) \/ Callback(c) \/ ExchangeFails(c)
    PROVE  CredentialInv'
<1>0. c \in Handlers /\ Done \in Jobs /\ Done.stage = "done"
  BY OfServices, BareIsJob DEF Done
<1>1. CASE Start(c)
  <2>1. \A h \in Handlers :
          job'[h] = IF h = c THEN [stage |-> "open"] ELSE IF h \in Open /\ Of[h] = Of[c] THEN Done ELSE job[h]
    BY <1>1 DEF Start
  <2>2. job' = [h \in Handlers |-> job'[h]]
    BY <1>1 DEF Start
  <2>3. job' \in [Handlers -> Jobs]
    BY <1>0, <2>1, <2>2, BareIsJob DEF CredentialInv, Rows
  <2>4. \A d \in Open' : d = c \/ (d \in Open /\ Of[d] # Of[c])
    BY <1>0, <2>1, OfServices DEF Open
  <2>5. OneOpen'
    BY <2>4 DEF CredentialInv, OneOpen
  <2> QED BY <1>1, <2>3, <2>5, OwnStep DEF Start
<1>2. CASE Ends(c) \/ ExchangeFails(c)
  BY <1>0, <1>2, JobMoves DEF Ends, ExchangeFails
<1>3. CASE Callback(c)
  <2>1. job[c] = [stage |-> "open"]
    BY <1>0, <1>3, JobShapes DEF CredentialInv, Callback, Open
  <2>2. [job[c] EXCEPT !.stage = "exchange"] = [stage |-> "exchange"]
    BY <2>1
  <2>3. job' = [job EXCEPT ![c] = [stage |-> "exchange"]]
    BY <1>3, <2>2 DEF Callback
  <2> QED BY <1>0, <1>3, <2>3, BareIsJob, JobMoves DEF Callback
<1> QED BY <1>1, <1>2, <1>3

\* A permission is given: the entry that will be put is of the account.
LEMMA PermissionGiven ==
    ASSUME CredentialInv, NEW h \in Handlers, NEW refresh \in BOOLEAN, NEW dated \in BOOLEAN,
           NEW right \in BOOLEAN, issued < MaxGrants, issued' = issued + 1,
           alive' \subseteq alive \cup {issued + 1},
           foreign' = IF right THEN foreign ELSE foreign \cup {issued + 1},
           job' = [job EXCEPT ![h] =
             IF right THEN [stage |-> "put", entry |-> Entry(issued + 1, refresh, dated)] ELSE Done],
           UNCHANGED <<vault, caller, renewal, cache, capable>>
    PROVE  CredentialInv'
<1> DEFINE j == IF right THEN [stage |-> "put", entry |-> Entry(issued + 1, refresh, dated)] ELSE Done
<1>1. issued \in Nat /\ issued + 1 \notin foreign /\ Numbers'
  BY OfServices DEF CredentialInv, Numbers
<1>2. Entries \subseteq Entries' /\ Jobs \subseteq Jobs' /\ Renewals \subseteq Renewals' /\ Asking \subseteq Asking'
  BY <1>1, GivenGrows, RowsGrow DEF CredentialInv
<1>3. right => Entry(issued + 1, refresh, dated) \in Entries'
  <2> SUFFICES ASSUME right PROVE Entry(issued + 1, refresh, dated) \in Entries'
    OBVIOUS
  <2>1. issued + 1 \in Given'
    BY <1>1 DEF Given
  <2> QED BY <2>1 DEF Entry, Entries
<1>4. j \in Jobs' /\ j.stage # "open"
  BY <1>3, BareIsJob DEF Jobs, PutJobs, BareJobs, Done
<1> HIDE DEF j
<1>5. job' = [job EXCEPT ![h] = j]
  BY DEF j
<1>6. Rows'
  BY <1>2, <1>4, <1>5 DEF CredentialInv, Rows
<1>7. LeasesHold'
  <2>1. \A k \in Callers : HasSeen(k)' = HasSeen(k)
    BY DEF HasSeen
  <2> QED BY <1>2, <2>1 DEF CredentialInv, LeasesHold
<1>8. OneOpen'
  BY <1>4, <1>5, OfServices DEF CredentialInv, Rows, OneOpen, Open
<1> QED BY <1>1, <1>6, <1>7, <1>8 DEF CredentialInv

\* A code is exchanged, and a token of Threads is stored.
LEMMA GrantSteps ==
    ASSUME CredentialInv,
           \/ \E c \in Consents, right, refresh \in BOOLEAN : Exchanged(c, right, refresh)
           \/ \E p \in Posts, exchanged \in BOOLEAN : StoreThreads(p, exchanged)
    PROVE  CredentialInv'
<1>1. ASSUME NEW c \in Consents, NEW right \in BOOLEAN, NEW refresh \in BOOLEAN, Exchanged(c, right, refresh)
      PROVE  CredentialInv'
  <2>1. /\ c \in Handlers /\ issued < MaxGrants /\ issued' = issued + 1
        /\ alive' \subseteq alive \cup {issued + 1}
        /\ foreign' = IF right THEN foreign ELSE foreign \cup {issued + 1}
        /\ UNCHANGED <<vault, caller, renewal, cache, capable>>
    BY <1>1, OfServices DEF Exchanged
  <2>2. job' = [job EXCEPT ![c] =
          IF right THEN [stage |-> "put", entry |-> Entry(issued + 1, refresh, TRUE)] ELSE Done]
    BY <1>1 DEF Exchanged
  <2> QED BY <2>1, <2>2, PermissionGiven
<1>2. ASSUME NEW p \in Posts, NEW exchanged \in BOOLEAN, StoreThreads(p, exchanged)
      PROVE  CredentialInv'
  <2>1. /\ p \in Handlers /\ issued < MaxGrants /\ issued' = issued + 1
        /\ alive' \subseteq alive \cup {issued + 1}
        /\ foreign' = IF TRUE THEN foreign ELSE foreign \cup {issued + 1}
        /\ UNCHANGED <<vault, caller, renewal, cache, capable>>
    BY <1>2, OfServices DEF StoreThreads
  <2>2. job' = [job EXCEPT ![p] =
          IF TRUE THEN [stage |-> "put", entry |-> Entry(issued + 1, FALSE, exchanged)] ELSE Done]
    BY <1>2 DEF StoreThreads
  <2> QED BY <2>1, <2>2, PermissionGiven
<1> QED BY <1>1, <1>2

\* A consent is revoked, and a token of Threads is to be removed.
LEMMA RevokeSteps ==
    ASSUME CredentialInv, NEW p \in Posts,
           RevokeMail(p) \/ RemoveThreads(p) \/ \E b \in BOOLEAN : Revoked(p, b)
    PROVE  CredentialInv'
<1>0. p \in Handlers /\ Of[p] \in Services
  BY OfServices
<1>1. CASE RevokeMail(p)
  <2> DEFINE j == [entry |-> vault[Of[p]], stage |-> IF vault[Of[p]] = Absent THEN "remove" ELSE "revoke"]
  <2>1. vault[Of[p]] \in Entries \cup {Absent}
    BY <1>0 DEF CredentialInv, Rows
  <2>2. j \in Jobs /\ j.stage # "open"
    BY <2>1 DEF Jobs, RevokeJobs
  <2> QED BY <1>0, <1>1, <2>2, JobMoves DEF RevokeMail
<1>2. CASE RemoveThreads(p)
  BY <1>0, <1>2, BareIsJob, JobMoves DEF RemoveThreads
<1>3. ASSUME NEW b \in BOOLEAN, Revoked(p, b) PROVE CredentialInv'
  <2>1. job[p] \in RevokeJobs
    BY <1>0, <1>3, JobShapes DEF CredentialInv, Revoked
  <2> DEFINE j == [job[p] EXCEPT !.stage = "remove"]
  <2>2. j \in Jobs /\ j.stage # "open"
    BY <2>1 DEF Jobs, RevokeJobs
  <2>3. job' = [job EXCEPT ![p] = j] /\ alive' \subseteq alive
        /\ UNCHANGED <<vault, caller, renewal, cache, capable, foreign, issued>>
    BY <1>3 DEF Revoked
  <2> HIDE DEF j
  <2> QED BY <1>0, <2>2, <2>3, JobMoves
<1> QED BY <1>1, <1>2, <1>3

\* The vault is written, read again, and its copy filled.
LEMMA HandlerSteps ==
    ASSUME CredentialInv, NEW h \in Handlers, Put(h) \/ Remove(h) \/ Describe(h) \/ Sync(h)
    PROVE  CredentialInv'
<1>0. Of[h] \in Services /\ Done \in Jobs /\ Done.stage = "done"
  BY OfServices, BareIsJob DEF Done
<1>1. ASSUME NEW e \in Entries \cup {Absent}, Stores(Of[h], e), job' = [job EXCEPT ![h] = [stage |-> "describe"]],
             UNCHANGED <<renewal, cache, capable, alive, foreign, issued>>
      PROVE  CredentialInv'
  <2>1. vault' \in [Services -> Entries \cup {Absent}]' /\ LeasesHold'
    BY <1>0, <1>1, StoresHolds DEF CredentialInv
  <2>2. Jobs' = Jobs /\ Renewals' = Renewals
    BY <1>1 DEF Entries, Given, Jobs, BareJobs, PutJobs, RevokeJobs, SyncJobs, Renewals
  <2>3. [stage |-> "describe"] \in Jobs /\ [stage |-> "describe"].stage # "open"
    BY BareIsJob
  <2>4. Rows' /\ OneOpen'
    BY <1>1, <2>1, <2>2, <2>3, OfServices DEF CredentialInv, Rows, OneOpen, Open
  <2>5. Numbers'
    BY <1>1 DEF CredentialInv, Numbers
  <2> QED BY <2>1, <2>4, <2>5 DEF CredentialInv
<1>2. CASE Put(h)
  <2>1. job[h].entry \in Entries
    BY <1>2, JobShapes DEF CredentialInv, Put
  <2> QED BY <1>1, <1>2, <2>1 DEF Put
<1>3. CASE Remove(h)
  BY <1>1, <1>3 DEF Remove
<1>4. CASE Describe(h)
  <2> DEFINE j == [stage |-> "sync", as |-> [s \in Services |-> Described(vault[s])]]
  <2>1. j \in Jobs /\ j.stage # "open"
    BY DescribedMarks DEF Jobs, SyncJobs
  <2> QED BY <1>4, <2>1, JobMoves DEF Describe
<1>5. CASE Sync(h)
  <2>1. cache' \in [Services -> Marks] /\ capable' \subseteq Services
    BY <1>5, JobShapes DEF CredentialInv, Sync
  <2>2. Given' = Given /\ Entries' = Entries
    BY <1>5 DEF Sync, Entries, Given
  <2>3. Jobs' = Jobs /\ Renewals' = Renewals /\ Asking' = Asking
    BY <2>2 DEF Jobs, BareJobs, PutJobs, RevokeJobs, SyncJobs, Renewals, Asking
  <2>4. Rows' /\ OneOpen'
    BY <1>0, <1>5, <2>2, <2>3, OfServices DEF CredentialInv, Rows, OneOpen, Open, Sync
  <2>5. LeasesHold'
    <3>1. \A k \in Callers : HasSeen(k)' = HasSeen(k)
      BY <1>5 DEF HasSeen, Sync
    <3> QED BY <1>5, <2>2, <2>3, <3>1 DEF CredentialInv, LeasesHold, Sync
  <2>6. Numbers'
    BY <1>5, <2>1 DEF CredentialInv, Numbers, Sync
  <2> QED BY <2>4, <2>5, <2>6 DEF CredentialInv
<1> QED BY <1>2, <1>3, <1>4, <1>5

\* Where only leases and renewals change
LEMMA LeaseStep ==
    ASSUME CredentialInv, UNCHANGED <<vault, job, cache, capable, alive, foreign, issued>>,
           renewal' \in [Services -> Renewals],
           caller' \in [Callers -> {Idle, Away} \cup Asking \cup Leases],
           \A k \in Callers :
             /\ caller'[k].stage \in {"holds", "waits"} => HasSeen(k)'
             /\ caller'[k].stage = "leased" => caller'[k].entry \in caller'[k].seen
    PROVE  CredentialInv'
<1>1. Given' = Given /\ Entries' = Entries
  BY DEF Entries, Given
<1>2. Jobs' = Jobs /\ Renewals' = Renewals /\ Asking' = Asking
  BY <1>1 DEF Jobs, BareJobs, PutJobs, RevokeJobs, SyncJobs, Renewals, Asking
<1>3. LeasesHold'
  BY <1>2 DEF LeasesHold
<1> QED BY <1>1, <1>2, <1>3 DEF CredentialInv, Numbers, Rows, OneOpen, Open

\* One caller goes on to x.
LEMMA CallerMoves ==
    ASSUME CredentialInv, NEW k \in Callers, NEW x \in {Idle, Away} \cup Asking \cup Leases,
           UNCHANGED <<vault, job, cache, capable, alive, foreign, issued>>,
           renewal' \in [Services -> Renewals], caller' = [caller EXCEPT ![k] = x],
           x.stage \in {"holds", "waits"} =>
             /\ x.entry # Absent => x.entry.access \in x.seen
             /\ vault[Of[k]] # Absent => vault[Of[k]].access \in x.seen,
           x.stage = "leased" => x.entry \in x.seen
    PROVE  CredentialInv'
<1>1. caller' \in [Callers -> {Idle, Away} \cup Asking \cup Leases] /\ caller'[k] = x
  BY DEF CredentialInv, LeasesHold
<1>2. \A l \in Callers : l # k => caller'[l] = caller[l] /\ HasSeen(l)' = HasSeen(l)
  BY DEF CredentialInv, LeasesHold, HasSeen
<1>3. x.stage \in {"holds", "waits"} => HasSeen(k)'
  BY <1>1 DEF HasSeen
<1>4. \A l \in Callers :
        /\ caller'[l].stage \in {"holds", "waits"} => HasSeen(l)'
        /\ caller'[l].stage = "leased" => caller'[l].entry \in caller'[l].seen
  BY <1>1, <1>2, <1>3 DEF CredentialInv, LeasesHold
<1> QED BY <1>1, <1>4, LeaseStep

\* What is handed out.
LEMMA LeasedIs ==
    ASSUME NEW k, caller[k] \in Asking, NEW token \in Int
    PROVE  /\ Leased(k, token) \in Leases /\ Leased(k, token).entry = token
           /\ Leased(k, token).stage = "leased" /\ Leased(k, token).seen = caller[k].seen
<1>1. PICK st \in {"holds", "waits"}, e \in Entries \cup {Absent}, seen \in SUBSET Int :
        caller[k] = [stage |-> st, entry |-> e, seen |-> seen]
  BY DEF Asking
<1>2. PICK u : u = Leased(k, token)
  OBVIOUS
<1>3. u = [stage |-> "leased", entry |-> token, seen |-> seen]
  <2>1. u = [caller[k] EXCEPT !.stage = "leased", !.entry = token]
    BY <1>2 DEF Leased
  <2>2. DOMAIN u = DOMAIN caller[k] /\ u.stage = "leased" /\ u.entry = token /\ u.seen = seen
    BY <1>1, <2>1
  <2> QED BY <1>1, <2>1, <2>2
<1> QED BY <1>1, <1>2, <1>3 DEF Leases

\* A call asks, uses what it has read, and is done with its token.
LEMMA LeaseSteps ==
    ASSUME CredentialInv, NEW k \in Callers, Ask(k) \/ Use(k) \/ Spent(k)
    PROVE  CredentialInv'
<1>0. Of[k] \in Services /\ vault[Of[k]] \in Entries \cup {Absent} /\ renewal \in [Services -> Renewals]
  BY OfServices DEF CredentialInv, Rows
<1>1. CASE Ask(k)
  <2> DEFINE x == [stage |-> "holds", entry |-> vault[Of[k]],
                   seen |-> IF vault[Of[k]] = Absent THEN {} ELSE {vault[Of[k]].access}]
  <2>1. vault[Of[k]] # Absent => vault[Of[k]].access \in Int
    BY <1>0 DEF Entries, Given
  <2>2. x \in Asking /\ x.entry = vault[Of[k]] /\ (vault[Of[k]] # Absent => vault[Of[k]].access \in x.seen)
        /\ x.stage = "holds"
    BY <1>0, <2>1 DEF Asking
  <2>3. caller' = [caller EXCEPT ![k] = x] /\ UNCHANGED renewal
        /\ UNCHANGED <<vault, job, cache, capable, alive, foreign, issued>>
    BY <1>1 DEF Ask
  <2> HIDE DEF x
  <2> QED BY <1>0, <2>2, <2>3, CallerMoves
<1>2. CASE Spent(k)
  <2>1. Idle.stage = "idle"
    BY DEF Idle
  <2> QED BY <1>0, <1>2, <2>1, CallerMoves DEF Spent
<1>3. CASE Use(k)
  <2> DEFINE e == caller[k].entry
             s == Of[k]
  <2>1. /\ caller[k] \in Asking /\ HasSeen(k) /\ e \in Entries \cup {Absent} /\ caller[k].stage = "holds"
        /\ UNCHANGED <<vault, job, cache, capable, alive, foreign, issued>>
    BY <1>3, CallerShapes DEF Use, CredentialInv, LeasesHold, Asking
  <2>2. CASE caller' = [caller EXCEPT ![k] = Idle] /\ UNCHANGED renewal
    <3>1. Idle.stage = "idle"
      BY DEF Idle
    <3> QED BY <1>0, <2>1, <2>2, <3>1, CallerMoves
  <2>3. CASE e # Absent /\ caller' = [caller EXCEPT ![k] = Leased(k, e.access)] /\ UNCHANGED renewal
    <3>1. Leased(k, e.access) \in Leases /\ Leased(k, e.access).entry = e.access
          /\ Leased(k, e.access).stage = "leased" /\ Leased(k, e.access).seen = caller[k].seen
      <4>1. e.access \in Int
        BY <2>1, <2>3 DEF Entries, Given
      <4> QED BY <2>1, <4>1, LeasedIs
    <3>2. e.access \in caller[k].seen
      BY <2>1, <2>3 DEF HasSeen
    <3> QED BY <1>0, <2>1, <2>3, <3>1, <3>2, CallerMoves
  <2>4. CASE /\ e # Absent /\ caller' = [caller EXCEPT ![k].stage = "waits"]
             /\ renewal' = IF renewal[s] # NoRenewal THEN renewal
                           ELSE [renewal EXCEPT ![s] =
                                  [entry |-> e, outcome |-> "refused",
                                   stage |-> IF s \in Google /\ ~e.refresh THEN "store" ELSE "ask"]]
    <3> DEFINE x == [caller[k] EXCEPT !.stage = "waits"]
    <3>1. x \in Asking /\ x.entry = e /\ x.seen = caller[k].seen /\ x.stage = "waits"
      BY <2>1 DEF Asking
    <3>2. renewal' \in [Services -> Renewals]
      BY <1>0, <2>1, <2>4 DEF Renewals
    <3>3. caller' = [caller EXCEPT ![k] = x]
      BY <2>4
    <3> HIDE DEF x
    <3> QED BY <2>1, <3>1, <3>2, <3>3, CallerMoves DEF HasSeen
  <2> QED BY <1>3, <2>2, <2>3, <2>4 DEF Use
<1> QED BY <1>1, <1>2, <1>3

\* What a renewal makes of an entry is an entry of the same permissions, and it
\* makes none (credential-vault.ts: patch).
LEMMA PatchedKeeps ==
    ASSUME CredentialInv, NEW s \in Services, renewal[s].stage = "store"
    PROVE  /\ Patched(s, Absent) = Absent
           /\ Patched(s, vault[s]) \in Entries \cup {Absent}
<1>1. vault[s] \in Entries \cup {Absent} /\ renewal[s].entry.grant \in Given
  BY DEF CredentialInv, Rows, Renewals, NoRenewal, Entries
<1>2. CASE vault[s] = Absent
  BY <1>2 DEF Patched
<1>3. CASE vault[s] # Absent
  <2>1. vault[s] \in Entries
    BY <1>1, <1>3
  <2>2. PICK g \in Given, a \in Given \cup {0}, r \in BOOLEAN, d \in BOOLEAN, u \in BOOLEAN, l \in BOOLEAN :
          vault[s] = [grant |-> g, access |-> a, refresh |-> r, dated |-> d, due |-> u, lost |-> l]
    BY <2>1 DEF Entries
  <2>3. [vault[s] EXCEPT !.access = 0, !.lost = TRUE] \in Entries
    <3>1. PICK w : w = [vault[s] EXCEPT !.access = 0, !.lost = TRUE]
      OBVIOUS
    <3>2. /\ w.grant = g /\ w.access = 0 /\ w.refresh = r /\ w.dated = d /\ w.due = u /\ w.lost = TRUE
          /\ DOMAIN w = DOMAIN vault[s]
      BY <2>2, <3>1
    <3>3. w = [grant |-> w.grant, access |-> w.access, refresh |-> w.refresh, dated |-> w.dated,
               due |-> w.due, lost |-> w.lost]
      BY <2>2, <3>1, <3>2
    <3>4. w \in Entries
      BY <3>2, <3>3 DEF Entries
    <3> QED BY <3>1, <3>4
  <2>4. [vault[s] EXCEPT !.due = vault[s].dated /\ @] \in Entries
    BY <2>2 DEF Entries
  <2>5. [vault[s] EXCEPT !.access = renewal[s].entry.grant, !.dated = TRUE, !.lost = FALSE,
                         !.due = (renewal[s].outcome = "kept")] \in Entries
    <3>1. PICK w : w = [vault[s] EXCEPT !.access = renewal[s].entry.grant, !.dated = TRUE, !.lost = FALSE,
                                        !.due = (renewal[s].outcome = "kept")]
      OBVIOUS
    <3>2. /\ w.grant = g /\ w.access = renewal[s].entry.grant /\ w.refresh = r /\ w.dated = TRUE
          /\ w.due \in BOOLEAN /\ w.lost = FALSE
          /\ DOMAIN w = DOMAIN vault[s]
      BY <2>2, <3>1
    <3>3. w = [grant |-> w.grant, access |-> w.access, refresh |-> w.refresh, dated |-> w.dated,
               due |-> w.due, lost |-> w.lost]
      BY <2>2, <3>1, <3>2
    <3>4. w \in Entries
      BY <1>1, <3>2, <3>3 DEF Entries
    <3> QED BY <3>1, <3>4
  <2> QED BY <1>3, <2>3, <2>4, <2>5 DEF Patched
<1> QED BY <1>2, <1>3 DEF Patched

\* A renewal is answered, or its timer fires.
LEMMA AnsweredKeeps ==
    ASSUME CredentialInv, NEW s \in Services,
           NEW outcome \in {"renewed", "refused", "kept", "transient"}, Answered(s, outcome)
    PROVE  CredentialInv'
<1>1. renewal[s] \in Renewals /\ renewal[s].stage = "ask" /\ renewal \in [Services -> Renewals]
  BY DEF CredentialInv, Rows, Answered
<1>2. PICK e \in Entries, o \in {"renewed", "refused", "kept", "transient"} : renewal[s] = [entry |-> e, stage |-> "ask", outcome |-> o]
  BY <1>1 DEF Renewals, NoRenewal
<1>3. PICK w : w = [renewal[s] EXCEPT !.stage = "store", !.outcome = outcome]
  OBVIOUS
<1>4. w.stage = "store" /\ w.outcome = outcome /\ w.entry = e /\ DOMAIN w = DOMAIN renewal[s]
  BY <1>2, <1>3
<1>5. w = [entry |-> e, stage |-> "store", outcome |-> outcome]
  BY <1>2, <1>3, <1>4
<1>6. renewal' = [renewal EXCEPT ![s] = [entry |-> e, stage |-> "store", outcome |-> outcome]]
  <2>1. renewal' = [renewal EXCEPT ![s] = w]
    BY <1>1, <1>3 DEF Answered
  <2> QED BY <1>5, <2>1
<1>7. [entry |-> e, stage |-> "store", outcome |-> outcome] \in Renewals
  BY DEF Renewals
<1>8. renewal' \in [Services -> Renewals]
  BY <1>1, <1>6, <1>7
<1>9. \A k \in Callers : HasSeen(k)' = HasSeen(k)
  BY DEF Answered, HasSeen
<1>10. UNCHANGED <<vault, job, caller, cache, capable, alive, foreign, issued>>
  BY DEF Answered
<1> QED BY <1>8, <1>9, <1>10, LeaseStep DEF CredentialInv, LeasesHold

\* The steps of a renewal, and time that passes
LEMMA RenewalSteps ==
    ASSUME CredentialInv, NEW s \in Services,
           Replies(s) \/ TimesOut(s) \/ RenewalStores(s) \/ RenewalEnds(s) \/ Ages(s)
    PROVE  CredentialInv'
<1>1. CASE Replies(s) \/ TimesOut(s)
  BY <1>1, AnsweredKeeps DEF Replies, TimesOut
<1>2. CASE RenewalStores(s)
  <2>1. renewal[s].stage = "store" /\ Stores(s, Patched(s, vault[s]))
        /\ UNCHANGED <<job, cache, capable, alive, foreign, issued>>
        /\ renewal' = [renewal EXCEPT ![s].stage = "result"]
    BY <1>2 DEF RenewalStores
  <2>2. Patched(s, vault[s]) \in Entries \cup {Absent}
    BY <2>1, PatchedKeeps
  <2>3. vault' \in [Services -> Entries \cup {Absent}]' /\ LeasesHold'
    BY <2>1, <2>2, StoresHolds DEF CredentialInv
  <2>4. PICK e \in Entries, o \in {"renewed", "refused", "kept", "transient"} :
          renewal[s] = [entry |-> e, stage |-> "store", outcome |-> o]
    BY <2>1 DEF CredentialInv, Rows, Renewals, NoRenewal
  <2>5. renewal' = [renewal EXCEPT ![s] = [entry |-> e, stage |-> "result", outcome |-> o]]
    <3>1. [renewal[s] EXCEPT !.stage = "result"] = [entry |-> e, stage |-> "result", outcome |-> o]
      BY <2>4
    <3> QED BY <2>1, <3>1
  <2>6. [entry |-> e, stage |-> "result", outcome |-> o] \in Renewals
    BY DEF Renewals
  <2>7. Jobs' = Jobs /\ Renewals' = Renewals
    BY <2>1 DEF Entries, Given, Jobs, BareJobs, PutJobs, RevokeJobs, SyncJobs, Renewals
  <2>8. renewal' \in [Services -> Renewals]
    BY <2>5, <2>6 DEF CredentialInv, Rows
  <2>9. Rows' /\ OneOpen' /\ Numbers'
    BY <2>1, <2>3, <2>7, <2>8 DEF CredentialInv, Rows, OneOpen, Open, Numbers
  <2> QED BY <2>3, <2>9 DEF CredentialInv
<1>3. CASE RenewalEnds(s)
  <2>1. /\ renewal' = [renewal EXCEPT ![s] = NoRenewal]
        /\ caller' = [k \in Callers |->
             IF caller[k].stage # "waits" \/ Of[k] # s THEN caller[k]
             ELSE IF Result(s) = 0 THEN Idle ELSE Leased(k, Result(s))]
        /\ UNCHANGED <<vault, job, cache, capable, alive, foreign, issued>>
    BY <1>3 DEF RenewalEnds
  <2>2. renewal' \in [Services -> Renewals]
    BY <2>1 DEF CredentialInv, Rows, Renewals
  <2>3. ASSUME NEW k \in Callers
        PROVE  /\ caller'[k] \in {Idle, Away} \cup Asking \cup Leases
               /\ caller'[k].stage \in {"holds", "waits"} => HasSeen(k)'
               /\ caller'[k].stage = "leased" => caller'[k].entry \in caller'[k].seen
    <3>1. CASE caller[k].stage # "waits" \/ Of[k] # s
      <4>1. caller'[k] = caller[k] /\ HasSeen(k)' = HasSeen(k)
        BY <2>1, <3>1 DEF HasSeen
      <4> QED BY <4>1 DEF CredentialInv, LeasesHold
    <3>2. CASE caller[k].stage = "waits" /\ Of[k] = s /\ Result(s) = 0
      BY <2>1, <3>2 DEF Idle
    <3>3. CASE caller[k].stage = "waits" /\ Of[k] = s /\ Result(s) # 0
      <4>1. caller[k] \in Asking /\ HasSeen(k)
        BY <3>3, CallerShapes DEF CredentialInv, LeasesHold
      <4>2. vault[s] # Absent /\ Result(s) = vault[s].access
        BY <3>3 DEF Result
      <4>3. Result(s) \in Int /\ Result(s) \in caller[k].seen
        BY <3>3, <4>1, <4>2 DEF HasSeen, CredentialInv, Rows, Entries, Given
      <4>4. caller'[k] = Leased(k, Result(s))
        BY <2>1, <3>3
      <4> QED BY <4>1, <4>3, <4>4, LeasedIs
    <3> QED BY <3>1, <3>2, <3>3
  <2>4. caller' \in [Callers -> {Idle, Away} \cup Asking \cup Leases]
    <3>1. caller' = [k \in Callers |-> caller'[k]]
      BY <2>1
    <3> QED BY <2>3, <3>1
  <2> QED BY <2>1, <2>2, <2>3, <2>4, LeaseStep
<1>4. CASE Ages(s)
  <2>1. vault[s] # Absent /\ vault[s] \in Entries /\ vault' = [vault EXCEPT ![s].due = TRUE]
        /\ UNCHANGED <<job, caller, renewal, cache, capable, alive, foreign, issued>>
    BY <1>4 DEF Ages, CredentialInv, Rows
  <2>2. PICK g \in Given, a \in Given \cup {0}, r \in BOOLEAN, d \in BOOLEAN, u \in BOOLEAN, l \in BOOLEAN :
          vault[s] = [grant |-> g, access |-> a, refresh |-> r, dated |-> d, due |-> u, lost |-> l]
    BY <2>1 DEF Entries
  <2> DEFINE e == [grant |-> g, access |-> a, refresh |-> r, dated |-> d, due |-> TRUE, lost |-> l]
  <2>3. vault' = [vault EXCEPT ![s] = e] /\ e \in Entries /\ e.access = vault[s].access
    <3>1. [vault[s] EXCEPT !.due = TRUE] = e
      <4>1. PICK w : w = [vault[s] EXCEPT !.due = TRUE]
        OBVIOUS
      <4>2. DOMAIN w = DOMAIN vault[s] /\ w.grant = g /\ w.access = a /\ w.refresh = r /\ w.dated = d
            /\ w.due = TRUE /\ w.lost = l
        BY <2>2, <4>1
      <4>3. w = [grant |-> g, access |-> a, refresh |-> r, dated |-> d, due |-> TRUE, lost |-> l]
        BY <2>2, <4>1, <4>2
      <4> QED BY <4>1, <4>3
    <3>2. e \in Entries /\ e.access = vault[s].access
      BY <2>2 DEF Entries
    <3> QED BY <2>1, <3>1, <3>2
  <2> HIDE DEF e
  <2>4. Entries' = Entries /\ Jobs' = Jobs /\ Renewals' = Renewals /\ Asking' = Asking
    BY <2>1 DEF Entries, Given, Jobs, BareJobs, PutJobs, RevokeJobs, SyncJobs, Renewals, Asking
  <2>5. Rows' /\ OneOpen' /\ Numbers'
    BY <2>1, <2>3, <2>4 DEF CredentialInv, Rows, OneOpen, Open, Numbers
  <2>6. ASSUME NEW k \in Callers, HasSeen(k) PROVE HasSeen(k)'
    BY <2>1, <2>3, <2>6 DEF HasSeen, CredentialInv, Rows
  <2>7. LeasesHold'
    BY <2>1, <2>4, <2>6 DEF CredentialInv, LeasesHold
  <2> QED BY <2>5, <2>7 DEF CredentialInv
<1> QED BY <1>1, <1>2, <1>3, <1>4

\* A restart, and a permission withdrawn at the other end
LEMMA OtherSteps ==
    ASSUME CredentialInv, Restart \/ \E n \in 1..MaxGrants : Withdraw(n)
    PROVE  CredentialInv'
<1>1. CASE Restart
  <2>1. /\ UNCHANGED <<vault, alive, foreign, issued>>
        /\ job' = [h \in Handlers |-> IF job[h] = NoJob THEN NoJob ELSE Done]
        /\ caller' = [k \in Callers |-> IF caller[k] = Away THEN Away ELSE Idle]
        /\ renewal' = [s \in Services |-> NoRenewal]
        /\ cache' = [s \in Services |-> Described(vault[s])]
        /\ capable' = {s \in Services : Described(vault[s]) = "usable"}
    BY <1>1 DEF Restart
  <2>2. Entries' = Entries /\ Jobs' = Jobs /\ Renewals' = Renewals /\ Asking' = Asking
    BY <2>1 DEF Entries, Given, Jobs, BareJobs, PutJobs, RevokeJobs, SyncJobs, Renewals, Asking
  <2>3. NoJob \in Jobs /\ Done \in Jobs /\ NoRenewal \in Renewals
    BY BareIsJob DEF NoJob, Done, Renewals
  <2>4. Rows'
    BY <2>1, <2>2, <2>3 DEF CredentialInv, Rows
  <2>5. Numbers'
    BY <2>1, DescribedMarks DEF CredentialInv, Numbers
  <2>6. OneOpen'
    BY <2>1, OfServices DEF OneOpen, Open, NoJob, Done
  <2>7. LeasesHold'
    BY <2>1 DEF LeasesHold, Idle, Away
  <2> QED BY <2>4, <2>5, <2>6, <2>7 DEF CredentialInv
<1>2. ASSUME NEW n \in 1..MaxGrants, Withdraw(n) PROVE CredentialInv'
  <2>1. UNCHANGED <<vault, caller, renewal, cache, capable, foreign, issued, job>> /\ alive' \subseteq alive
    BY <1>2 DEF Withdraw
  <2>2. job' \in [Handlers -> Jobs] /\ OneOpen'
    BY <2>1 DEF CredentialInv, Rows, OneOpen, Open
  <2> QED BY <2>1, <2>2, OwnStep
<1> QED BY <1>1, <1>2

\* CredentialInv holds at the start ...
LEMMA CredentialInvInit == CredentialInit => CredentialInv
<1> SUFFICES ASSUME CredentialInit PROVE CredentialInv
  OBVIOUS
<1>1. NoJob \in Jobs /\ Done \in Jobs /\ NoRenewal \in Renewals
  BY BareIsJob DEF NoJob, Done, Renewals
<1>2. Rows
  BY <1>1 DEF CredentialInit, StartedWith, Rows
<1>3. Numbers
  BY OfServices DEF CredentialInit, StartedWith, Numbers, Marks
<1>4. OneOpen
  BY OfServices DEF CredentialInit, StartedWith, OneOpen, Open, NoJob, Done
<1>5. LeasesHold
  BY DEF CredentialInit, StartedWith, LeasesHold, Idle, Away
<1> QED BY <1>2, <1>3, <1>4, <1>5 DEF CredentialInv

\* ... and every step keeps it: what is put, renewed or waiting to be stored is
\* of the registered accounts, and every lease has seen what is stored.
LEMMA CredentialInvKept == CredentialInv /\ [CredentialNext]_credentialVars => CredentialInv'
<1> SUFFICES ASSUME CredentialInv, [CredentialNext]_credentialVars PROVE CredentialInv'
  OBVIOUS
<1>1. CASE UNCHANGED credentialVars
  <2>1. UNCHANGED <<vault, job, caller, renewal, cache, capable, alive, foreign, issued>>
    BY <1>1 DEF credentialVars
  <2>2. job' \in [Handlers -> Jobs] /\ OneOpen'
    BY <2>1 DEF CredentialInv, Rows, OneOpen, Open
  <2> QED BY <2>1, <2>2, OwnStep
<1>2. CASE CredentialNext
  BY <1>2, ConsentSteps, GrantSteps, RevokeSteps, HandlerSteps, LeaseSteps, RenewalSteps, OtherSteps
     DEF CredentialNext
<1> QED BY <1>1, <1>2

\* From it follows what the runs check.
LEMMA CredentialInvImplies == CredentialInv => VaultAgrees
<1> SUFFICES ASSUME CredentialInv PROVE VaultAgrees
  OBVIOUS
<1>1. ASSUME NEW s \in Services, vault[s] # Absent
      PROVE  /\ vault[s] \in [grant : 1..MaxGrants, access : 0..MaxGrants, refresh : BOOLEAN,
                               dated : BOOLEAN, due : BOOLEAN, lost : BOOLEAN]
             /\ vault[s].grant \notin foreign /\ vault[s].access \notin foreign
  <2>1. vault[s] \in Entries
    BY <1>1 DEF CredentialInv, Rows
  <2>2. Given \subseteq 1..MaxGrants /\ Given \cup {0} \subseteq 0..MaxGrants
        /\ \A n \in Given \cup {0} : n \notin foreign
    BY OfServices DEF CredentialInv, Numbers, Given
  <2> QED BY <2>1, <2>2 DEF Entries
<1>2. \A s \in Services : renewal[s].stage \in {"none", "ask", "store", "result"}
  BY DEF CredentialInv, Rows, Renewals, NoRenewal
<1>3. CredentialTypeOK
  BY <1>1, <1>2 DEF CredentialTypeOK, CredentialInv, Numbers, Marks
<1> QED BY <1>1, <1>3 DEF VaultAgrees, CredentialInv, LeasesHold, LeaseIsCurrent, OneOpen

\* Whatever consents, renewals, revocations and restarts overlap, for any
\* services, requests, callers and bounds: the vault never holds a token of
\* another account, one consent per mailbox and mode is open, and a lease hands
\* out a token that was stored since it was asked for (google-oauth.ts:
\* completeAuthorization; credential-provider.ts: lease).
THEOREM VaultHolds == CredentialSpec => []VaultAgrees
<1>1. CredentialSpec => []CredentialInv
  BY CredentialInvInit, CredentialInvKept, PTL DEF CredentialSpec
<1> QED BY <1>1, CredentialInvImplies, PTL

\* Only the request that puts an entry brings one where there was none: patch
\* creates nothing, and neither removing nor time does.
LEMMA OnlyPutsBring ==
    ASSUME CredentialInv, [CredentialNext]_credentialVars, NEW s \in Services,
           vault[s] = Absent, vault'[s] # Absent
    PROVE  \E h \in Handlers : job[h].stage = "put" /\ Of[h] = s /\ job'[h] # job[h]
<1>1. vault' # vault
  OBVIOUS
<1>2. \/ \E h \in Handlers : Put(h) \/ Remove(h)
      \/ \E t \in Services : RenewalStores(t) \/ Ages(t)
  BY <1>1 DEF CredentialNext, credentialVars, Start, Ends, Callback, ExchangeFails, Exchanged, RevokeMail,
     RemoveThreads, StoreThreads, Revoked, Describe, Sync, Ask, Use, Spent, Replies, TimesOut, Answered,
     RenewalEnds, Withdraw, Restart
<1>3. ASSUME NEW h \in Handlers, Put(h) PROVE job[h].stage = "put" /\ Of[h] = s /\ job'[h] # job[h]
  <2>1. job[h].stage = "put" /\ vault' = [vault EXCEPT ![Of[h]] = job[h].entry] /\ job'[h] = [stage |-> "describe"]
    BY <1>3 DEF Put, Stores, CredentialInv, Rows
  <2>2. Of[h] = s
    BY <2>1, OfServices DEF CredentialInv, Rows
  <2> QED BY <2>1, <2>2
<1>4. ASSUME NEW h \in Handlers, Remove(h) PROVE FALSE
  BY <1>4, OfServices DEF Remove, Stores, CredentialInv, Rows
<1>5. ASSUME NEW t \in Services, RenewalStores(t) PROVE FALSE
  <2>1. vault' = [vault EXCEPT ![t] = Patched(t, vault[t])] /\ renewal[t].stage = "store"
    BY <1>5 DEF RenewalStores, Stores
  <2>2. t = s /\ Patched(t, Absent) = Absent
    BY <2>1, PatchedKeeps DEF CredentialInv, Rows
  <2> QED BY <2>1, <2>2 DEF CredentialInv, Rows
<1>6. ASSUME NEW t \in Services, Ages(t) PROVE FALSE
  BY <1>6 DEF Ages, CredentialInv, Rows
<1> QED BY <1>2, <1>3, <1>4, <1>5, <1>6

\* What the Founder removed stays removed, whatever renewal was under way, until
\* a consent or a token puts a new one (credential-vault.ts: patch, remove).
THEOREM RemovalHolds == CredentialSpec => RemovedStaysRemoved
<1>1. CredentialSpec => []CredentialInv
  BY CredentialInvInit, CredentialInvKept, PTL DEF CredentialSpec
<1>2. CredentialInv /\ [CredentialNext]_credentialVars =>
        [\A s \in Services : vault[s] = Absent /\ vault'[s] # Absent =>
           \E h \in Handlers : job[h].stage = "put" /\ Of[h] = s /\ job'[h] # job[h]]_credentialVars
  BY OnlyPutsBring
<1> QED BY <1>1, <1>2, PTL DEF CredentialSpec, RemovedStaysRemoved
=============================================================================
