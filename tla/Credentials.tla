----------------------------- MODULE Credentials -----------------------------
(* Consents, the encrypted vault and the leases of service tokens            *)
(* (packages/security/src/google-oauth.ts, credential-vault.ts,              *)
(* credential-provider.ts, threads-token.ts and the handlers of              *)
(* apps/runtime/server.ts that use them).                                    *)
(*                                                                           *)
(* Grain.  The vault serializes its read-modify-write cycles and replaces    *)
(* its file with a rename, so one write is one step; a read takes whatever   *)
(* file is there.  A permission is a number that Google or Threads hands     *)
(* out; an access token is known by the permission it belongs to.            *)
EXTENDS Integers, FiniteSets

CONSTANTS
  Google,       \* services with a consent: one mode of one mailbox
  Threads,      \* services with a pasted token
  Consents,     \* consent requests, by their secret state
  Posts,        \* requests that revoke, store or remove
  Callers,      \* tool calls that need a token
  Of,           \* the service each of them names
  MaxPending,   \* MAX_PENDING
  MaxGrants, MaxRestarts

ASSUME CredentialAssumption ==
    /\ Google \cap Threads = {} /\ Consents \cap Posts = {}
    /\ Of \in [Consents \cup Posts \cup Callers -> Google \cup Threads]
    /\ \A c \in Consents : Of[c] \in Google
    /\ MaxPending \in Nat \ {0} /\ MaxGrants \in Nat /\ MaxRestarts \in Nat

VARIABLES
  vault,      \* durable: the entry of each service
  job,        \* requests under way
  caller,     \* leases under way
  renewal,    \* inflight of VaultCredentialProvider
  cache,      \* vaultCache, and
  capable,    \* the capability states derived from it
  alive,      \* permissions that still hold at the other end
  foreign,    \* permissions another account has given
  issued, restarts

credentialVars ==
    <<vault, job, caller, renewal, cache, capable, alive, foreign, issued, restarts>>

Services == Google \cup Threads
Handlers == Consents \cup Posts

Absent == [grant |-> 0, access |-> 0, refresh |-> FALSE, dated |-> FALSE,
           due |-> FALSE, lost |-> FALSE]
\* grant: whose refresh token it is (of a Threads token: the token's own);
\* access: whose access token is stored, 0 for none; due: it expires within
\* skewMs, or it has no date and was last written 30 days ago.
Entry(grant, refresh, dated) ==
    [grant |-> grant, access |-> grant, refresh |-> refresh, dated |-> dated,
     due |-> FALSE, lost |-> FALSE]

NoJob == [stage |-> "new"]
Done == [stage |-> "done"]
Idle == [stage |-> "idle"]
Away == [stage |-> "away"]
NoRenewal == [stage |-> "none"]

\* describe, as far as the plans and capabilities read it
Described(e) == IF e = Absent THEN "absent" ELSE IF e.lost THEN "lost" ELSE "usable"

\* Every lease under way remembers the tokens that were stored meanwhile.
Stores(s, e) ==
    /\ vault' = [vault EXCEPT ![s] = e]
    /\ caller' = [k \in Callers |->
         IF caller[k].stage \in {"holds", "waits"} /\ Of[k] = s /\ e # Absent
         THEN [caller[k] EXCEPT !.seen = @ \cup {e.access}] ELSE caller[k]]

-----------------------------------------------------------------------------
(* Consent *)

Open == {c \in Consents : job[c].stage = "open"}

\* A new request replaces one for the same mailbox and mode; the count is
\* taken before that.
Start(c) ==
    /\ job[c] = NoJob
    /\ Cardinality(Open) < MaxPending
    /\ job' = [h \in Handlers |->
         IF h = c THEN [stage |-> "open"]
         ELSE IF h \in Open /\ Of[h] = Of[c] THEN Done ELSE job[h]]
    /\ UNCHANGED <<vault, caller, renewal, cache, capable, alive, foreign, issued, restarts>>

\* It expires, or the Founder refuses on the consent screen.
Ends(c) ==
    /\ c \in Open
    /\ job' = [job EXCEPT ![c] = Done]
    /\ UNCHANGED <<vault, caller, renewal, cache, capable, alive, foreign, issued, restarts>>

\* The redirect comes back: the state is used up, whatever follows.
Callback(c) ==
    /\ c \in Open
    /\ job' = [job EXCEPT ![c].stage = "exchange"]
    /\ UNCHANGED <<vault, caller, renewal, cache, capable, alive, foreign, issued, restarts>>

\* A plausible mistake in Exchanged.
ExchangedUnchecked(c, rightAccount, refresh) ==
    /\ job[c].stage = "exchange" /\ issued < MaxGrants
    /\ issued' = issued + 1 /\ alive' = alive \cup {issued + 1}
    /\ job' = [job EXCEPT ![c] = [stage |-> "put", entry |-> Entry(issued + 1, refresh, TRUE)]]
    /\ foreign' = IF rightAccount THEN foreign ELSE foreign \cup {issued + 1}
    /\ UNCHANGED <<vault, caller, renewal, cache, capable, restarts>>

\* The code is exchanged.  A permission of another account is not stored; that
\* it is revoked as well, if that succeeds, is not told apart.
Exchanged(c, rightAccount, refresh) ==
    /\ job[c].stage = "exchange" /\ issued < MaxGrants
    /\ issued' = issued + 1
    /\ IF rightAccount
       THEN /\ job' = [job EXCEPT ![c] = [stage |-> "put", entry |-> Entry(issued + 1, refresh, TRUE)]]
            /\ alive' = alive \cup {issued + 1} /\ UNCHANGED foreign
       ELSE /\ job' = [job EXCEPT ![c] = Done]
            /\ foreign' = foreign \cup {issued + 1} /\ UNCHANGED alive
    /\ UNCHANGED <<vault, caller, renewal, cache, capable, restarts>>

ExchangeFails(c) ==
    /\ job[c].stage = "exchange"
    /\ job' = [job EXCEPT ![c] = Done]
    /\ UNCHANGED <<vault, caller, renewal, cache, capable, alive, foreign, issued, restarts>>

-----------------------------------------------------------------------------
(* Revoking a consent, storing and removing a Threads token *)

RevokeMail(p) ==
    /\ job[p] = NoJob /\ Of[p] \in Google
    /\ job' = [job EXCEPT ![p] = [entry |-> vault[Of[p]],
                                  stage |-> IF vault[Of[p]] = Absent THEN "remove" ELSE "revoke"]]
    /\ UNCHANGED <<vault, caller, renewal, cache, capable, alive, foreign, issued, restarts>>

\* The other end accepts the revocation or cannot be reached.
Revoked(p, accepted) ==
    /\ job[p].stage = "revoke"
    /\ job' = [job EXCEPT ![p].stage = "remove"]
    /\ alive' = IF ~accepted THEN alive
                ELSE alive \ {IF job[p].entry.refresh THEN job[p].entry.grant ELSE job[p].entry.access}
    /\ UNCHANGED <<vault, caller, renewal, cache, capable, foreign, issued, restarts>>

\* A token of the Founder, exchanged for one with a date or taken as it is.
StoreThreads(p, exchanged) ==
    /\ job[p] = NoJob /\ Of[p] \in Threads /\ issued < MaxGrants
    /\ issued' = issued + 1 /\ alive' = alive \cup {issued + 1}
    /\ job' = [job EXCEPT ![p] = [stage |-> "put", entry |-> Entry(issued + 1, FALSE, exchanged)]]
    /\ UNCHANGED <<vault, caller, renewal, cache, capable, foreign, restarts>>

RemoveThreads(p) ==
    /\ job[p] = NoJob /\ Of[p] \in Threads
    /\ job' = [job EXCEPT ![p] = [stage |-> "remove"]]
    /\ UNCHANGED <<vault, caller, renewal, cache, capable, alive, foreign, issued, restarts>>

-----------------------------------------------------------------------------
(* What the handlers do with the vault, and the copy of its metadata *)

Put(h) ==
    /\ job[h].stage = "put"
    /\ Stores(Of[h], job[h].entry)
    /\ job' = [job EXCEPT ![h] = [stage |-> "describe"]]
    /\ UNCHANGED <<renewal, cache, capable, alive, foreign, issued, restarts>>

Remove(h) ==
    /\ job[h].stage = "remove"
    /\ Stores(Of[h], Absent)
    /\ job' = [job EXCEPT ![h] = [stage |-> "describe"]]
    /\ UNCHANGED <<renewal, cache, capable, alive, foreign, issued, restarts>>

\* refreshVaultCache reads the vault first ...
Describe(h) ==
    /\ job[h].stage = "describe"
    /\ job' = [job EXCEPT ![h] = [stage |-> "sync", as |-> [s \in Services |-> Described(vault[s])]]]
    /\ UNCHANGED <<vault, caller, renewal, cache, capable, alive, foreign, issued, restarts>>

\* ... and fills the copy later; the capabilities follow from the copy.
Sync(h) ==
    /\ job[h].stage = "sync"
    /\ cache' = job[h].as
    /\ capable' = {s \in Services : job[h].as[s] = "usable"}
    /\ job' = [job EXCEPT ![h] = Done]
    /\ UNCHANGED <<vault, caller, renewal, alive, foreign, issued, restarts>>

-----------------------------------------------------------------------------
(* Leases and renewals *)

\* get reads the vault ...
Ask(k) ==
    /\ caller[k] = Idle
    /\ caller' = [caller EXCEPT ![k] =
         [stage |-> "holds", entry |-> vault[Of[k]],
          seen |-> IF vault[Of[k]] = Absent THEN {} ELSE {vault[Of[k]].access}]]
    /\ UNCHANGED <<vault, job, renewal, cache, capable, alive, foreign, issued, restarts>>

Leased(k, token) == [caller[k] EXCEPT !.stage = "leased", !.entry = token]

\* ... and decides on what it has read: one renewal at a time per service.
Use(k) ==
    LET s == Of[k]
        e == caller[k].entry
    IN  /\ caller[k].stage = "holds"
        /\ \/ /\ e = Absent \/ e.lost
              /\ caller' = [caller EXCEPT ![k] = Idle] /\ UNCHANGED renewal
           \/ /\ e # Absent /\ ~e.lost /\ e.access # 0 /\ ~e.due
              /\ caller' = [caller EXCEPT ![k] = Leased(k, e.access)] /\ UNCHANGED renewal
           \/ /\ e # Absent /\ ~e.lost /\ (e.access = 0 \/ e.due)
              /\ caller' = [caller EXCEPT ![k].stage = "waits"]
              /\ renewal' = IF renewal[s] # NoRenewal THEN renewal
                            ELSE [renewal EXCEPT ![s] =
                                   [entry |-> e, outcome |-> "refused",
                                    stage |-> IF s \in Google /\ ~e.refresh THEN "store" ELSE "ask"]]
        /\ UNCHANGED <<vault, job, cache, capable, alive, foreign, issued, restarts>>

Answered(s, outcome) ==
    /\ renewal[s].stage = "ask"
    /\ renewal' = [renewal EXCEPT ![s].stage = "store", ![s].outcome = outcome]
    /\ UNCHANGED <<vault, job, caller, cache, capable, alive, foreign, issued, restarts>>

\* The other end renews, refuses, or answers what cannot be used; a Threads
\* token of this day is not renewed yet.
Replies(s) ==
    \/ renewal[s].stage = "ask" /\ renewal[s].entry.grant \in alive /\ Answered(s, "renewed")
    \/ Answered(s, "refused")
    \/ renewal[s].stage = "ask" /\ s \in Threads /\ renewal[s].entry.dated /\ Answered(s, "kept")

\* A plausible mistake in TimesOut: a request without a timer.
NoTimer(s) == FALSE /\ Answered(s, "transient")

\* The 20 s timer of the request, or an error of the network or of the server.
TimesOut(s) == Answered(s, "transient")

\* patch changes what is stored by then, and creates nothing.
Patched(s, e) ==
    LET read == renewal[s].entry
        outcome == renewal[s].outcome
    IN  IF e = Absent THEN Absent
        ELSE IF outcome = "refused" THEN [e EXCEPT !.access = 0, !.lost = TRUE]
        ELSE IF outcome = "transient" THEN [e EXCEPT !.due = e.dated /\ @]
        ELSE [e EXCEPT !.access = read.grant, !.dated = TRUE, !.lost = FALSE,
                       !.due = (outcome = "kept")]

\* A plausible mistake in RenewalStores: the entry as it was read, completed.
RenewalRestores(s) ==
    /\ renewal[s].stage = "store"
    /\ Stores(s, Patched(s, renewal[s].entry))
    /\ renewal' = [renewal EXCEPT ![s].stage = "result"]
    /\ UNCHANGED <<job, cache, capable, alive, foreign, issued, restarts>>

RenewalStores(s) ==
    /\ renewal[s].stage = "store"
    /\ Stores(s, Patched(s, vault[s]))
    /\ renewal' = [renewal EXCEPT ![s].stage = "result"]
    /\ UNCHANGED <<job, cache, capable, alive, foreign, issued, restarts>>

\* The token the renewal comes to, read from the vault once more; 0 for none.
Result(s) ==
    IF renewal[s].outcome \in {"renewed", "kept"} /\ vault[s] # Absent THEN vault[s].access ELSE 0

\* A plausible mistake in RenewalEnds: one renewal under way for all services.
RenewalEndsForAll(s) ==
    /\ renewal[s].stage = "result"
    /\ renewal' = [renewal EXCEPT ![s] = NoRenewal]
    /\ caller' = [k \in Callers |->
         IF caller[k].stage # "waits" THEN caller[k]
         ELSE IF Result(s) = 0 THEN Idle ELSE Leased(k, Result(s))]
    /\ UNCHANGED <<vault, job, cache, capable, alive, foreign, issued, restarts>>

\* All that wait get the same answer.
RenewalEnds(s) ==
    /\ renewal[s].stage = "result"
    /\ renewal' = [renewal EXCEPT ![s] = NoRenewal]
    /\ caller' = [k \in Callers |->
         IF caller[k].stage # "waits" \/ Of[k] # s THEN caller[k]
         ELSE IF Result(s) = 0 THEN Idle ELSE Leased(k, Result(s))]
    /\ UNCHANGED <<vault, job, cache, capable, alive, foreign, issued, restarts>>

Spent(k) ==
    /\ caller[k].stage = "leased" /\ caller' = [caller EXCEPT ![k] = Idle]
    /\ UNCHANGED <<vault, job, renewal, cache, capable, alive, foreign, issued, restarts>>

-----------------------------------------------------------------------------
(* Time, the Founder at the other end, and a restart *)

Ages(s) ==
    /\ vault[s] # Absent /\ ~vault[s].due
    /\ vault' = [vault EXCEPT ![s].due = TRUE]
    /\ UNCHANGED <<job, caller, renewal, cache, capable, alive, foreign, issued, restarts>>

Withdraw(n) ==
    /\ n \in alive /\ alive' = alive \ {n}
    /\ UNCHANGED <<vault, job, caller, renewal, cache, capable, foreign, issued, restarts>>

\* Pending consents, renewals and requests are in memory.  The start copies the
\* metadata while it begins to listen; a request served before that copy is
\* complete is left out.
Restart ==
    /\ restarts < MaxRestarts /\ restarts' = restarts + 1
    /\ job' = [h \in Handlers |-> IF job[h] = NoJob THEN NoJob ELSE Done]
    /\ caller' = [k \in Callers |-> IF caller[k] = Away THEN Away ELSE Idle]
    /\ renewal' = [s \in Services |-> NoRenewal]
    /\ cache' = [s \in Services |-> Described(vault[s])]
    /\ capable' = {s \in Services : Described(vault[s]) = "usable"}
    /\ UNCHANGED <<vault, alive, foreign, issued>>

\* The requests and callers in present may come, and so many restarts have been.
StartedWith(present, n) ==
    /\ vault = [s \in Services |-> Absent]
    /\ job = [h \in Handlers |-> IF h \in present THEN NoJob ELSE Done]
    /\ caller = [k \in Callers |-> IF k \in present THEN Idle ELSE Away]
    /\ renewal = [s \in Services |-> NoRenewal]
    /\ cache = [s \in Services |-> "absent"] /\ capable = {}
    /\ alive = {} /\ foreign = {} /\ issued = 0 /\ restarts = n

CredentialInit == StartedWith(Handlers \cup Callers, 0)

CredentialNext ==
    \/ \E c \in Consents :
         \/ Start(c) \/ Ends(c) \/ Callback(c) \/ ExchangeFails(c)
         \/ \E right, refresh \in BOOLEAN : Exchanged(c, right, refresh)
    \/ \E p \in Posts :
         RevokeMail(p) \/ RemoveThreads(p) \/ \E b \in BOOLEAN : StoreThreads(p, b) \/ Revoked(p, b)
    \/ \E h \in Handlers : Put(h) \/ Remove(h) \/ Describe(h) \/ Sync(h)
    \/ \E k \in Callers : Ask(k) \/ Use(k) \/ Spent(k)
    \/ \E s \in Services :
         Replies(s) \/ TimesOut(s) \/ RenewalStores(s) \/ RenewalEnds(s) \/ Ages(s)
    \/ \E n \in 1..MaxGrants : Withdraw(n)
    \/ Restart

\* The runtime runs what it has queued and its timers fire; the other end owes
\* nothing.
CredentialFairness ==
    /\ \A k \in Callers : WF_credentialVars(Use(k))
    /\ \A s \in Services : /\ WF_credentialVars(TimesOut(s))
                           /\ WF_credentialVars(RenewalStores(s))
                           /\ WF_credentialVars(RenewalEnds(s))

CredentialSpec == CredentialInit /\ [][CredentialNext]_credentialVars /\ CredentialFairness

-----------------------------------------------------------------------------
(* What must hold of the credentials of the Founder's services.              *)

\* Values the variables range over.
CredentialTypeOK ==
    /\ \A s \in Services : vault[s] = Absent \/
         vault[s] \in [grant : 1..MaxGrants, access : 0..MaxGrants, refresh : BOOLEAN,
                       dated : BOOLEAN, due : BOOLEAN, lost : BOOLEAN]
    /\ cache \in [Services -> {"absent", "lost", "usable"}] /\ capable \subseteq Services
    /\ alive \subseteq 1..issued /\ foreign \subseteq 1..issued
    /\ \A s \in Services : renewal[s].stage \in {"none", "ask", "store", "result"}

\* A lease hands out a token that was stored at some time since it was asked
\* for, also when it waited for a renewal another call had begun.
LeaseIsCurrent ==
    \A k \in Callers : caller[k].stage = "leased" => caller[k].entry \in caller[k].seen

\* Whatever consents, renewals and revocations overlap, no token of an account
\* other than the registered mailbox is ever stored, and at most one consent
\* per mailbox and mode is open (google-oauth.ts: completeAuthorization); and
\* what leases hand out is what was stored.
VaultAgrees ==
    /\ CredentialTypeOK
    /\ \A s \in Services : vault[s] # Absent =>
         vault[s].grant \notin foreign /\ vault[s].access \notin foreign
    /\ \A c, d \in Open : Of[c] = Of[d] => c = d
    /\ LeaseIsCurrent

\* A credential the Founder removed stays removed: a renewal that was under way
\* brings nothing back, only a consent or a token stored since does.
RemovedStaysRemoved ==
    [][\A s \in Services : vault[s] = Absent /\ vault'[s] # Absent =>
         \E h \in Handlers : job[h].stage = "put" /\ Of[h] = s /\ job'[h] # job[h]]_credentialVars

\* Every tool call that asks for a token gets an answer, though the other end
\* may never send one.
LeaseAnswered ==
    \A k \in Callers : caller[k].stage \in {"holds", "waits"}
                         ~> caller[k].stage \notin {"holds", "waits"}

\* Claim of credential-vault.ts:27: a credential needs a new consent when the
\* renewal of that permission has failed for good.
LostMeansRefused ==
    [][\A s \in Services :
         vault[s] # Absent /\ vault'[s] # Absent /\ ~vault[s].lost /\ vault'[s].lost =>
           renewal[s].entry.grant = vault[s].grant]_credentialVars

\* Claim of google-oauth.ts:426: after a passing failure the next request
\* tries again.
RetriedNext ==
    [][\A s \in Services :
         renewal[s].stage = "store" /\ renewal[s].outcome = "transient" /\ vault[s] # Absent
           /\ vault[s].due /\ vault'[s] # vault[s] => vault'[s].due]_credentialVars

\* Claim of server.ts:364: the copy is refreshed after every change.
CacheFollowsVault ==
    (\A h \in Handlers : job[h] \in {NoJob, Done}) /\ (\A s \in Services : renewal[s] = NoRenewal)
      => \A s \in Services : cache[s] = Described(vault[s])
=============================================================================
