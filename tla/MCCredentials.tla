---------------------------- MODULE MCCredentials ----------------------------
(* Scenes: two consents for one mailbox and a lease; a consent with two      *)
(* leases that share renewals and a revocation; a Threads token stored,      *)
(* replaced and removed, with a restart; and a lease of each service.  The    *)
(* social watch, which shares only the copy of the metadata with them, is    *)
(* exercised on its own.                                                     *)
EXTENDS Credentials, SocialWatch, TLC

CONSTANTS g, t, c1, c2, p1, p2, p3, k1, k2, k3, w1, w2, q1, q2

MCOf == (c1 :> g) @@ (c2 :> g) @@ (p1 :> g) @@ (k1 :> g) @@ (k2 :> g)
          @@ (p2 :> t) @@ (p3 :> t) @@ (k3 :> t)

MCAccounts == <<"instagram", "threads">>

\* Both services have a token, and one lease of each goes on.
BothStored ==
    /\ vault = (g :> Entry(1, TRUE, TRUE)) @@ (t :> Entry(2, FALSE, TRUE))
    /\ job = [h \in Handlers |-> Done]
    /\ caller = [k \in Callers |-> IF k \in {k1, k3} THEN Idle ELSE Away]
    /\ renewal = [s \in Services |-> NoRenewal]
    /\ cache = [s \in Services |-> "usable"] /\ capable = Services
    /\ alive = {1, 2} /\ foreign = {} /\ issued = 2 /\ restarts = MaxRestarts

MCInit ==
    /\ WatchInit
    /\ IF mode = "off"
       THEN \/ StartedWith({c1, c2, k1}, MaxRestarts)
            \/ StartedWith({c1, p1, k1, k2}, MaxRestarts)
            \/ StartedWith({p2, p3, k3}, 0)
            \/ BothStored
       ELSE StartedWith({}, MaxRestarts)

MCNext ==
    \/ CredentialNext /\ UNCHANGED watchVars
    \/ WatchNext /\ UNCHANGED credentialVars

MCSpec ==
    /\ MCInit /\ [][MCNext]_<<credentialVars, watchVars>>
    /\ CredentialFairness /\ WatchFairness
=============================================================================
