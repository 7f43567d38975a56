-------------------------- MODULE AssistantControl --------------------------
(* Revisions of the shared assistant profile and the surfaces that use them  *)
(* (packages/core/src/assistant-control-plane.ts and its handlers in         *)
(* apps/runtime/server.ts).  A post reads the row it is based on before its  *)
(* body has arrived and writes when it has; the writes of a handler are      *)
(* separate, so that the process may die between them.                       *)
EXTENDS Integers, Sequences, FiniteSets

CONSTANTS
  Posts,         \* requests that may be under way at once
  Surfaces,
  MaxProfiles,   \* bound on revisions
  MaxDeaths

ASSUME ProfileAssumption == MaxProfiles \in Nat \ {0} /\ MaxDeaths \in Nat /\ IsFiniteSet(Surfaces)

VARIABLES
  profiles,   \* durable: profiles[n] is revision n of the shared profile
  surfaces,   \* durable
  serving,    \* the process is up
  posts,      \* what each request under way has read
  unsaved,    \* writes the turn at hand has still to make
  deaths,
  torn        \* whether the process died between two writes    (history)

controlVars == <<profiles, surfaces, serving, posts, unsaved, deaths, torn>>

\* What a revision says: which posts formed it, and whether it has the round
\* the clock support that the start-up adds to a profile without it.
Content == [edits : SUBSET Posts, support : BOOLEAN]
Profile(status, content) == [status |-> status, content |-> content]
SeedProfile == Profile("current", [edits |-> {}, support |-> TRUE])

\* Only a pinned surface keeps a revision.
Surface(tracking, pin) == [tracking |-> tracking, pinned |-> IF tracking = "pinned" THEN pin ELSE 0]
SeedSurface == Surface("current", 0)
NoSurface == [tracking |-> "absent", pinned |-> 0]
NoPost == [kind |-> "none"]

SaveProfile(n, row) == [table |-> "profile", key |-> n, value |-> row]
SaveSurface(s, row) == [table |-> "surface", key |-> s, value |-> row]
Serve == [table |-> "process", key |-> 0, value |-> TRUE]

AtRest == unsaved = <<>>

\* getAssistantProfileRevision: of the rows that are current, the last
CurrentRows == {n \in DOMAIN profiles : profiles[n].status = "current"}
CurrentRevision == CHOOSE n \in CurrentRows : \A k \in CurrentRows : k <= n

\* resolveAssistantSurfaceConfig: whether there is a revision for a surface
Resolvable(s) ==
    IF surfaces[s].tracking = "pinned" THEN surfaces[s].pinned \in DOMAIN profiles
    ELSE CurrentRows # {}

\* Revision n + 1 takes over from revision n as it was read.
Supersede(n, row, content) ==
    <<SaveProfile(n, [row EXCEPT !.status = "historical"]),
      SaveProfile(n + 1, Profile("current", content))>>

-----------------------------------------------------------------------------
(* POST /api/assistant-control/profiles/:id/revisions *)

ReviseRead(q) ==
    /\ serving /\ AtRest /\ posts[q] = NoPost /\ CurrentRows # {}
    /\ posts' = [posts EXCEPT ![q] =
         [kind |-> "profile", revision |-> CurrentRevision, row |-> profiles[CurrentRevision]]]
    /\ UNCHANGED <<profiles, surfaces, serving, unsaved, deaths, torn>>

\* The body keeps the fields it does not name and may drop the support.
ReviseArrives(q, support) ==
    LET read == posts[q]
    IN  /\ serving /\ AtRest /\ read.kind = "profile"
        /\ read.revision < MaxProfiles
        /\ unsaved' = Supersede(read.revision, read.row,
                        [edits |-> read.row.content.edits \cup {q}, support |-> support])
        /\ posts' = [posts EXCEPT ![q] = NoPost]
        /\ UNCHANGED <<profiles, surfaces, serving, deaths, torn>>

(* POST /api/assistant-control/surfaces/:id *)

SurfaceRead(q, s) ==
    /\ serving /\ AtRest /\ posts[q] = NoPost
    /\ surfaces[s] # NoSurface
    /\ posts' = [posts EXCEPT ![q] = [kind |-> "surface", surface |-> s]]
    /\ UNCHANGED <<profiles, surfaces, serving, unsaved, deaths, torn>>

PinExists(n) == n \in DOMAIN profiles

\* A pin, from the body or from the row as read, must name a stored revision.
SurfaceArrives(q, tracking, pin) ==
    LET row == Surface(tracking, pin)
    IN  /\ serving /\ AtRest /\ posts[q].kind = "surface"
        /\ tracking = "pinned" => PinExists(pin)
        /\ unsaved' = <<SaveSurface(posts[q].surface, row)>>
        /\ posts' = [posts EXCEPT ![q] = NoPost]
        /\ UNCHANGED <<profiles, surfaces, serving, deaths, torn>>

\* A body that is refused, or a client that goes away.
PostEnds(q) ==
    /\ serving /\ AtRest /\ posts[q] # NoPost
    /\ posts' = [posts EXCEPT ![q] = NoPost]
    /\ UNCHANGED <<profiles, surfaces, serving, unsaved, deaths, torn>>

-----------------------------------------------------------------------------
(* Writes, death and start *)

Save ==
    /\ unsaved # <<>> /\ unsaved' = Tail(unsaved)
    /\ LET w == Head(unsaved)
       IN  /\ profiles' = CASE w.table # "profile" -> profiles
                            [] w.table = "profile" /\ w.key = Len(profiles) + 1 -> Append(profiles, w.value)
                            [] OTHER -> [profiles EXCEPT ![w.key] = w.value]
           /\ surfaces' = IF w.table = "surface" THEN [surfaces EXCEPT ![w.key] = w.value] ELSE surfaces
           /\ serving' = IF w.table = "process" THEN TRUE ELSE serving
    /\ UNCHANGED <<posts, deaths, torn>>

Dies ==
    /\ deaths < MaxDeaths /\ deaths' = deaths + 1
    /\ serving \/ ~AtRest
    /\ serving' = FALSE /\ unsaved' = <<>> /\ torn' = (torn \/ ~AtRest)
    /\ posts' = [q \in Posts |-> NoPost]
    /\ UNCHANGED <<profiles, surfaces>>

\* A plausible mistake in SeedIfNone.
SeedIfEmpty == IF profiles = <<>> THEN <<SaveProfile(1, SeedProfile)>> ELSE <<>>

SeedIfNone == IF CurrentRows = {} THEN <<SaveProfile(1, SeedProfile)>> ELSE <<>>

WithSupport(content) == [content EXCEPT !.support = TRUE]

\* ensureLandingAssistantControlPlane: a profile when none is current, the
\* support in the current one, the surfaces that are not there.
Boot ==
    LET n   == IF CurrentRows = {} THEN 1 ELSE CurrentRevision
        row == IF CurrentRows = {} THEN SeedProfile ELSE profiles[n]
        upgrade == IF row.content.support \/ n >= MaxProfiles THEN <<>>
                   ELSE Supersede(n, row, WithSupport(row.content))
    IN  /\ ~serving /\ AtRest
        /\ \E order \in [1..Cardinality({s \in Surfaces : surfaces[s] = NoSurface}) ->
                          {s \in Surfaces : surfaces[s] = NoSurface}] :
             /\ \A i, j \in DOMAIN order : i # j => order[i] # order[j]
             /\ unsaved' = SeedIfNone \o upgrade
                  \o [i \in DOMAIN order |-> SaveSurface(order[i], SeedSurface)] \o <<Serve>>
        /\ UNCHANGED <<profiles, surfaces, serving, posts, deaths, torn>>

ControlInit ==
    /\ profiles = <<>> /\ surfaces = [s \in Surfaces |-> NoSurface]
    /\ serving = FALSE /\ posts = [q \in Posts |-> NoPost] /\ unsaved = <<>>
    /\ deaths = 0 /\ torn = FALSE

ControlNext ==
    \/ \E q \in Posts :
         \/ ReviseRead(q) \/ PostEnds(q)
         \/ \E support \in BOOLEAN : ReviseArrives(q, support)
         \/ \E s \in Surfaces : SurfaceRead(q, s)
         \/ \E tracking \in {"current", "pinned"}, pin \in 1..MaxProfiles :
              SurfaceArrives(q, tracking, pin)
    \/ Save \/ Dies \/ Boot

ControlSpec == ControlInit /\ [][ControlNext]_controlVars

-----------------------------------------------------------------------------
\* Values the variables range over.
ControlTypeOK ==
    /\ profiles \in Seq([status : {"current", "historical"}, content : Content])
    /\ Len(profiles) <= MaxProfiles
    /\ \A s \in Surfaces : surfaces[s] = NoSurface \/
         (surfaces[s].tracking \in {"current", "pinned"} /\ surfaces[s].pinned \in 0..MaxProfiles)
    /\ serving \in BOOLEAN /\ torn \in BOOLEAN /\ deaths \in 0..MaxDeaths

\* Every surface resolves to a revision whenever a request can ask for it,
\* also after a death between the two writes of a new revision.
Resolves ==
    serving /\ AtRest => \A s \in Surfaces : Resolvable(s)

\* A surface that tracks the profile gets its last revision, however many posts
\* were under way at once, unless the process died inside one
\* (docs/assistant-control-plane.md:53).
TracksLast == serving /\ AtRest /\ ~torn => CurrentRevision = Len(profiles)

SurfacesServed == ControlTypeOK /\ Resolves /\ TracksLast

\* Claim of docs/assistant-control-plane.md:48: profiles are append-only
\* revisions, so what a revision says never changes.
ProfileAppendOnly ==
    [][\A n \in DOMAIN profiles :
         n \in DOMAIN profiles' /\ profiles'[n].content = profiles[n].content]_controlVars

\* Claim of docs/assistant-control-plane.md:55: a pinned surface stays on its
\* revision.
PinnedStays ==
    [][\A s \in Surfaces :
         surfaces[s].tracking = "pinned" /\ surfaces'[s] = surfaces[s] =>
           profiles'[surfaces[s].pinned].content = profiles[surfaces[s].pinned].content]_controlVars
=============================================================================
