-------------------------- MODULE ReusableLibrary --------------------------
(* The reusable library (packages/core/src/reusable-library.ts and its       *)
(* handlers in apps/runtime/server.ts): revisions of items that depend on    *)
(* the current or on a given revision of other items.  A post is one turn    *)
(* of the event loop with two writes, and the process may die between them.  *)
EXTENDS Integers, FiniteSets

CONSTANTS
  Items,
  MaxPosts,         \* bound on posts that are accepted
  MaxTornItems           \* bound on deaths between the two writes of a post

VARIABLES
  library,   \* durable: <<item, revision>> |-> row
  posted,    \* accepted posts
  tornItems       \* items whose post a death tore    (history)

libraryVars == <<library, posted, tornItems>>

\* Revision 0 stands for whatever revision is current.
Current == 0
Dependencies == [item : Items, revision : {Current, 1, 2}, optional : BOOLEAN]
Revised(status, dependencies) == [status |-> status, dependencies |-> dependencies]

Revisions(lib, i) == {k \in DOMAIN lib : k[1] = i}

\* Of the revisions of an item whose status is current, the last; none or one
LatestCurrent(lib, i) ==
    LET current == {k \in Revisions(lib, i) : lib[k].status = "current"}
    IN  {k \in current : \A other \in current : other[2] <= k[2]}

\* The revision that a dependency names; none or one
ResolvedBy(lib, d) ==
    IF d.revision = Current THEN LatestCurrent(lib, d.item)
    ELSE {<<d.item, d.revision>>} \cap DOMAIN lib

Uses(lib, k) == UNION {ResolvedBy(lib, d) : d \in lib[k].dependencies}

\* No revision in the set uses one outside
Complete(lib, T) == \A k \in T : Uses(lib, k) \subseteq T

\* Every revision that a selection of those in S visits: what is in each
\* complete set that has them
Visited(lib, S) ==
    {k \in DOMAIN lib : \A T \in SUBSET DOMAIN lib : S \subseteq T /\ Complete(lib, T) => k \in T}

OnCycle(lib, k) == k \in Visited(lib, Uses(lib, k))
Missing(lib, k) == {d \in lib[k].dependencies : ~d.optional /\ ResolvedBy(lib, d) = {}}

\* resolveReusableSelection of a revision that is there
Selectable(lib, k) == \A seen \in Visited(lib, {k}) : ~OnCycle(lib, seen) /\ Missing(lib, seen) = {}

-----------------------------------------------------------------------------
Stored(lib, key, row) == [k \in DOMAIN lib \cup {key} |-> IF k = key THEN row ELSE lib[k]]

\* A post says what the next revision depends on; the number is the server's.
NextOf(i) ==
    LET latest == LatestCurrent(library, i)
    IN  IF latest = {} THEN 1 ELSE (CHOOSE k \in latest : TRUE)[2] + 1

\* Mutant: the new revision is a draft until it is stored, so that references
\* to the current revision are resolved to the one it replaces.
WithDraft(i, dependencies) == Stored(library, <<i, NextOf(i)>>, Revised("draft", dependencies))

\* What is resolved: the rows as they are, and the new one
WithItem(i, dependencies) == Stored(library, <<i, NextOf(i)>>, Revised("current", dependencies))

Superseding(i) ==
    [k \in DOMAIN library |->
       IF k \in LatestCurrent(library, i) THEN Revised("historical", library[k].dependencies) ELSE library[k]]

Accepted(i, dependencies) ==
    /\ posted < MaxPosts
    /\ Selectable(WithItem(i, dependencies), <<i, NextOf(i)>>)
    /\ posted' = posted + 1

PostItem(i, dependencies) ==
    /\ Accepted(i, dependencies)
    /\ library' = Stored(Superseding(i), <<i, NextOf(i)>>, Revised("current", dependencies))
    /\ UNCHANGED tornItems

\* The process dies when the current revision has become historical and the
\* new one is not written.
PostTorn(i, dependencies) ==
    /\ Accepted(i, dependencies) /\ LatestCurrent(library, i) # {}
    /\ Cardinality(tornItems) < MaxTornItems
    /\ library' = Superseding(i) /\ tornItems' = tornItems \cup {i}

LibraryInit == library = <<>> /\ posted = 0 /\ tornItems = {}

\* Bodies of at most one dependency
LibraryNext ==
    \E i \in Items, dependencies \in {{}} \cup {{d} : d \in Dependencies} :
        PostItem(i, dependencies) \/ PostTorn(i, dependencies)

-----------------------------------------------------------------------------
(* Every revision that was accepted can be selected ever after, however the  *)
(* items it depends on are revised: its walk ends, and every revision it     *)
(* needs is there, but for an item that a death has left without a current   *)
(* revision.  Only the new revision is resolved at a post, not those that    *)
(* depend on it.  (resolveReusableSelection, reusable-library.ts:117, and    *)
(* POST /api/library/items, server.ts:5126)                                  *)
SelectionsResolve ==
    \A k \in DOMAIN library :
        ~OnCycle(library, k) /\ \A d \in Missing(library, k) : d.revision = Current /\ d.item \in tornItems

(* "A new revision supersedes the previous revision instead of silently      *)
(* replacing its engineering history" (docs/lego-library-projects.md:39):    *)
(* refuted.  After a death between the two writes no revision is current,    *)
(* the next post takes the item for a new one and writes its revision 1.     *)
HistoryStays ==
    [][\A k \in DOMAIN library : library'[k].dependencies = library[k].dependencies]_libraryVars
=============================================================================
