---------------------------- MODULE FounderRecords ----------------------------
(* The Founder's reference library and the identity bindings of its social   *)
(* sources (packages/core/src/founder-reference-library.ts,                  *)
(* founder-social-sources.ts, founder-social-identity-binding.ts and         *)
(* continuity.ts with their callers in apps/runtime/server.ts).  Two files   *)
(* that people edit are merged and copied into the chronology at start; a    *)
(* binding is appended to the chronology.  What is in force is read back     *)
(* from a listing of the chronology's oldest records.                        *)
EXTENDS Integers, FiniteSets

CONSTANTS
  References,     \* ids of references, each the URL of a social source
  Urls, Entities, \* sets of positive integers, ordered like their hashes
  MaxTime,        \* stamps and readings of the clock are 1 .. MaxTime
  ChronologyLimit,      \* what listChronologyRecords returns at most
  MaxFileEdits, MaxBinds, MaxRecorded, MaxSteps   \* bounds on edits of the files,
                  \* bindings, records of runs, and steps back of the clock

ASSUME ReferenceAssumption == IsFiniteSet(References) /\ MaxTime \in Nat \ {0} /\ ChronologyLimit \in Nat

VARIABLES
  base, overlay,  \* durable: the two files, a stamp and the URL of each reference
  chronology,     \* durable: append only
  running,
  loaded,         \* the URLs that the last start took over    (history)
  bound,          \* the last binding accepted of each reference    (history)
  now,
  fileEdits, binds, recorded, steps,
  careless,       \* an edit did not raise the stamp above both files'   (history)
  slipped         \* a binding came no later by the clock than the one
                  \* before it    (history)

founderVars == <<base, overlay, chronology, running, loaded, bound, now, fileEdits, binds, recorded, steps, careless, slipped>>

Absent == 0
Clock == 1 .. MaxTime
NotBound == [entity |-> 0, at |-> 0]

\* The id is the subject, the time and a hash of the rest.  A binding also
\* keeps the URL that was verified.
Record(subject, at, value, source) == [subject |-> subject, at |-> at, value |-> value, source |-> source]
ReferenceOf(r) == <<"reference", r>>
BindingOf(r) == <<"binding", r>>

-----------------------------------------------------------------------------
(* continuity.ts *)

\* Order of the listing, where the subjects are one or do not matter
Before(a, b) ==
    \/ a.at < b.at
    \/ a.at = b.at /\ (a.value < b.value \/ (a.value = b.value /\ a.source < b.source))

Listing == {c \in chronology : Cardinality({d \in chronology : d # c /\ Before(d, c)}) < ChronologyLimit}

\* currentBySubject: the last record of the subject that is listed; none or one
InForce(subject) ==
    LET own == {c \in Listing : c.subject = subject}
    IN  {c \in own : \A other \in own : other = c \/ Before(other, c)}

-----------------------------------------------------------------------------
(* The files *)

\* An id that is in both files is refused, as is a file without a record.
Loads ==
    /\ \A r \in References : base.urls[r] = Absent \/ overlay.urls[r] = Absent
    /\ \E r \in References : base.urls[r] # Absent

\* Mutant: the stamp of the public file.
StampOfBase == base.stamp
MergedStamp == IF base.stamp >= overlay.stamp THEN base.stamp ELSE overlay.stamp

MergedUrls == [r \in References |-> IF base.urls[r] # Absent THEN base.urls[r] ELSE overlay.urls[r]]

Edited(file, r, url, stamp) == [stamp |-> stamp, urls |-> [file.urls EXCEPT ![r] = url]]

\* Somebody edits a reference and writes whatever stamp.
EditFile(r, url, stamp) ==
    /\ fileEdits < MaxFileEdits /\ fileEdits' = fileEdits + 1
    /\ url # MergedUrls[r]
    /\ \/ base' = Edited(base, r, url, stamp) /\ UNCHANGED overlay
       \/ overlay' = Edited(overlay, r, url, stamp) /\ UNCHANGED base
    /\ careless' = (careless \/ stamp <= base.stamp \/ stamp <= overlay.stamp)
    /\ UNCHANGED <<chronology, running, loaded, bound, now, binds, recorded, steps, slipped>>

-----------------------------------------------------------------------------
(* ensureFounderReferenceLibrary *)

NeedsUpdate(r) == \A c \in InForce(ReferenceOf(r)) : c.value # MergedUrls[r]

Written ==
    {Record(ReferenceOf(r), MergedStamp, MergedUrls[r], 0) :
       r \in {q \in References : MergedUrls[q] # Absent /\ NeedsUpdate(q)}}

StartUp ==
    /\ ~running /\ Loads /\ Written \cap chronology = {}
    /\ chronology' = chronology \cup Written
    /\ running' = TRUE /\ loaded' = MergedUrls
    /\ UNCHANGED <<base, overlay, bound, now, fileEdits, binds, recorded, steps, careless, slipped>>

\* The process dies, or an id is taken, when some of them are written.
StartUpFails ==
    /\ ~running /\ Loads
    /\ \E some \in SUBSET (Written \ chronology) : some # {} /\ some # Written /\ chronology' = chronology \cup some
    /\ UNCHANGED <<base, overlay, running, loaded, bound, now, fileEdits, binds, recorded, steps, careless, slipped>>

ShutDown ==
    /\ running /\ running' = FALSE
    /\ UNCHANGED <<base, overlay, chronology, loaded, bound, now, fileEdits, binds, recorded, steps, careless, slipped>>

-----------------------------------------------------------------------------
(* The endpoints *)

\* buildFounderSocialSourceRegistry: the files as they are at the request
IsSource(r) == Loads /\ MergedUrls[r] # Absent

\* Mutant: a binding is dated like the references.
DatedLikeLibrary(r, entity) == Record(BindingOf(r), MergedStamp, entity, MergedUrls[r])
NewBinding(r, entity) == Record(BindingOf(r), now, entity, MergedUrls[r])

\* POST /api/founder/social-sources/:referenceId/bind, its body being there
Bind(r, entity) ==
    /\ running /\ IsSource(r) /\ binds < MaxBinds /\ binds' = binds + 1
    /\ NewBinding(r, entity) \notin chronology
    /\ chronology' = chronology \cup {NewBinding(r, entity)}
    /\ bound' = [bound EXCEPT ![r] = [entity |-> entity, at |-> now]]
    /\ slipped' = (slipped \/ now <= bound[r].at)
    /\ UNCHANGED <<base, overlay, running, loaded, now, fileEdits, recorded, steps, careless>>

\* A run appends what it did.
Recorded ==
    /\ running /\ recorded < MaxRecorded /\ recorded' = recorded + 1
    /\ chronology' = chronology \cup {Record(<<"run", recorded'>>, now, recorded', 0)}
    /\ UNCHANGED <<base, overlay, running, loaded, bound, now, fileEdits, binds, steps, careless, slipped>>

Tick ==
    /\ now < MaxTime /\ now' = now + 1
    /\ UNCHANGED <<base, overlay, chronology, running, loaded, bound, fileEdits, binds, recorded, steps, careless, slipped>>

\* The clock of the machine is set back.
StepBack ==
    /\ now > 1 /\ steps < MaxSteps /\ steps' = steps + 1 /\ now' = now - 1
    /\ UNCHANGED <<base, overlay, chronology, running, loaded, bound, fileEdits, binds, recorded, careless, slipped>>

FounderInit ==
    /\ \E r \in References, url \in Urls :
         base = [stamp |-> 1, urls |-> [q \in References |-> IF q = r THEN url ELSE Absent]]
    /\ overlay = [stamp |-> 1, urls |-> [r \in References |-> Absent]]
    /\ chronology = {} /\ running = FALSE
    /\ loaded = [r \in References |-> Absent] /\ bound = [r \in References |-> NotBound]
    /\ now = 1 /\ fileEdits = 0 /\ binds = 0 /\ recorded = 0 /\ steps = 0 /\ careless = FALSE /\ slipped = FALSE

FounderNext ==
    \/ StartUp \/ StartUpFails \/ ShutDown \/ Recorded \/ Tick \/ StepBack
    \/ \E r \in References :
         \/ \E url \in Urls \cup {Absent}, stamp \in Clock : EditFile(r, url, stamp)
         \/ \E entity \in Entities : Bind(r, entity)

-----------------------------------------------------------------------------
AllListed == Cardinality(chronology) <= ChronologyLimit

(* After a start, what the chronology says of every reference is what the    *)
(* files said at the start, and the binding in force is the one accepted     *)
(* last, through failed starts, moves of a reference between the files and   *)
(* values that return: as long as every edit raised the stamp above both     *)
(* files', bindings came at instants that grow, and the chronology is not    *)
(* longer than its listing.  (ensureFounderReferenceLibrary, server.ts:934,  *)
(* the bind endpoint, server.ts:4665, reconstructContinuity,                 *)
(* continuity.ts:137)                                                        *)
InForceIsLast ==
    AllListed =>
        /\ running /\ ~careless =>
             \A r \in References : loaded[r] # Absent =>
                 \E c \in InForce(ReferenceOf(r)) : c.value = loaded[r]
        /\ ~slipped =>
             \A r \in References : bound[r] # NotBound =>
                 \E c \in InForce(BindingOf(r)) : c.value = bound[r].entity

(* "a corrected URL/policy revision cannot collide even if `updatedAt` is    *)
(* accidentally reused" (README.md:158): refuted.  A correction whose hash   *)
(* sorts before what it corrects is stored and never in force, so that the   *)
(* next start stores it again, under the same id, and throws.  The same      *)
(* comes of a correction that the listing does not reach.                    *)
StartsNeverCollide == ~running /\ Loads => Written \cap chronology = {}
=============================================================================
