--------------------------- MODULE ProjectRecords ---------------------------
(* Projects, their threads, resources and context checkpoints                *)
(* (packages/core/src/project-context.ts, the handlers of /api/projects and  *)
(* finalizeProjectCheckpoint in apps/runtime/server.ts).  A post reads its   *)
(* project and checks access before its body has arrived; who may do what is *)
(* settled by the coordination records, and is an input here.  The table of  *)
(* runs that are linked to a thread is memory.                               *)
EXTENDS Integers, Sequences, FiniteSets

CONSTANTS
  Projects, Threads, Resources, Requests, ThreadRuns,
  ListLimit,      \* checkpoints that a listing returns, the oldest first
  MaxRestarts     \* bound on restarts

None == "none"    \* the id of nothing

ASSUME ProjectAssumption ==
    None \notin Projects \cup Threads \cup ThreadRuns /\ ListLimit \in Nat /\ MaxRestarts \in Nat

NothingRead == [kind |-> "none", project |-> None]
NotLinked == [project |-> None, thread |-> None]

VARIABLES
  projects,      \* durable: the projects there are
  threadOf,      \* durable: the project of each thread
  resourceOf,    \* durable: the project and the thread of each resource
  checkpoints,   \* durable: append only
  post,          \* what each request under way has read
  run,           \* "none", "active", "again": to be finished again, "ended", "lost"
  link,          \* memory: runProjects
  begunIn,       \* the thread in which each run began    (history)
  restarts

projectVars == <<projects, threadOf, resourceOf, checkpoints, post, run, link, begunIn, restarts>>

Checkpoint(p, t, r) == [project |-> p, thread |-> t, run |-> r]

-----------------------------------------------------------------------------
(* The endpoints *)

\* The id of a new project must be free, which is looked up with the body read.
NewProject(p) ==
    /\ p \notin projects /\ projects' = projects \cup {p}
    /\ UNCHANGED <<threadOf, resourceOf, checkpoints, post, run, link, begunIn, restarts>>

\* requireProjectAccess with 'write_work' lets it through.
PostRead(q, kind, p) ==
    /\ post[q] = NothingRead /\ p \in projects
    /\ post' = [post EXCEPT ![q] = [kind |-> kind, project |-> p]]
    /\ UNCHANGED <<projects, threadOf, resourceOf, checkpoints, run, link, begunIn, restarts>>

AnyId(t) == TRUE
FreeId(t) == threadOf[t] = None

\* A new thread starts with a checkpoint of what the project knows.
ThreadArrives(q, t) ==
    LET p == post[q].project
    IN  /\ post[q].kind = "thread" /\ FreeId(t)
        /\ threadOf' = [threadOf EXCEPT ![t] = p]
        /\ checkpoints' = Append(checkpoints, Checkpoint(p, t, None))
        /\ post' = [post EXCEPT ![q] = NothingRead]
        /\ UNCHANGED <<projects, resourceOf, run, link, begunIn, restarts>>

\* A resource may name a thread of its project.  Its id may be one that is
\* taken: the row then becomes this project's.
ResourceArrives(q, x, t) ==
    LET p == post[q].project
    IN  /\ post[q].kind = "resource" /\ (t # None => threadOf[t] = p)
        /\ resourceOf' = [resourceOf EXCEPT ![x] = [project |-> p, thread |-> t]]
        /\ post' = [post EXCEPT ![q] = NothingRead]
        /\ UNCHANGED <<projects, threadOf, checkpoints, run, link, begunIn, restarts>>

Refuse(q) ==
    /\ post[q] # NothingRead /\ post' = [post EXCEPT ![q] = NothingRead]
    /\ UNCHANGED <<projects, threadOf, resourceOf, checkpoints, run, link, begunIn, restarts>>

-----------------------------------------------------------------------------
(* Runs of a thread *)

\* POST /api/command with a project and a thread checks and starts in one turn.
StartInThread(r, p, t) ==
    /\ run[r] = "none" /\ p \in projects /\ threadOf[t] = p
    /\ run' = [run EXCEPT ![r] = "active"]
    /\ link' = [link EXCEPT ![r] = [project |-> p, thread |-> t]]
    /\ begunIn' = [begunIn EXCEPT ![r] = t]
    /\ UNCHANGED <<projects, threadOf, resourceOf, checkpoints, post, restarts>>

OwnOf(p) == {n \in DOMAIN checkpoints : checkpoints[n].project = p}

\* listProjectCheckpoints: the first of them
Listed(p) ==
    {checkpoints[n] : n \in {k \in OwnOf(p) : Cardinality(OwnOf(p) \cap 1 .. k) <= ListLimit}}

AnyOfThread(r) == \E c \in Listed(link[r].project) : c.thread = link[r].thread
Checkpointed(r) == \E c \in Listed(link[r].project) : c.run = r

Summarised(r) ==
    IF link[r] = NotLinked \/ Checkpointed(r) THEN checkpoints
    ELSE Append(checkpoints, Checkpoint(link[r].project, link[r].thread, r))

\* finishRun goes through: the last thing finalizeProjectCheckpoint does is to
\* drop the link.
Finish(r) ==
    /\ run[r] \in {"active", "again"}
    /\ checkpoints' = Summarised(r)
    /\ link' = [link EXCEPT ![r] = NotLinked]
    /\ run' = [run EXCEPT ![r] = "ended"]
    /\ UNCHANGED <<projects, threadOf, resourceOf, post, begunIn, restarts>>

\* A write of finishRun throws, before or after the checkpoint is appended;
\* the catch of the run finishes it again.
FinishThrows(r, appended) ==
    /\ run[r] = "active" /\ run' = [run EXCEPT ![r] = "again"]
    /\ checkpoints' = IF appended THEN Summarised(r) ELSE checkpoints
    /\ UNCHANGED <<projects, threadOf, resourceOf, post, link, begunIn, restarts>>

\* The process ends, of a second throw or at any other time; the next one
\* finds the runs interrupted.
RestartProjects ==
    /\ restarts < MaxRestarts /\ restarts' = restarts + 1
    /\ run' = [r \in ThreadRuns |-> IF run[r] \in {"active", "again"} THEN "lost" ELSE run[r]]
    /\ link' = [r \in ThreadRuns |-> NotLinked]
    /\ post' = [q \in Requests |-> NothingRead]
    /\ UNCHANGED <<projects, threadOf, resourceOf, checkpoints, begunIn>>

ProjectInit ==
    /\ projects = {} /\ threadOf = [t \in Threads |-> None]
    /\ resourceOf = [x \in Resources |-> NotLinked] /\ checkpoints = <<>>
    /\ post = [q \in Requests |-> NothingRead] /\ run = [r \in ThreadRuns |-> "none"]
    /\ link = [r \in ThreadRuns |-> NotLinked] /\ begunIn = [r \in ThreadRuns |-> None] /\ restarts = 0

ProjectNext ==
    \/ \E p \in Projects : NewProject(p)
    \/ \E q \in Requests :
         \/ Refuse(q)
         \/ \E p \in Projects, kind \in {"thread", "resource"} : PostRead(q, kind, p)
         \/ \E t \in Threads : ThreadArrives(q, t)
         \/ \E x \in Resources, t \in Threads \cup {None} : ResourceArrives(q, x, t)
    \/ \E r \in ThreadRuns :
         \/ Finish(r) \/ FinishThrows(r, TRUE) \/ FinishThrows(r, FALSE)
         \/ \E p \in Projects, t \in Threads : StartInThread(r, p, t)
    \/ RestartProjects

-----------------------------------------------------------------------------
(* A thread, and with it every checkpoint, run and resource of the thread,   *)
(* belongs to one project for good: what is read back for a project's next   *)
(* thread was never said in another project's.  (POST                        *)
(* /api/projects/:id/threads and resources, server.ts:5277, and              *)
(* finalizeProjectCheckpoint, server.ts:2534)                                *)
ThreadsStayApart ==
    /\ \A n \in DOMAIN checkpoints : threadOf[checkpoints[n].thread] = checkpoints[n].project
    /\ \A x \in Resources : resourceOf[x].thread # None => threadOf[resourceOf[x].thread] = resourceOf[x].project
    /\ \A r \in ThreadRuns : link[r] # NotLinked => threadOf[link[r].thread] = link[r].project

(* A run of a thread that comes to its end leaves one checkpoint in the      *)
(* thread it began in, though finishing it may throw and be done again; a    *)
(* second one only once its project has more checkpoints than a listing      *)
(* returns.  (finalizeProjectCheckpoint, server.ts:2534)                     *)
RunsSummarisedOnce ==
    \A r \in ThreadRuns :
        LET own == {n \in DOMAIN checkpoints : checkpoints[n].run = r}
        IN  /\ run[r] = "ended" => own # {}
            /\ \A n \in own :
                 /\ checkpoints[n].thread = begunIn[r]
                 /\ \A earlier \in own :
                      earlier < n => Cardinality(OwnOf(checkpoints[n].project) \cap 1 .. earlier) > ListLimit

\* What a project has is its own, and tells each of its runs.
ProjectsAgree == ThreadsStayApart /\ RunsSummarisedOnce
=============================================================================
