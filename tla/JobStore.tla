------------------------------ MODULE JobStore ------------------------------
(***************************************************************************)
(* The life of one job in JobStore (interfaces/api/runtime_parts/          *)
(* job_store_parts): HTTP handlers create, cancel, retry, hide and delete  *)
(* it, each retry starts a daemon thread that generates the song, and a    *)
(* watchdog marks it stalled when its heartbeat is old.  The store's lock  *)
(* makes one update of the job atomic, not the check that led to it: every *)
(* handler and every thread decides on what it read before.  Jobs share    *)
(* nothing but the lock, so one is enough.  Local generation only: loading *)
(* the provider configuration may raise, which is left out.                *)
(***************************************************************************)
EXTENDS Naturals, FiniteSets

CONSTANTS Worker,      \* daemon threads that can be alive at once
          Client,      \* threads of the HTTP server
          Stages,      \* control callbacks of one generation
          MaxRetries,  \* bound: retries asked for
          MaxRestarts, \* bound: restarts of the server
          None

ASSUME JobAssumption ==
    /\ Stages \in Nat \ {0} /\ MaxRetries \in Nat /\ MaxRestarts \in Nat
    /\ IsFiniteSet(Worker)

VARIABLES
    job,      \* the JobState object, shared by all threads that hold it
    listed,   \* whether self.jobs has the job
    disk,     \* job-state.json, None when there is none
    worker,   \* per thread: where it is
    left,     \* per thread: control callbacks its generation has still to make
    node,     \* the threads that run _run_node_retry
    client,   \* per handler: what it has decided to do
    watchdog, \* whether the watchdog has found the job stalled
    told,     \* history: threads asked to stop, since the last retry
    stalls,   \* history: stalled marks since the server started
    retries, restarts

handlers == <<client, watchdog>>
threads == <<worker, left, node>>
counters == <<retries, restarts>>
vars == <<job, listed, disk, threads, handlers, told, stalls, counters>>

Status == {"none", "queued", "running", "completed", "failed", "cancelled", "stalled", "interrupted"}

TypeOK ==
    /\ job \in [status : Status, cancel : BOOLEAN, fresh : BOOLEAN]
    /\ listed \in BOOLEAN
    /\ disk \in [status : Status \ {"none"}, cancel : BOOLEAN] \cup {None}
    /\ worker \in [Worker -> {"free", "begin", "nodeBegin", "mark", "check", "beat", "generate", "tick",
                              "generated", "finalBeat", "last", "stop", "drop"}]
    /\ left \in [Worker -> 0..Stages]
    /\ node \subseteq Worker /\ told \subseteq Worker
    /\ client \in [Client -> {"free", "start", "drop", "cancelQueued", "cancelRunning", "retry",
                              "retryNode", "spawnNode", "hide"}]
    /\ watchdog \in {"idle", "marking"}
    /\ stalls \in Nat /\ retries \in 0..MaxRetries /\ restarts \in 0..MaxRestarts

NoJob == [status |-> "none", cancel |-> FALSE, fresh |-> FALSE]

Init ==
    /\ job = NoJob /\ listed = FALSE /\ disk = None
    /\ worker = [w \in Worker |-> "free"] /\ left = [w \in Worker |-> 0] /\ node = {}
    /\ client = [c \in Client |-> "free"] /\ watchdog = "idle"
    /\ told = {} /\ stalls = 0 /\ retries = 0 /\ restarts = 0

Stored(j) == [status |-> j.status, cancel |-> j.cancel]

\* _update_job, under the lock: the attributes, self.jobs and the file.
Update(j) ==
    /\ job' = j
    /\ listed' = TRUE
    /\ disk' = Stored(j)

SetStatus(s) == Update([job EXCEPT !.status = s])
Heartbeat == Update([job EXCEPT !.fresh = TRUE])

Live == {w \in Worker : worker[w] # "free"}
PastLastCheck(w) == worker[w] \in {"finalBeat", "last"}

WorkerTo(w, l) == worker' = [worker EXCEPT ![w] = l]
ClientTo(c, l) == client' = [client EXCEPT ![c] = l]

-----------------------------------------------------------------------------
(* Handlers                                                                 *)

\* create_job, under the lock; start_job follows.
Create(c) ==
    /\ client[c] = "free" /\ job.status = "none"
    /\ Update([status |-> "queued", cancel |-> FALSE, fresh |-> TRUE])
    /\ ClientTo(c, "start")
    /\ UNCHANGED <<threads, watchdog, told, stalls, counters>>

Spawn(w, l) ==
    /\ worker[w] = "free"
    /\ WorkerTo(w, l)
    /\ node' = IF l = "nodeBegin" THEN node \cup {w} ELSE node \ {w}
    /\ told' = told \ {w}

\* start_job, without the lock: there is nothing to start, the job was
\* cancelled, or a thread starts.
StartNothing(c) ==
    /\ client[c] = "start"
    /\ ~listed \/ job.status # "queued"
    /\ ClientTo(c, "free")
    /\ UNCHANGED <<job, listed, disk, threads, watchdog, told, stalls, counters>>

StartCancelled(c) ==
    /\ client[c] = "start"
    /\ listed /\ job.status = "queued" /\ job.cancel
    /\ ClientTo(c, "drop")
    /\ UNCHANGED <<job, listed, disk, threads, watchdog, told, stalls, counters>>

StartThread(c) ==
    /\ client[c] = "start"
    /\ listed /\ job.status = "queued" /\ ~job.cancel
    /\ \E w \in Worker : Spawn(w, "begin")
    /\ ClientTo(c, "free")
    /\ UNCHANGED <<job, listed, disk, left, watchdog, stalls, counters>>

DropStart(c) ==
    /\ client[c] = "drop"
    /\ SetStatus("cancelled")
    /\ ClientTo(c, "free")
    /\ UNCHANGED <<threads, watchdog, told, stalls, counters>>

\* Mutant of Retryable: a cancelled job may be retried.
RetryableCancelled == {"failed", "stalled", "interrupted", "cancelled"}

Retryable == {"failed", "stalled", "interrupted"}

\* What a handler decides on reading the status, before it updates the job.
Decision(s) ==
    {"hide"} \cup {d \in {"cancelQueued"} : s = "queued"}
             \cup {d \in {"cancelRunning"} : s = "running"}

Decide(c, d) ==
    /\ client[c] = "free" /\ listed
    /\ d \in Decision(job.status)
    /\ ClientTo(c, d)
    /\ UNCHANGED <<job, listed, disk, threads, watchdog, told, stalls, counters>>

\* retry_job, and retry_job_node of a multinode job, which a completed job may be.
DecideRetry(c, d) ==
    /\ client[c] = "free" /\ listed
    /\ d \in {"retry", "retryNode"}
    /\ job.status \in Retryable \/ (d = "retryNode" /\ job.status = "completed")
    /\ retries < MaxRetries
    /\ retries' = retries + 1
    /\ ClientTo(c, d)
    /\ UNCHANGED <<job, listed, disk, threads, watchdog, told, stalls, restarts>>

\* cancel_job of a job that was queued, or running; the threads that have still
\* a check ahead are asked to stop.
CancelQueued(c) ==
    /\ client[c] = "cancelQueued"
    /\ Update([job EXCEPT !.status = "cancelled", !.cancel = TRUE])
    /\ told' = {w \in Live : ~PastLastCheck(w)}
    /\ ClientTo(c, "free")
    /\ UNCHANGED <<threads, watchdog, stalls, counters>>

CancelRunning(c) ==
    /\ client[c] = "cancelRunning"
    /\ Update([job EXCEPT !.cancel = TRUE])
    /\ told' = {w \in Live : ~PastLastCheck(w)}
    /\ ClientTo(c, "free")
    /\ UNCHANGED <<threads, watchdog, stalls, counters>>

\* retry_job puts the job back in the queue; start_job follows.
Retry(c) ==
    /\ client[c] = "retry"
    /\ Update([status |-> "queued", cancel |-> FALSE, fresh |-> TRUE])
    /\ told' = {}
    /\ ClientTo(c, "start")
    /\ UNCHANGED <<threads, watchdog, stalls, counters>>

\* retry_job_node makes the job running and then starts its thread.
RetryNode(c) ==
    /\ client[c] = "retryNode"
    /\ Update([status |-> "running", cancel |-> FALSE, fresh |-> TRUE])
    /\ told' = {}
    /\ ClientTo(c, "spawnNode")
    /\ UNCHANGED <<threads, watchdog, stalls, counters>>

SpawnNode(c) ==
    /\ client[c] = "spawnNode"
    /\ \E w \in Worker : Spawn(w, "nodeBegin")
    /\ ClientTo(c, "free")
    /\ UNCHANGED <<job, listed, disk, left, watchdog, stalls, counters>>

\* hide_job; the render handlers update the artifacts in the same way.
Hide(c) ==
    /\ client[c] = "hide"
    /\ Update(job)
    /\ ClientTo(c, "free")
    /\ UNCHANGED <<threads, watchdog, told, stalls, counters>>

\* delete_job checks, removes the run directory and forgets the job in one
\* critical section.
Delete(c) ==
    /\ client[c] = "free" /\ listed
    /\ job.status # "running"
    /\ listed' = FALSE /\ disk' = None
    /\ UNCHANGED <<job, threads, handlers, told, stalls, counters>>

-----------------------------------------------------------------------------
(* The watchdog                                                             *)

\* stall_timeout_seconds pass without a heartbeat.
Silence ==
    /\ job.status = "running" /\ job.fresh
    /\ job' = [job EXCEPT !.fresh = FALSE]
    /\ UNCHANGED <<listed, disk, threads, handlers, told, stalls, counters>>

\* Mutant of Notice: a job that is being cancelled is left alone.
NoticeUncancelled ==
    /\ watchdog = "idle" /\ listed
    /\ job.status = "running" /\ ~job.fresh /\ ~job.cancel
    /\ watchdog' = "marking"
    /\ UNCHANGED <<job, listed, disk, threads, client, told, stalls, counters>>

\* run_watchdog_tick reads the status and the heartbeat ...
Notice ==
    /\ watchdog = "idle" /\ listed
    /\ job.status = "running" /\ ~job.fresh
    /\ watchdog' = "marking"
    /\ UNCHANGED <<job, listed, disk, threads, client, told, stalls, counters>>

\* ... and then updates the job.
MarkStalled ==
    /\ watchdog = "marking"
    /\ SetStatus("stalled")
    /\ watchdog' = "idle"
    /\ stalls' = stalls + 1
    /\ UNCHANGED <<threads, client, told, counters>>

-----------------------------------------------------------------------------
(* _run_job and _run_node_retry                                             *)

\* A step of a thread that reads the job and changes nothing but its own place.
Goes(w, l) ==
    /\ WorkerTo(w, l)
    /\ UNCHANGED <<job, listed, disk, left, node, handlers, told, stalls, counters>>

\* A step of a thread that updates the job.
Updates(w, l) ==
    /\ WorkerTo(w, l)
    /\ UNCHANGED <<left, node, handlers, told, stalls, counters>>

\* A check of _run_job: a deleted job ends the thread, a cancelled one is dropped.
Checked(w, next) ==
    Goes(w, IF ~listed THEN "free" ELSE IF job.cancel THEN "drop" ELSE next)

Begin(w) == worker[w] = "begin" /\ Checked(w, "mark")

\* The status is not looked at again before it becomes running.
MarkRunning(w) ==
    /\ worker[w] = "mark"
    /\ Update([job EXCEPT !.status = "running", !.fresh = TRUE])
    /\ Updates(w, "check")

Check(w) == worker[w] = "check" /\ Checked(w, "beat")

\* _run_node_retry: here a cancelled job raises JobCancelled.
NodeBegin(w) ==
    /\ worker[w] = "nodeBegin"
    /\ Goes(w, IF ~listed THEN "free" ELSE IF job.cancel THEN "stop" ELSE "beat")

Beat(w) ==
    /\ worker[w] = "beat"
    /\ Heartbeat
    /\ WorkerTo(w, "generate")
    /\ left' = [left EXCEPT ![w] = Stages]
    /\ UNCHANGED <<node, handlers, told, stalls, counters>>

\* A stage of the generation ends or begins: the control callback looks the job up ...
Control(w) ==
    /\ worker[w] = "generate"
    /\ Goes(w, IF listed THEN "tick" ELSE "stop")

LastStage(w) == left[w] = 1

\* ... updates its heartbeat, and raises JobCancelled if a stop was asked for.
\* After the last callback a node retry has no check left.
Tick(w) ==
    /\ worker[w] = "tick"
    /\ Heartbeat
    /\ IF job.cancel
       THEN WorkerTo(w, "stop") /\ UNCHANGED left
       ELSE /\ WorkerTo(w, IF ~LastStage(w) THEN "generate" ELSE IF w \in node THEN "last" ELSE "generated")
            /\ left' = [left EXCEPT ![w] = @ - 1]
    /\ UNCHANGED <<node, handlers, told, stalls, counters>>

\* Mutant of FinalCheck: only a deleted job is looked for.
FinalCheckDeleted(w) ==
    /\ worker[w] = "generated"
    /\ Goes(w, IF listed THEN "finalBeat" ELSE "free")

FinalCheck(w) == worker[w] = "generated" /\ Checked(w, "finalBeat")

FinalBeat(w) == worker[w] = "finalBeat" /\ Heartbeat /\ Updates(w, "last")

Complete(w) == worker[w] = "last" /\ SetStatus("completed") /\ Updates(w, "free")

\* JobCancelled is caught: the job is looked up again.
Stop(w) == worker[w] = "stop" /\ Goes(w, IF listed THEN "drop" ELSE "free")

Drop(w) == worker[w] = "drop" /\ SetStatus("cancelled") /\ Updates(w, "free")

\* Anything else that is raised fails the job, deleted meanwhile or not.
FailJob(w) ==
    /\ \/ worker[w] \in {"check", "beat", "generate", "tick", "generated", "finalBeat", "last"}
       \/ worker[w] = "nodeBegin" /\ listed
    /\ SetStatus("failed")
    /\ Updates(w, "free")

-----------------------------------------------------------------------------
(* The server                                                               *)

\* Mutant of Active: only a running job is taken for interrupted.
ActiveRunning == {"running"}

\* The states in which load_existing_jobs takes a job for interrupted; no code
\* here makes a job waiting_retry or paused, which it lists too.
Active == {"queued", "running"}

\* Mutant of Restart: the status that load_existing_jobs changes is not saved.
RestartUnsaved ==
    /\ restarts < MaxRestarts
    /\ restarts' = restarts + 1
    /\ worker' = [w \in Worker |-> "free"] /\ client' = [c \in Client |-> "free"]
    /\ watchdog' = "idle" /\ told' = {} /\ stalls' = 0
    /\ listed' = (disk # None)
    /\ job' = IF disk = None THEN NoJob
              ELSE [status |-> IF disk.status \in Active THEN "interrupted" ELSE disk.status,
                    cancel |-> disk.cancel, fresh |-> FALSE]
    /\ UNCHANGED <<disk, left, node, retries>>

\* The server stops between any two steps and is started again.
Restart ==
    /\ restarts < MaxRestarts
    /\ restarts' = restarts + 1
    /\ worker' = [w \in Worker |-> "free"] /\ client' = [c \in Client |-> "free"]
    /\ watchdog' = "idle" /\ told' = {} /\ stalls' = 0
    /\ listed' = (disk # None)
    /\ job' = IF disk = None THEN NoJob
              ELSE [status |-> IF disk.status \in Active THEN "interrupted" ELSE disk.status,
                    cancel |-> disk.cancel, fresh |-> FALSE]
    /\ disk' = IF disk = None THEN None ELSE Stored(job')
    /\ UNCHANGED <<left, node, retries>>

\* What a handler, or a thread, does once it has begun.
ClientStep(c) ==
    \/ StartNothing(c) \/ StartCancelled(c) \/ StartThread(c) \/ DropStart(c)
    \/ CancelQueued(c) \/ CancelRunning(c) \/ Hide(c)
    \/ Retry(c) \/ RetryNode(c) \/ SpawnNode(c)

ClientNext(c) ==
    \/ Create(c) \/ Delete(c) \/ ClientStep(c)
    \/ \E d \in {"hide", "cancelQueued", "cancelRunning"} : Decide(c, d)
    \/ \E d \in {"retry", "retryNode"} : DecideRetry(c, d)

WorkerStep(w) ==
    \/ Begin(w) \/ MarkRunning(w) \/ Check(w) \/ NodeBegin(w) \/ Beat(w)
    \/ Control(w) \/ Tick(w) \/ FinalCheck(w) \/ FinalBeat(w) \/ Complete(w)
    \/ Stop(w) \/ Drop(w)

Next ==
    \/ \E c \in Client : ClientNext(c)
    \/ \E w \in Worker : WorkerStep(w) \/ FailJob(w)
    \/ Silence \/ Notice \/ MarkStalled
    \/ Restart

Spec == Init /\ [][Next]_vars

\* Time passes and the watchdog thread ticks; a generation may hang for ever.
Watched == WF_vars(Silence) /\ WF_vars(Notice) /\ WF_vars(MarkStalled)

\* Handlers and threads that have begun go on, and generations end.
NothingHangs ==
    /\ \A c \in Client : WF_vars(ClientStep(c))
    /\ \A w \in Worker : WF_vars(WorkerStep(w))

-----------------------------------------------------------------------------
(* Properties                                                               *)

\* The run directory has a state file exactly for a listed job, and it is the
\* state in memory: a restart finds what the last answer showed.
FileFollowsJob == disk = IF listed THEN Stored(job) ELSE None

\* A thread that had still a check ahead of it when a cancel was accepted does
\* not get past its last check, unless a retry takes the cancel back.
CancelStops == \A w \in told : ~PastLastCheck(w)

\* "delete, then GET returns 404": a deleted job does not come back.
DeletedStaysDeleted == [][job.status # "none" /\ ~listed => ~listed']_vars
=============================================================================
