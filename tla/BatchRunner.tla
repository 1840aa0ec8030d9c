---------------------------- MODULE BatchRunner ----------------------------
(***************************************************************************)
(* BatchRunner and BatchStore: runtime_parts/batch_runner_parts and        *)
(* domains/creation/batching.py.  One batch document, the driver thread    *)
(* that starts its items as jobs and follows them, and the HTTP handlers.  *)
(* The driver and the start of items work under the runner's lock; the     *)
(* handlers read the document, change it and save it without the lock, and *)
(* the driver saves the finished batch without it.  Jobs are those of      *)
(* JobStore, as far as the batch sees them: they end, stall, and are       *)
(* retried and deleted by requests that know nothing of the batch.  The    *)
(* rendering of completed items is in BatchRender.                         *)
(***************************************************************************)
EXTENDS Integers, Sequences, FiniteSets

CONSTANTS Client,          \* threads of the HTTP server
          Driver,          \* the batch thread, alive or not
          Helper,          \* other threads that save the batch (see BatchRender)
          Kind,            \* what is rendered of an item: audio, stems
          Items,           \* how many items the batch has
          Grouped,         \* items that belong to the project
          MaxConcurrency,  \* max_concurrency of the batch
          MaxCalls,        \* bound: requests accepted
          MaxUpsets,       \* bound: restarts of the server, and jobs stalled, retried by
                           \* themselves or deleted
          None

Item == 1 .. Items
Actor == Client \cup {Driver} \cup Helper

ASSUME BatchAssumption ==
    /\ Items \in Nat /\ Grouped \subseteq Item
    /\ MaxConcurrency \in Nat \ {0} /\ MaxCalls \in Nat /\ MaxUpsets \in Nat
    /\ Driver \notin Client \cup Helper /\ Client \cap Helper = {} /\ None \notin Actor

VARIABLES
    stored,    \* batch.json and items.json; None: no such batch
    jobs,      \* the jobs created for items, in order of creation: what each shows,
               \* how many threads work on it, and (history) whether it is plain:
               \* nothing has changed its status since it ended
    attached,  \* jobs that are versions of the project
    lock,      \* who has the runner's lock
    pc,        \* per actor: the next step of its call
    again,     \* the driver is at the second sync of its loop
    copy,      \* per actor: the document it read, the one it will save, and its
               \* step after that
    calls, restarts, strays,
    lapses     \* history: what has gone wrong that the properties except

shared == <<stored, jobs, attached>>
bounds == <<calls, restarts, strays>>
vars == <<shared, lock, pc, again, copy, bounds, lapses>>

Request == {"launch", "pause", "resume", "retry", "hide", "delete"}

RenderStatus == {"not_started", "queued", "running", "completed", "failed", "skipped"}

\* A cancelled item is treated as a failed one, a partly rendered one as
\* failed; a job or version of 0 stands for none.
BatchItem ==
    [status : {"queued", "running", "completed", "failed"},
     job : Nat, version : Nat, render : [Kind -> RenderStatus]]

Document ==
    [status : {"draft", "running", "paused", "completed", "completed_with_errors"},
     items  : [Item -> BatchItem]]

\* A batch that was deleted reads as no document.
ASSUME DocumentAssumption == None \notin Document

In(d, s) == {i \in Item : d.items[i].status = s}
Unfinished(d) == In(d, "queued") \cup In(d, "running")
Live == {j \in DOMAIN jobs : jobs[j].status = "running"}
Plain == {j \in DOMAIN jobs : jobs[j].plain}
IsRunning == stored # None /\ stored.status = "running"

NotStarted == [k \in Kind |-> "not_started"]

\* import_csv; or a batch that the last run of the server left with its first
\* n items completed.
Imported(n) ==
    [status |-> IF n = 0 THEN "draft" ELSE IF n < Items THEN "paused" ELSE "completed",
     items  |-> [i \in Item |->
        [status  |-> IF i <= n THEN "completed" ELSE "queued",
         job     |-> IF i <= n THEN i ELSE 0,
         version |-> IF i <= n /\ i \in Grouped THEN i ELSE 0,
         render  |-> NotStarted]]]

Init ==
    /\ \E n \in 0 .. Items :
         /\ stored = Imported(n)
         /\ jobs = [j \in 1 .. n |->
                       [item |-> j, status |-> "completed", workers |-> 0, plain |-> TRUE]]
         /\ attached = (1 .. n) \cap Grouped
    /\ lock = None
    /\ pc = [a \in Actor |-> "idle"]
    /\ again = FALSE
    /\ copy = [a \in Actor |-> None]
    /\ calls = 0 /\ restarts = 0 /\ strays = 0
    /\ lapses = {}

GoTo(a, l) == pc' = [pc EXCEPT ![a] = l]
Keep(a, read, write, next) ==
    copy' = [copy EXCEPT ![a] = [read |-> read, write |-> write, next |-> next]]
Forget(a) == copy' = [copy EXCEPT ![a] = None]

\* Replacing a document that is not the one that was read loses what was saved
\* in between.
Blame(a) == IF stored = copy[a].read THEN {} ELSE {"overwritten"}

\* save_batch
Store(a) ==
    /\ stored' = copy[a].write
    /\ lapses' = lapses \cup Blame(a)
    /\ GoTo(a, copy[a].next)
    /\ Forget(a)

-----------------------------------------------------------------------------
(* The handlers: launch_batch, pause_batch, resume_batch, retry_failed,     *)
(* hide_batch and delete_batch                                              *)

Accepts(o, d) ==
    \/ o = "launch" /\ d.status # "running" /\ In(d, "queued") # {}
    \/ o = "pause"  /\ d.status = "running"
    \/ o = "resume" /\ d.status = "paused"
    \/ o = "retry"  /\ d.status # "running" /\ In(d, "failed") # {}
    \/ o = "hide"
    \/ o = "delete" /\ d.status # "running" /\ In(d, "running") = {}

\* Mutant of Requeued: completed items are made again, their version forgotten.
RequeuedAfresh(item) ==
    IF item.status \in {"failed", "completed"}
    THEN [item EXCEPT !.status = "queued", !.job = 0, !.version = 0, !.render = NotStarted] ELSE item

\* retry_failed clears the link to the job but not the one to the version.
Requeued(item) ==
    IF item.status = "failed"
    THEN [item EXCEPT !.status = "queued", !.job = 0, !.render = NotStarted] ELSE item

Changed(o, d) ==
    CASE o \in {"launch", "resume"} -> [d EXCEPT !.status = "running"]
      [] o = "pause"  -> [d EXCEPT !.status = "paused"]
      [] o = "retry"  -> [status |-> "running", items |-> [i \in Item |-> Requeued(d.items[i])]]
      [] o = "hide"   -> d
      [] o = "delete" -> None

Handle(c, o) ==
    /\ pc[c] = "idle" /\ calls < MaxCalls
    /\ stored # None /\ Accepts(o, stored)
    /\ Keep(c, stored, Changed(o, stored),
            IF o \in {"launch", "resume", "retry"} THEN "start" ELSE "idle")
    /\ calls' = calls + 1
    /\ GoTo(c, "save")
    /\ UNCHANGED <<shared, lock, again, restarts, strays, lapses>>

Save(c) ==
    /\ c \in Client /\ pc[c] = "save"
    /\ Store(c)
    /\ UNCHANGED <<jobs, attached, lock, again, bounds>>

\* _ensure_thread: a thread that still lives is taken to go on working.
Ensure(c) ==
    /\ pc[c] = "ensure" /\ lock = None
    /\ pc' = [pc EXCEPT ![c] = "idle", ![Driver] = IF @ = "idle" THEN "sync" ELSE @]
    /\ lapses' = IF pc[Driver] = "ending" THEN lapses \cup {"missed"} ELSE lapses
    /\ UNCHANGED <<shared, lock, again, copy, bounds>>

-----------------------------------------------------------------------------
(* _start_available_items, called by handlers and by the driver             *)

AfterStart(a) == IF a = Driver THEN "sync" ELSE "ensure"
Second(a) == again' = (again \/ a = Driver)

\* Mutant of Slots: jobs that run already are not counted.
SlotsAll == MaxConcurrency

\* How many jobs may be started; not positive when there is no room.
Slots == MaxConcurrency - Cardinality(In(stored, "running"))

\* get_batch raises when the batch is gone: a handler fails, the driver ends.
StartNothing(a) ==
    /\ pc[a] = "start" /\ lock = None
    /\ \/ /\ stored = None
          /\ GoTo(a, IF a = Driver THEN "ending" ELSE "idle")
          /\ UNCHANGED again
       \/ /\ stored # None
          /\ stored.status # "running" \/ Slots <= 0
          /\ GoTo(a, AfterStart(a))
          /\ Second(a)
    /\ UNCHANGED <<shared, lock, copy, bounds, lapses>>

\* How many of the items in set s come before item i.
Before(i, s) == Cardinality({k \in s : k < i})

\* The queued items in order get a job each while there is room; create_job
\* raises for those in bad.
StartItems(a) ==
    /\ pc[a] = "start" /\ lock = None
    /\ IsRunning /\ Slots > 0
    /\ \E bad \in SUBSET In(stored, "queued") :
         LET good    == In(stored, "queued") \ bad
             reached == {i \in In(stored, "queued") : Before(i, good) < Slots}
             started == reached \ bad
             job(i)  == Len(jobs) + Before(i, started) + 1
             item(i) == [stored.items[i] EXCEPT !.status = "running", !.job = job(i)]
             items   == [i \in Item |->
                           CASE i \in started -> item(i)
                             [] i \in reached \cap bad -> [stored.items[i] EXCEPT !.status = "failed"]
                             [] OTHER -> stored.items[i]]
         IN  /\ bad \subseteq reached
             /\ Keep(a, stored, [stored EXCEPT !.items = items], AfterStart(a))
             /\ jobs' = [j \in 1 .. Len(jobs) + Cardinality(started) |->
                           IF j <= Len(jobs) THEN jobs[j]
                           ELSE [item    |-> CHOOSE i \in started : job(i) = j, status |-> "running",
                                 workers |-> 1, plain |-> TRUE]]
    /\ lock' = a
    /\ GoTo(a, "startSave")
    /\ UNCHANGED <<stored, attached, again, bounds, lapses>>

SaveStarted(a) ==
    /\ pc[a] = "startSave"
    /\ Store(a)
    /\ Second(a)
    /\ lock' = None
    /\ UNCHANGED <<jobs, attached, bounds>>

-----------------------------------------------------------------------------
(* _sync_running_items and the archive of completed items                   *)

\* Mutant of Followed: a job that is not completed has failed.
FollowedImpatient(item, status) ==
    IF item.status # "running" THEN item
    ELSE [item EXCEPT !.status = IF status[item.job] = "completed" THEN "completed" ELSE "failed"]

Followed(item, status) ==
    IF item.status # "running" THEN item
    ELSE CASE status[item.job] = "running" -> item
           [] status[item.job] = "completed" -> [item EXCEPT !.status = "completed"]
           [] OTHER -> [item EXCEPT !.status = "failed"]

\* Items are archived in order: none before an earlier one of the project that
\* may still complete, or that completed and cannot be archived.
Archivable(items, status) ==
    {i \in Grouped :
        /\ items[i].status = "completed" /\ items[i].version = 0
        /\ \A k \in Grouped : k <= i =>
             /\ items[k].status \notin {"queued", "running"}
             /\ items[k].status = "completed" /\ items[k].version = 0
                  => status[items[k].job] = "completed"}

Synced(d, status) ==
    LET items == [i \in Item |-> Followed(d.items[i], status)]
    IN  [d EXCEPT !.items = [i \in Item |->
            IF i \in Archivable(items, status)
            THEN [items[i] EXCEPT !.version = items[i].job] ELSE items[i]]]

Versions(d) == {d.items[i].version : i \in Item} \ {0}
Status == [j \in DOMAIN jobs |-> jobs[j].status]

Finished(d) ==
    [d EXCEPT !.status = IF In(d, "failed") # {} THEN "completed_with_errors" ELSE "completed"]

\* Mutant of Judge: a paused batch whose items are done is finished as well.
JudgePaused(d) ==
    \/ /\ ~again
       /\ GoTo(Driver, IF Unfinished(d) = {} THEN "finish" ELSE "start")
       /\ (IF Unfinished(d) = {} THEN Keep(Driver, d, Finished(d), "ending") ELSE Forget(Driver))
       /\ UNCHANGED again
    \/ again /\ again' = FALSE /\ GoTo(Driver, "sync") /\ Forget(Driver)

\* Mutant of Judge: the batch is finished once every item is completed.
JudgeCompleted(d) ==
    \/ /\ ~again
       /\ GoTo(Driver, CASE d.status = "paused" /\ In(d, "running") # {} -> "sync"
                         [] d.status = "running" -> "start"
                         [] OTHER -> "ending")
       /\ Forget(Driver) /\ UNCHANGED again
    \/ /\ again
       /\ again' = FALSE
       /\ IF d.status = "running" /\ In(d, "completed") = Item
          THEN GoTo(Driver, "finish") /\ Keep(Driver, d, Finished(d), "ending")
          ELSE GoTo(Driver, "sync") /\ Forget(Driver)

\* _run_batch after a sync has returned document d; the sync before the start
\* of items and the one after it lead to different tests.
Judge(d) ==
    \/ /\ ~again
       /\ GoTo(Driver, CASE d.status = "paused" /\ In(d, "running") # {} -> "sync"
                         [] d.status = "running" -> "start"
                         [] OTHER -> "ending")
       /\ Forget(Driver) /\ UNCHANGED again
    \/ /\ again
       /\ again' = FALSE
       /\ IF d.status = "running" /\ Unfinished(d) = {}
          THEN GoTo(Driver, "finish") /\ Keep(Driver, d, Finished(d), "ending")
          ELSE GoTo(Driver, "sync") /\ Forget(Driver)

SyncGone ==
    /\ pc[Driver] \in {"sync", "reread"} /\ stored = None
    /\ pc[Driver] = "sync" => lock = None
    /\ lock' = None
    /\ again' = FALSE
    /\ GoTo(Driver, "ending")
    /\ UNCHANGED <<shared, copy, bounds, lapses>>

SyncUnchanged ==
    /\ pc[Driver] = "sync" /\ lock = None
    /\ stored # None /\ Synced(stored, Status) = stored
    /\ Judge(stored)
    /\ UNCHANGED <<shared, lock, bounds, lapses>>

\* The versions are attached to the project before the batch is saved.
Sync ==
    /\ pc[Driver] = "sync" /\ lock = None
    /\ stored # None /\ Synced(stored, Status) # stored
    /\ Keep(Driver, stored, Synced(stored, Status), "reread")
    /\ attached' = attached \cup Versions(Synced(stored, Status))
    /\ lock' = Driver
    /\ GoTo(Driver, "syncSave")
    /\ UNCHANGED <<stored, jobs, again, bounds, lapses>>

SaveSynced ==
    /\ pc[Driver] = "syncSave"
    /\ Store(Driver)
    /\ UNCHANGED <<jobs, attached, lock, again, bounds>>

Reread ==
    /\ pc[Driver] = "reread" /\ stored # None
    /\ lock' = None
    /\ Judge(stored)
    /\ UNCHANGED <<shared, bounds, lapses>>

\* _finish_batch
Finish ==
    /\ pc[Driver] = "finish"
    /\ Store(Driver)
    /\ UNCHANGED <<jobs, attached, lock, again, bounds>>

\* The thread takes itself off the list: until then it counts as alive.
End ==
    /\ pc[Driver] = "ending" /\ lock = None
    /\ GoTo(Driver, "idle")
    /\ UNCHANGED <<shared, lock, again, copy, bounds, lapses>>

-----------------------------------------------------------------------------
(* Jobs, and a restart of the server                                        *)

\* A queued job counts as running, a stalled, cancelled or interrupted one as failed.
Becomes(j, status, workers) ==
    jobs' = [jobs EXCEPT ![j] =
        [jobs[j] EXCEPT !.status = status, !.workers = workers,
                        !.plain = jobs[j].plain /\ jobs[j].status = "running" /\ status # "gone"]]

\* A thread of the job ends and says how, also when the job has ended for
\* others; of a deleted job it may say nothing.
Settle(j) ==
    /\ jobs[j].workers > 0
    /\ \E s \in {"completed", "failed"} \cup ({"gone"} \cap {jobs[j].status}) :
         Becomes(j, s, jobs[j].workers - 1)
    /\ UNCHANGED <<stored, attached, lock, pc, again, copy, bounds, lapses>>

\* A thread that begins lists a job again that was cancelled or deleted while it
\* was queued, or that another thread of it has ended.
Revive(j) ==
    /\ jobs[j].workers > 0 /\ jobs[j].status # "running"
    /\ Becomes(j, "running", jobs[j].workers)
    /\ UNCHANGED <<stored, attached, lock, pc, again, copy, bounds, lapses>>

Stray(j, status, workers) ==
    /\ restarts + strays < MaxUpsets
    /\ strays' = strays + 1
    /\ Becomes(j, status, workers)
    /\ UNCHANGED <<stored, attached, lock, pc, again, copy, calls, restarts, lapses>>

\* The watchdog marks the job, maybe one that completed meanwhile, or it is
\* cancelled; its thread goes on.
Stall(j) ==
    /\ jobs[j].status \in {"running", "completed"}
    /\ Stray(j, "failed", jobs[j].workers)

\* retry_job and retry_job_node
RetryJob(j) ==
    /\ jobs[j].status \in {"failed", "completed"}
    /\ Stray(j, "running", jobs[j].workers + 1)

\* delete_job; a running job is deleted only while it is still queued.
DeleteJob(j) ==
    /\ jobs[j].status # "gone"
    /\ Stray(j, "gone", jobs[j].workers)

\* Mutant of Interrupted: the renderings are left as they are.
InterruptedNot(r) == r

\* _recover_interrupted_audio
Interrupted(r) == [k \in Kind |-> IF r[k] \in {"queued", "running"} THEN "failed" ELSE r[k]]

\* The document whose renderings nobody makes any more.
Halted(d) == [d EXCEPT !.items = [i \in Item |-> [d.items[i] EXCEPT !.render = Interrupted(@)]]]

\* Mutant of Recovered: a batch in progress is left running.
RecoveredRunning(d, status) ==
    IF d = None THEN d
    ELSE Synced(Halted(d), status)

\* recover_existing_batches
Recovered(d, status) ==
    LET r == Halted(d)
        s == Synced(r, status)
    IN  CASE d = None -> d
          [] d # None /\ d.status \notin {"running", "paused"} -> r
          [] OTHER -> IF Unfinished(s) = {} THEN Finished(s) ELSE [s EXCEPT !.status = "paused"]

\* What a save that is cut short leaves: batch.json is new, items.json is old.
Torn(a) == [stored EXCEPT !.status = copy[a].write.status]
Saving(a) == copy[a] # None /\ copy[a].write # None /\ stored # None

Restart ==
    /\ restarts + strays < MaxUpsets
    /\ restarts' = restarts + 1
    /\ LET now == [j \in DOMAIN jobs |->
                     [jobs[j] EXCEPT !.status = IF @ = "running" THEN "failed" ELSE @, !.workers = 0]]
           status == [j \in DOMAIN now |-> now[j].status]
       IN  /\ jobs' = now
           /\ \/ stored' = Recovered(stored, status) /\ UNCHANGED lapses
              \/ \E a \in Actor :
                   /\ Saving(a)
                   /\ stored' = Recovered(Torn(a), status)
                   /\ lapses' = lapses \cup Blame(a)
           /\ attached' = attached \cup (IF stored' = None THEN {} ELSE Versions(stored'))
    /\ lock' = None
    /\ pc' = [a \in Actor |-> "idle"]
    /\ again' = FALSE
    /\ copy' = [a \in Actor |-> None]
    /\ UNCHANGED <<calls, strays>>

-----------------------------------------------------------------------------
StartNext(a) == StartNothing(a) \/ StartItems(a) \/ SaveStarted(a)
ClientNext(c) == Save(c) \/ Ensure(c) \/ StartNext(c)
DriverNext ==
    \/ StartNext(Driver) \/ SyncGone \/ SyncUnchanged \/ Sync \/ SaveSynced
    \/ Reread \/ Finish \/ End

Next ==
    \/ \E c \in Client : ClientNext(c) \/ \E o \in Request : Handle(c, o)
    \/ DriverNext
    \/ \E j \in DOMAIN jobs : Settle(j) \/ Revive(j) \/ Stall(j) \/ RetryJob(j) \/ DeleteJob(j)
    \/ Restart

Spec == Init /\ [][Next]_vars

-----------------------------------------------------------------------------
(* Properties                                                               *)

Label == {"idle", "save", "start", "startSave", "ensure", "sync", "syncSave", "reread",
          "finish", "ending", "render", "renderSave", "ensureRender", "check"}

TypeOK ==
    /\ stored \in Document \cup {None}
    /\ jobs \in Seq([item : Item, status : {"running", "completed", "failed", "gone"},
                     workers : Nat, plain : BOOLEAN])
    /\ attached \subseteq DOMAIN jobs
    /\ lock \in Actor \cup {None}
    /\ pc \in [Actor -> Label]
    /\ again \in BOOLEAN
    /\ copy \in [Actor -> [read : Document, write : Document \cup {None},
                          next : Label] \cup {None}]
    /\ calls \in 0 .. MaxCalls /\ restarts \in Nat /\ strays \in Nat
    /\ lapses \subseteq {"overwritten", "missed"}

Overwritten == "overwritten" \in lapses

\* Starting(j): the actor that created job j has yet to save the link to it.
Starting(j) ==
    \E a \in Actor : pc[a] = "startSave" /\ copy[a].write.items[jobs[j].item].job = j

\* Two live jobs never make the same item, through pauses, resumes, retries and
\* restarts: start_available_items gives a job only to a queued item, retry only
\* requeues items whose job has ended.  A job that lives again after that, since
\* it was retried by itself or a thread of it went on, can be one too many: this
\* and the next two properties are about the plain jobs.
OneJobPerItem == \A i, j \in Live \cap Plain : jobs[i].item = jobs[j].item => i = j

\* A live job is never lost to the batch: its item holds its id, or the actor
\* that created it is about to save the link; in particular no batch with live
\* jobs is deleted.
LiveIsLinked ==
    \A j \in Live \cap Plain : Starting(j) \/ (stored # None /\ stored.items[jobs[j].item].job = j)

\* Live jobs and items correspond, as long as no save put an old document back,
\* whatever is done to other jobs of the batch by themselves.
JobsFitItems == ~Overwritten => OneJobPerItem /\ LiveIsLinked

\* However many threads start items, no more than max_concurrency jobs of the
\* batch are alive, beside those that live again.
WithinConcurrency == ~Overwritten => Cardinality(Live \cap Plain) <= MaxConcurrency

\* A batch that shows as finished has nothing left to make, and shows
\* completed_with_errors when an item has failed, also after a save that a
\* restart cut between batch.json and items.json.
FinishedIsDone ==
    stored # None /\ stored.status \in {"completed", "completed_with_errors"} =>
        /\ Unfinished(stored) = {}
        /\ stored.status = "completed" => In(stored, "failed") = {}

\* A running batch has a thread that works on it or a handler that will start one.
RunningIsDriven ==
    IsRunning => pc[Driver] \notin {"idle", "ending"}
                    \/ \E c \in Client : pc[c] \in {"start", "startSave", "ensure"}

\* The status of the batch is true, unless a save put an old document back or
\* _ensure_thread took a thread that was ending for one that works.
StatusIsTrue == (~Overwritten => FinishedIsDone) /\ (lapses = {} => RunningIsDriven)

\* The archive gives the project one version per item, also when the server
\* stops between the version and the save of the batch and archives again.  Only
\* of a job that was deleted, retried by itself or marked stalled in between is a
\* second version made, by the retry of the item.
OneVersionPerItem ==
    \A i, j \in {k \in attached \cap Plain : jobs[k].status = "completed"} :
        jobs[i].item = jobs[j].item => i = j

\* The version an item names is the one of the job that made it, and the project
\* has it, even when saves overwrite each other.
VersionIsOfJob ==
    stored # None => \A i \in Item : LET item == stored.items[i] IN
        item.version # 0 =>
            item.version = item.job /\ item.status = "completed" /\ item.version \in attached

\* Items and the versions of the project correspond.
VersionsFitJobs == (~Overwritten => OneVersionPerItem) /\ VersionIsOfJob

\* Nothing but a request takes a batch out of paused, though the driver goes on
\* following its jobs and may decide to finish it; a restart may finish one
\* whose items are all done.
PauseHolds ==
    [][ stored # None /\ stored.status = "paused" /\ stored' # None /\ stored'.status # "paused" =>
          \/ \E c \in Client : pc[c] = "save" /\ pc'[c] = "start"
          \/ Unfinished(stored') = {} /\ restarts' # restarts
          \/ "overwritten" \in lapses' ]_vars

\* A batch does not stay running for ever, whatever its jobs come to: it is
\* finished, paused or deleted, unless one of the two lapses happened.
BatchEnds == IsRunning ~> ~IsRunning \/ lapses # {}
=============================================================================
