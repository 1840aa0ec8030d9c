----------------------------- MODULE JobClients -----------------------------
(***************************************************************************)
(* JobStore with handlers of several clients at work on the job at once.   *)
(* Nothing in the store keeps a handler from acting on a status that       *)
(* another one has changed meanwhile: two retries of a failed job start    *)
(* two threads, a hide that meets a delete lists the job again.  Some      *)
(* properties hold in spite of this, the others until it first happens.    *)
(***************************************************************************)
EXTENDS JobStore

VARIABLE crossed  \* history: a handler acted while another one was at work

ClientsInit == Init /\ crossed = FALSE

Cross(c) == crossed' = (crossed \/ \E d \in Client \ {c} : client[d] # "free")

ClientsNext ==
    \/ \E c \in Client : ClientNext(c) /\ Cross(c)
    \/ \E w \in Worker : (WorkerStep(w) \/ FailJob(w)) /\ UNCHANGED crossed
    \/ (Silence \/ Notice \/ MarkStalled \/ Restart) /\ UNCHANGED crossed

ClientsSpec == ClientsInit /\ [][ClientsNext]_<<vars, crossed>> /\ Watched

-----------------------------------------------------------------------------
(* Properties                                                               *)

\* "The server must not show running for ever": also when a generation hangs
\* and handlers cross.
RunningEnds == listed /\ job.status = "running" ~> ~(listed /\ job.status = "running")

\* Until handlers have crossed, a second thread on the run directory of a job
\* needs a stalled mark given to a thread that was alive.
OneThreadPerStall == crossed \/ Cardinality(Live) <= 1 + stalls

\* What the job pages show as work in progress.
InProgress == {"queued", "running"}

\* Until handlers have crossed, a job that is shown as queued or running is in
\* the hands of a thread, or of the handler that is about to start one.
ActiveIsWorkedOn ==
    ~crossed /\ listed /\ job.status \in InProgress =>
        Live # {} \/ \E c \in Client : client[c] \in {"start", "spawnNode"}

\* When no handler and no thread hangs and handlers do not cross, a job ends up
\* in a status that a user can act on.
JobSettles == NothingHangs => <>[](crossed \/ ~listed \/ job.status \notin InProgress)
=============================================================================
