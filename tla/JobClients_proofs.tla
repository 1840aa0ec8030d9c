-------------------------- MODULE JobClients_proofs --------------------------
(***************************************************************************)
(* The type invariant and the safety properties of JobStore, and what the  *)
(* clients of JobClients can rely on until handlers cross, for any number  *)
(* of handlers, threads, control callbacks, retries and restarts.          *)
(***************************************************************************)
EXTENDS JobClients, FiniteSetTheorems, TLAPS

\* A thread inside its generation has a control callback ahead.
CallbackAhead == \A w \in Worker : worker[w] \in {"generate", "tick"} => left[w] # 0

\* Nobody holds a job that was never created.
NoneBefore ==
    job.status = "none" =>
        /\ ~listed /\ told = {}
        /\ \A c \in Client : client[c] = "free"
        /\ \A w \in Worker : worker[w] = "free"

\* While threads are asked to stop, the flag that they check says so.
FlagStands == told # {} => job.cancel

JobInvariant ==
    /\ TypeOK /\ CallbackAhead
    /\ FileFollowsJob
    /\ NoneBefore /\ FlagStands /\ CancelStops

\* A job store without jobs satisfies the inductive invariant.
LEMMA InitInvariant == Init => JobInvariant
<1> SUFFICES ASSUME Init PROVE JobInvariant
  OBVIOUS
<1> USE JobAssumption DEF Init, NoJob
<1>1. TypeOK
  <2>1. job \in [status : Status, cancel : BOOLEAN, fresh : BOOLEAN]
    BY DEF Status
  <2>2. left \in [Worker -> 0..Stages] /\ retries \in 0..MaxRetries /\ restarts \in 0..MaxRestarts
    OBVIOUS
  <2> QED
    BY <2>1, <2>2 DEF TypeOK
<1>2. CallbackAhead /\ NoneBefore /\ FlagStands
  BY DEF CallbackAhead, NoneBefore, FlagStands
<1>3. FileFollowsJob /\ CancelStops
  BY DEF FileFollowsJob, CancelStops
<1> QED
  BY <1>1, <1>2, <1>3 DEF JobInvariant

\* Every step of handlers, threads, watchdog and server keeps it.
LEMMA StepInvariant == JobInvariant /\ [Next]_vars => JobInvariant'
<1> SUFFICES ASSUME JobInvariant, [Next]_vars PROVE JobInvariant'
  OBVIOUS
<1> USE JobAssumption DEF JobInvariant, TypeOK, Status, CallbackAhead, NoneBefore, FlagStands, CancelStops,
      FileFollowsJob, Stored, Update, SetStatus, Heartbeat, PastLastCheck, Live, WorkerTo, ClientTo,
      handlers, threads, counters
<1>1. ASSUME NEW c \in Client, Create(c) PROVE JobInvariant'
  BY <1>1 DEF Create
<1>2. ASSUME NEW c \in Client, StartNothing(c) PROVE JobInvariant'
  BY <1>2 DEF StartNothing
<1>3. ASSUME NEW c \in Client, StartCancelled(c) PROVE JobInvariant'
  BY <1>3 DEF StartCancelled
<1>4. ASSUME NEW c \in Client, StartThread(c) PROVE JobInvariant'
  BY <1>4 DEF StartThread, Spawn
<1>5. ASSUME NEW c \in Client, DropStart(c) PROVE JobInvariant'
  BY <1>5 DEF DropStart
<1>6. ASSUME NEW c \in Client, CancelQueued(c) PROVE JobInvariant'
  BY <1>6 DEF CancelQueued
<1>7. ASSUME NEW c \in Client, CancelRunning(c) PROVE JobInvariant'
  BY <1>7 DEF CancelRunning
<1>8. ASSUME NEW c \in Client, Retry(c) PROVE JobInvariant'
  BY <1>8 DEF Retry
<1>9. ASSUME NEW c \in Client, RetryNode(c) PROVE JobInvariant'
  BY <1>9 DEF RetryNode
<1>10. ASSUME NEW c \in Client, SpawnNode(c) PROVE JobInvariant'
  BY <1>10 DEF SpawnNode, Spawn
<1>11. ASSUME NEW c \in Client, Hide(c) PROVE JobInvariant'
  BY <1>11 DEF Hide
<1>12. ASSUME NEW c \in Client, Delete(c) PROVE JobInvariant'
  BY <1>12 DEF Delete
<1>13. ASSUME NEW c \in Client, NEW d \in {"hide", "cancelQueued", "cancelRunning"}, Decide(c, d) PROVE JobInvariant'
  BY <1>13 DEF Decide
<1>14. ASSUME NEW c \in Client, NEW d \in {"retry", "retryNode"}, DecideRetry(c, d) PROVE JobInvariant'
  BY <1>14 DEF DecideRetry
<1>15. ASSUME NEW w \in Worker, Begin(w) PROVE JobInvariant'
  BY <1>15 DEF Begin, Checked, Goes
<1>16. ASSUME NEW w \in Worker, MarkRunning(w) PROVE JobInvariant'
  BY <1>16 DEF MarkRunning, Updates
<1>17. ASSUME NEW w \in Worker, Check(w) PROVE JobInvariant'
  BY <1>17 DEF Check, Checked, Goes
<1>18. ASSUME NEW w \in Worker, NodeBegin(w) PROVE JobInvariant'
  BY <1>18 DEF NodeBegin, Goes
<1>19. ASSUME NEW w \in Worker, Beat(w) PROVE JobInvariant'
  <2>1. TypeOK'
    <3>1. left' \in [Worker -> 0..Stages]
      BY <1>19 DEF Beat
    <3>2. job' \in [status : Status, cancel : BOOLEAN, fresh : BOOLEAN]
      BY <1>19 DEF Beat
    <3> QED
      BY <1>19, <3>1, <3>2 DEF Beat
  <2>2. CallbackAhead'
    BY <1>19 DEF Beat
  <2>3. FileFollowsJob'
    BY <1>19 DEF Beat
  <2>4. NoneBefore'
    BY <1>19 DEF Beat
  <2>5. FlagStands'
    BY <1>19 DEF Beat
  <2>6. CancelStops'
    BY <1>19 DEF Beat
  <2> QED
    BY <2>1, <2>2, <2>3, <2>4, <2>5, <2>6
<1>20. ASSUME NEW w \in Worker, Control(w) PROVE JobInvariant'
  BY <1>20 DEF Control, Goes
<1>21. ASSUME NEW w \in Worker, Tick(w) PROVE JobInvariant'
  <2>1. TypeOK'
    <3>1. left[w] \in 1..Stages
      BY <1>21 DEF Tick
    <3>2. left' \in [Worker -> 0..Stages]
      BY <1>21, <3>1 DEF Tick
    <3>3. worker' \in [Worker -> {"free", "begin", "nodeBegin", "mark", "check", "beat", "generate", "tick",
                              "generated", "finalBeat", "last", "stop", "drop"}]
      BY <1>21 DEF Tick
    <3> QED
      BY <1>21, <3>2, <3>3 DEF Tick
  <2>2. CallbackAhead'
    BY <1>21 DEF Tick, LastStage
  <2>3. FileFollowsJob'
    BY <1>21 DEF Tick, LastStage
  <2>4. NoneBefore'
    BY <1>21 DEF Tick, LastStage
  <2>5. FlagStands'
    BY <1>21 DEF Tick, LastStage
  <2>6. CancelStops'
    BY <1>21 DEF Tick, LastStage
  <2> QED
    BY <2>1, <2>2, <2>3, <2>4, <2>5, <2>6
<1>22. ASSUME NEW w \in Worker, FinalCheck(w) PROVE JobInvariant'
  BY <1>22 DEF FinalCheck, Checked, Goes
<1>23. ASSUME NEW w \in Worker, FinalBeat(w) PROVE JobInvariant'
  BY <1>23 DEF FinalBeat, Updates
<1>24. ASSUME NEW w \in Worker, Complete(w) PROVE JobInvariant'
  BY <1>24 DEF Complete, Updates
<1>25. ASSUME NEW w \in Worker, Stop(w) PROVE JobInvariant'
  BY <1>25 DEF Stop, Goes
<1>26. ASSUME NEW w \in Worker, Drop(w) PROVE JobInvariant'
  BY <1>26 DEF Drop, Updates
<1>27. ASSUME NEW w \in Worker, FailJob(w) PROVE JobInvariant'
  BY <1>27 DEF FailJob, Updates
<1>28. ASSUME Silence PROVE JobInvariant'
  BY <1>28 DEF Silence
<1>29. ASSUME Notice PROVE JobInvariant'
  BY <1>29 DEF Notice
<1>30. ASSUME MarkStalled PROVE JobInvariant'
  BY <1>30 DEF MarkStalled
<1>31. ASSUME Restart PROVE JobInvariant'
  <2>1. TypeOK'
    BY <1>31 DEF Restart, NoJob
  <2>2. CallbackAhead'
    BY <1>31 DEF Restart, NoJob
  <2>3. FileFollowsJob'
    BY <1>31 DEF Restart, NoJob
  <2>4. NoneBefore'
    BY <1>31 DEF Restart, NoJob
  <2>5. FlagStands'
    BY <1>31 DEF Restart, NoJob
  <2>6. CancelStops'
    BY <1>31 DEF Restart, NoJob
  <2> QED
    BY <2>1, <2>2, <2>3, <2>4, <2>5, <2>6
<1>32. ASSUME UNCHANGED vars PROVE JobInvariant'
  BY <1>32 DEF vars
<1>33. ASSUME NEW c \in Client, ClientNext(c) PROVE JobInvariant'
  BY <1>33, <1>1, <1>2, <1>3, <1>4, <1>5, <1>6, <1>7, <1>8, <1>9, <1>10, <1>11, <1>12, <1>13, <1>14 DEF ClientNext, ClientStep
<1>34. ASSUME NEW w \in Worker, WorkerStep(w) \/ FailJob(w) PROVE JobInvariant'
  BY <1>34, <1>15, <1>16, <1>17, <1>18, <1>19, <1>20, <1>21, <1>22, <1>23, <1>24, <1>25, <1>26, <1>27 DEF WorkerStep
<1> QED
  BY <1>33, <1>34, <1>28, <1>29, <1>30, <1>31, <1>32 DEF Next

\* The invariant holds of every reachable state.
THEOREM InvariantHolds == Spec => []JobInvariant
<1> QED
  BY InitInvariant, StepInvariant, PTL DEF Spec

\* The variables stay in their types.
THEOREM TypeCorrect == Spec => []TypeOK
<1>1. JobInvariant => TypeOK
  BY DEF JobInvariant
<1> QED
  BY <1>1, InvariantHolds, PTL

\* _update_job, delete_job and load_existing_jobs keep job-state.json equal to
\* the job in memory, whatever is interleaved.
THEOREM FileFollows == Spec => []FileFollowsJob
<1>1. JobInvariant => FileFollowsJob
  BY DEF JobInvariant
<1> QED
  BY <1>1, InvariantHolds, PTL

\* A thread with a check ahead when cancel_job is answered never gets past its
\* last check: between the checks of _run_job nothing resets cancel_requested
\* but a retry.
THEOREM CancelIsObeyed == Spec => []CancelStops
<1>1. JobInvariant => CancelStops
  BY DEF JobInvariant
<1> QED
  BY <1>1, InvariantHolds, PTL

-----------------------------------------------------------------------------
(* Handlers that take turns                                                 *)

\* The statuses that a thread, or the watchdog, leaves a job in for a retry.
Ended == Retryable \cup {"completed"}

\* What a handler has decided when a thread is to come of it.
Starting == {"retry", "retryNode", "start", "spawnNode"}

OneHandler == \A c, d \in Client : client[c] # "free" /\ client[d] # "free" => c = d

\* The job that a handler is at work on is listed, and nobody cancels it before
\* it is started.
HandlerKeeps ==
    \A c \in Client :
        /\ client[c] # "free" => listed
        /\ client[c] = "start" => ~job.cancel

\* Every live thread but one is paid for by a stalled mark; all of them are when
\* the job has ended or a thread is about to be started, and a mark is left
\* over when both are so.
PaidFor ==
    /\ Cardinality(Live) <= 1 + stalls
    /\ job.status \in Ended \/ (\E c \in Client : client[c] \in Starting) => Cardinality(Live) <= stalls
    /\ job.status \in Ended /\ (\E c \in Client : client[c] = "spawnNode") => Cardinality(Live) < stalls

\* A queued job waits for its thread or for start_job, a running one is run.
InHands ==
    /\ listed /\ job.status = "queued" => Live # {} \/ \E c \in Client : client[c] = "start"
    /\ listed /\ job.status = "running" => Live # {} \/ \E c \in Client : client[c] = "spawnNode"

TakeTurns == OneHandler /\ HandlerKeeps /\ PaidFor /\ InHands

ClientsInvariant == JobInvariant /\ crossed \in BOOLEAN /\ (crossed \/ TakeTurns)

Alone(c) == \A d \in Client \ {c} : client[d] = "free"

\* The live threads can be counted.
LEMMA LiveCounts ==
    ASSUME TypeOK
    PROVE  /\ IsFiniteSet(Live) /\ Cardinality(Live) \in Nat
           /\ Cardinality(Live) = 0 <=> Live = {}
<1>1. IsFiniteSet(Live)
  BY JobAssumption, FS_Subset DEF Live
<1> QED
  BY <1>1, FS_CardinalityType, FS_EmptySet

\* A thread that goes on keeps the number of live threads.
LEMMA LiveStays ==
    ASSUME TypeOK, NEW w \in Worker, NEW l, worker[w] # "free", l # "free", WorkerTo(w, l)
    PROVE  Live' = Live /\ w \in Live
BY DEF TypeOK, Live, WorkerTo

\* A thread that ends leaves one live thread fewer.
LEMMA LiveEnds ==
    ASSUME TypeOK, NEW w \in Worker, worker[w] # "free", WorkerTo(w, "free")
    PROVE  w \in Live /\ Live' = Live \ {w} /\ Cardinality(Live') = Cardinality(Live) - 1
<1>1. w \in Live /\ Live' = Live \ {w}
  BY DEF TypeOK, Live, WorkerTo
<1> QED
  BY <1>1, LiveCounts, FS_RemoveElement

\* A thread that starts adds one.
LEMMA LiveBegins ==
    ASSUME TypeOK, NEW w \in Worker, NEW l, l # "free", Spawn(w, l)
    PROVE  w \in Live' /\ Cardinality(Live') = Cardinality(Live) + 1
<1>1. w \notin Live /\ Live' = Live \cup {w}
  BY DEF TypeOK, Live, Spawn, WorkerTo
<1> QED
  BY <1>1, LiveCounts, FS_AddElement

\* A handler that acts while the others are idle keeps the turns.
LEMMA ClientTakesTurn ==
    ASSUME JobInvariant, TakeTurns, NEW c \in Client, ClientNext(c), Alone(c)
    PROVE  TakeTurns'
<1> DEFINE n == Cardinality(Live)
<1>0. n \in Nat /\ stalls \in Nat /\ (n = 0 <=> Live = {})
  BY LiveCounts DEF JobInvariant, TypeOK
<1> HIDE DEF n
<1> USE DEF Alone, TakeTurns, OneHandler, HandlerKeeps, Starting, Ended, Retryable, ClientTo, Update, SetStatus,
      handlers, threads, counters
<1>a. TypeOK
  BY DEF JobInvariant
<1>n. n = Cardinality(Live)
  BY DEF n
<1>1. CASE Create(c)
  <2>1. Live = {} /\ Live' = Live
    BY <1>1 DEF Create, JobInvariant, NoneBefore, Live
  <2> QED
    BY <2>1, <1>1, <1>0, <1>a, <1>n DEF Create, PaidFor, InHands, TypeOK
<1>2. CASE StartNothing(c)
  <2>1. Live' = Live
    BY <1>2 DEF StartNothing, Live
  <2>2. OneHandler' /\ HandlerKeeps'
    BY <1>2, <1>a DEF StartNothing, TypeOK
  <2>3. PaidFor'
    BY <1>2, <2>1, <1>0, <1>a, <1>n DEF StartNothing, TypeOK, PaidFor
  <2>4. InHands'
    BY <1>2, <2>1, <1>a DEF StartNothing, TypeOK, InHands
  <2> QED
    BY <2>2, <2>3, <2>4
<1>3. CASE StartCancelled(c)
  <2>1. Live' = Live
    BY <1>3 DEF StartCancelled, Live
  <2>2. OneHandler' /\ HandlerKeeps'
    BY <1>3, <1>a DEF StartCancelled, TypeOK
  <2>3. PaidFor'
    BY <1>3, <2>1, <1>0, <1>a, <1>n DEF StartCancelled, TypeOK, PaidFor
  <2>4. InHands'
    BY <1>3, <2>1, <1>a DEF StartCancelled, TypeOK, InHands
  <2> QED
    BY <2>2, <2>3, <2>4
<1>4. CASE DropStart(c)
  <2>1. Live' = Live
    BY <1>4 DEF DropStart, Live
  <2>2. OneHandler' /\ HandlerKeeps'
    BY <1>4, <1>a DEF DropStart, TypeOK
  <2>3. PaidFor'
    BY <1>4, <2>1, <1>0, <1>a, <1>n DEF DropStart, TypeOK, PaidFor
  <2>4. InHands'
    BY <1>4, <2>1, <1>a DEF DropStart, TypeOK, InHands
  <2> QED
    BY <2>2, <2>3, <2>4
<1>5. CASE CancelQueued(c)
  <2>1. Live' = Live
    BY <1>5 DEF CancelQueued, Live
  <2>2. OneHandler' /\ HandlerKeeps'
    BY <1>5, <1>a DEF CancelQueued, TypeOK
  <2>3. PaidFor'
    BY <1>5, <2>1, <1>0, <1>a, <1>n DEF CancelQueued, TypeOK, PaidFor
  <2>4. InHands'
    BY <1>5, <2>1, <1>a DEF CancelQueued, TypeOK, InHands
  <2> QED
    BY <2>2, <2>3, <2>4
<1>6. CASE CancelRunning(c)
  <2>1. Live' = Live
    BY <1>6 DEF CancelRunning, Live
  <2>2. OneHandler' /\ HandlerKeeps'
    BY <1>6, <1>a DEF CancelRunning, TypeOK
  <2>3. PaidFor'
    BY <1>6, <2>1, <1>0, <1>a, <1>n DEF CancelRunning, TypeOK, PaidFor
  <2>4. InHands'
    BY <1>6, <2>1, <1>a DEF CancelRunning, TypeOK, InHands
  <2> QED
    BY <2>2, <2>3, <2>4
<1>7. CASE Retry(c)
  <2>1. Live' = Live
    BY <1>7 DEF Retry, Live
  <2>2. OneHandler' /\ HandlerKeeps'
    BY <1>7, <1>a DEF Retry, TypeOK
  <2>3. PaidFor'
    BY <1>7, <2>1, <1>0, <1>a, <1>n DEF Retry, TypeOK, PaidFor
  <2>4. InHands'
    BY <1>7, <2>1, <1>a DEF Retry, TypeOK, InHands
  <2> QED
    BY <2>2, <2>3, <2>4
<1>8. CASE RetryNode(c)
  <2>1. Live' = Live
    BY <1>8 DEF RetryNode, Live
  <2>2. OneHandler' /\ HandlerKeeps'
    BY <1>8, <1>a DEF RetryNode, TypeOK
  <2>3. PaidFor'
    BY <1>8, <2>1, <1>0, <1>a, <1>n DEF RetryNode, TypeOK, PaidFor
  <2>4. InHands'
    BY <1>8, <2>1, <1>a DEF RetryNode, TypeOK, InHands
  <2> QED
    BY <2>2, <2>3, <2>4
<1>9. CASE Hide(c)
  <2>1. Live' = Live
    BY <1>9 DEF Hide, Live
  <2>2. OneHandler' /\ HandlerKeeps'
    BY <1>9, <1>a DEF Hide, TypeOK
  <2>3. PaidFor'
    BY <1>9, <2>1, <1>0, <1>a, <1>n DEF Hide, TypeOK, PaidFor
  <2>4. InHands'
    BY <1>9, <2>1, <1>a DEF Hide, TypeOK, InHands
  <2> QED
    BY <2>2, <2>3, <2>4
<1>10. CASE Delete(c)
  <2>1. Live' = Live
    BY <1>10 DEF Delete, Live
  <2>2. OneHandler' /\ HandlerKeeps'
    BY <1>10, <1>a DEF Delete, TypeOK
  <2>3. PaidFor'
    BY <1>10, <2>1, <1>0, <1>a, <1>n DEF Delete, TypeOK, PaidFor
  <2>4. InHands'
    BY <1>10, <2>1, <1>a DEF Delete, TypeOK, InHands
  <2> QED
    BY <2>2, <2>3, <2>4
<1>11. ASSUME NEW d \in {"hide", "cancelQueued", "cancelRunning"}, Decide(c, d) PROVE TakeTurns'
  <2>1. Live' = Live
    BY <1>11 DEF Decide, Live
  <2>2. OneHandler' /\ HandlerKeeps'
    BY <1>11, <1>a DEF Decide, TypeOK
  <2>3. PaidFor'
    BY <1>11, <2>1, <1>0, <1>a, <1>n DEF Decide, TypeOK, PaidFor
  <2>4. InHands'
    BY <1>11, <2>1, <1>a DEF Decide, TypeOK, InHands
  <2> QED
    BY <2>2, <2>3, <2>4
<1>12. ASSUME NEW d \in {"retry", "retryNode"}, DecideRetry(c, d) PROVE TakeTurns'
  <2>1. Live' = Live
    BY <1>12 DEF DecideRetry, Live
  <2>2. OneHandler' /\ HandlerKeeps'
    BY <1>12, <1>a DEF DecideRetry, TypeOK
  <2>3. PaidFor'
    BY <1>12, <2>1, <1>0, <1>a, <1>n DEF DecideRetry, TypeOK, PaidFor
  <2>4. InHands'
    BY <1>12, <2>1, <1>a DEF DecideRetry, TypeOK, InHands
  <2> QED
    BY <2>2, <2>3, <2>4
<1>13. CASE StartThread(c)
  <2>1. PICK w \in Worker : Spawn(w, "begin")
    BY <1>13 DEF StartThread
  <2>2. w \in Live' /\ Cardinality(Live') = n + 1
    BY <2>1, <1>a, <1>n, LiveBegins
  <2>3. OneHandler' /\ HandlerKeeps'
    BY <1>13, <1>a DEF StartThread, TypeOK
  <2>4. PaidFor'
    BY <1>13, <2>2, <1>0, <1>a, <1>n DEF StartThread, TypeOK, PaidFor
  <2>5. InHands'
    BY <1>13, <2>2 DEF StartThread, InHands
  <2> QED
    BY <2>3, <2>4, <2>5
<1>14. CASE SpawnNode(c)
  <2>1. PICK w \in Worker : Spawn(w, "nodeBegin")
    BY <1>14 DEF SpawnNode
  <2>2. w \in Live' /\ Cardinality(Live') = n + 1
    BY <2>1, <1>a, <1>n, LiveBegins
  <2>3. OneHandler' /\ HandlerKeeps'
    BY <1>14, <1>a DEF SpawnNode, TypeOK
  <2>4. PaidFor'
    BY <1>14, <2>2, <1>0, <1>a, <1>n DEF SpawnNode, TypeOK, PaidFor
  <2>5. InHands'
    BY <1>14, <2>2 DEF SpawnNode, InHands
  <2> QED
    BY <2>3, <2>4, <2>5
<1> QED
  BY <1>1, <1>2, <1>3, <1>4, <1>5, <1>6, <1>7, <1>8, <1>9, <1>10, <1>11, <1>12, <1>13, <1>14 DEF ClientNext, ClientStep

\* A step of a thread, which may end it, keeps the turns.
LEMMA ThreadKeepsTurns ==
    ASSUME JobInvariant, TakeTurns, NEW w \in Worker, WorkerStep(w) \/ FailJob(w)
    PROVE  TakeTurns'
<1> DEFINE n == Cardinality(Live)
<1>0. n \in Nat /\ stalls \in Nat /\ (n = 0 <=> Live = {})
  BY LiveCounts DEF JobInvariant, TypeOK
<1>n. n = Cardinality(Live)
  OBVIOUS
<1> HIDE DEF n
<1>a. TypeOK
  BY DEF JobInvariant, TypeOK
<1>b. client' = client /\ stalls' = stalls /\ worker[w] # "free"
  BY DEF WorkerStep, Begin, Checked, Goes, Updates, MarkRunning, Check, NodeBegin, Beat, Control, Tick, FinalCheck,
     FinalBeat, Complete, Stop, Drop, FailJob, handlers
\* It goes on, and the status stays or becomes running ...
<1>c. ASSUME NEW l, l # "free", WorkerTo(w, l), listed => listed', job'.cancel = job.cancel,
             job'.status \in {job.status, "running"}
      PROVE  TakeTurns'
  <2>1. Live' = Live /\ w \in Live
    BY <1>a, <1>b, <1>c, LiveStays
  <2> QED
    BY <2>1, <1>0, <1>b, <1>c, <1>n DEF TakeTurns, OneHandler, HandlerKeeps, PaidFor, InHands, Ended, Retryable
\* ... or it ends and, unless the job was deleted, leaves it ended or cancelled.
<1>d. ASSUME WorkerTo(w, "free"),
             \/ ~listed' /\ ~listed /\ job' = job
             \/ job'.status \in {"completed", "failed", "cancelled"} /\ listed' /\ job'.cancel = job.cancel
      PROVE  TakeTurns'
  <2>1. w \in Live /\ Cardinality(Live') = n - 1 /\ Cardinality(Live') \in Nat
    BY <1>a, <1>b, <1>d, <1>n, LiveEnds, LiveCounts, <1>0, FS_CardinalityType
  <2>2. OneHandler' /\ HandlerKeeps'
    BY <1>b, <1>d DEF TakeTurns, OneHandler, HandlerKeeps
  <2>3. PaidFor'
    BY <2>1, <1>0, <1>b, <1>d, <1>n DEF TakeTurns, PaidFor, Ended, Retryable, Starting
  <2>4. InHands'
    BY <1>d DEF TakeTurns, InHands
  <2> QED
    BY <2>2, <2>3, <2>4 DEF TakeTurns
<1> USE <1>a, <1>c, <1>d DEF TypeOK, WorkerTo, Goes, Updates, Checked, Update, SetStatus, Heartbeat
<1>1. CASE Begin(w)
  BY <1>1 DEF Begin
<1>2. CASE MarkRunning(w)
  BY <1>2 DEF MarkRunning
<1>3. CASE Check(w)
  BY <1>3 DEF Check
<1>4. CASE NodeBegin(w)
  BY <1>4 DEF NodeBegin
<1>5. CASE Beat(w)
  BY <1>5 DEF Beat
<1>6. CASE Control(w)
  BY <1>6 DEF Control
<1>7. CASE Tick(w)
  BY <1>7 DEF Tick
<1>8. CASE FinalCheck(w)
  BY <1>8 DEF FinalCheck
<1>9. CASE FinalBeat(w)
  BY <1>9 DEF FinalBeat
<1>10. CASE Complete(w)
  BY <1>10 DEF Complete
<1>11. CASE Stop(w)
  BY <1>11 DEF Stop
<1>12. CASE Drop(w)
  BY <1>12 DEF Drop
<1>13. CASE FailJob(w)
  BY <1>13 DEF FailJob
<1> QED
  BY <1>1, <1>2, <1>3, <1>4, <1>5, <1>6, <1>7, <1>8, <1>9, <1>10, <1>11, <1>12, <1>13 DEF WorkerStep

\* The watchdog and a restart of the server keep the turns.
LEMMA ServerKeepsTurns ==
    ASSUME JobInvariant, TakeTurns, Silence \/ Notice \/ MarkStalled \/ Restart
    PROVE  TakeTurns'
<1>1. TypeOK /\ Cardinality(Live) \in Nat
  BY LiveCounts DEF JobInvariant
<1> USE <1>1 DEF TakeTurns, OneHandler, HandlerKeeps, PaidFor, InHands, Ended, Retryable, Starting, Live, TypeOK,
      handlers, threads, counters
<1>2. CASE Silence
  BY <1>2 DEF Silence
<1>3. CASE Notice
  BY <1>3 DEF Notice
<1>4. CASE MarkStalled
  BY <1>4 DEF MarkStalled, SetStatus, Update
<1>5. CASE Restart
  <2>1. Live' = {} /\ Cardinality(Live') = 0 /\ stalls' = 0 /\ \A c \in Client : client'[c] = "free"
    BY <1>5, FS_EmptySet DEF Restart
  <2>2. listed' => job'.status \notin {"queued", "running"}
    BY <1>5 DEF Restart, Active
  <2> QED
    BY <2>1, <2>2
<1> QED
  BY <1>2, <1>3, <1>4, <1>5

\* Every step of the store with its clients keeps the invariant: a handler that
\* acts while another one is at work has crossed.
LEMMA StepClients == ClientsInvariant /\ [ClientsNext]_<<vars, crossed>> => ClientsInvariant'
<1> SUFFICES ASSUME ClientsInvariant, [ClientsNext]_<<vars, crossed>> PROVE ClientsInvariant'
  OBVIOUS
<1>1. [Next]_vars
  BY DEF ClientsNext, Next
<1>2. JobInvariant'
  BY <1>1, StepInvariant DEF ClientsInvariant
<1>3. CASE \E c \in Client : ClientNext(c) /\ Cross(c)
  <2>1. PICK c \in Client : ClientNext(c) /\ Cross(c)
    BY <1>3
  <2>2. CASE crossed'
    BY <1>2, <2>1, <2>2 DEF ClientsInvariant, Cross
  <2>3. CASE ~crossed'
    <3>1. ~crossed /\ Alone(c)
      BY <2>1, <2>3 DEF Cross, Alone
    <3> QED
      BY <1>2, <2>1, <3>1, ClientTakesTurn DEF ClientsInvariant, Cross
  <2> QED
    BY <2>2, <2>3
<1>4. CASE \E w \in Worker : (WorkerStep(w) \/ FailJob(w)) /\ UNCHANGED crossed
  BY <1>2, <1>4, ThreadKeepsTurns DEF ClientsInvariant
<1>5. CASE (Silence \/ Notice \/ MarkStalled \/ Restart) /\ UNCHANGED crossed
  BY <1>2, <1>5, ServerKeepsTurns DEF ClientsInvariant
<1>6. CASE UNCHANGED <<vars, crossed>>
  <2>1. TakeTurns => TakeTurns'
    BY <1>6 DEF vars, threads, handlers, counters, TakeTurns, OneHandler, HandlerKeeps, PaidFor, InHands, Live
  <2> QED
    BY <1>2, <1>6, <2>1 DEF ClientsInvariant
<1> QED
  BY <1>3, <1>4, <1>5, <1>6 DEF ClientsNext

\* A store without jobs has no handler at work and no thread.
LEMMA InitClients == ClientsInit => ClientsInvariant
<1> SUFFICES ASSUME ClientsInit PROVE ClientsInvariant
  OBVIOUS
<1>1. JobInvariant
  BY InitInvariant DEF ClientsInit
<1>2. Live = {} /\ Cardinality(Live) = 0
  BY FS_EmptySet DEF ClientsInit, Init, Live
<1>3. job.status = "none" /\ stalls = 0 /\ crossed = FALSE /\ \A c \in Client : client[c] = "free"
  BY DEF ClientsInit, Init, NoJob
<1>4. OneHandler /\ HandlerKeeps /\ InHands
  BY <1>3 DEF OneHandler, HandlerKeeps, InHands
<1>5. PaidFor
  BY <1>2, <1>3 DEF PaidFor, Ended, Retryable
<1> QED
  BY <1>1, <1>3, <1>4, <1>5 DEF ClientsInvariant, TakeTurns

\* The invariant holds of every reachable state.
THEOREM ClientsInvariantHolds == ClientsSpec => []ClientsInvariant
<1> QED
  BY InitClients, StepClients, PTL DEF ClientsSpec

\* retry_job, start_job and the watchdog never have more threads on the run
\* directory than one and one for every stalled mark, until handlers cross.
THEOREM ThreadsArePaidFor == ClientsSpec => []OneThreadPerStall
<1>1. ClientsInvariant => OneThreadPerStall
  BY DEF ClientsInvariant, TakeTurns, PaidFor, OneThreadPerStall
<1> QED
  BY <1>1, ClientsInvariantHolds, PTL

\* A job that the pages show as queued or running has a thread, or a handler
\* that starts one, also after a restart, until handlers cross.
THEOREM ActiveJobsAreWorkedOn == ClientsSpec => []ActiveIsWorkedOn
<1>1. ClientsInvariant => ActiveIsWorkedOn
  BY DEF ClientsInvariant, TakeTurns, InHands, ActiveIsWorkedOn, InProgress
<1> QED
  BY <1>1, ClientsInvariantHolds, PTL
=============================================================================
