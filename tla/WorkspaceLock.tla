--------------------------- MODULE WorkspaceLock ---------------------------
(***************************************************************************)
(* The exclusive workspace write lock of                                   *)
(* song_agent/platform/persistence/locks.py: a lock file that processes    *)
(* create with O_CREAT|O_EXCL, under one re-entrant mutex per process.     *)
(* One action is one file operation or one mutex operation, so that every  *)
(* window between reading the lock file and unlinking it is a window of    *)
(* the model.                                                              *)
(***************************************************************************)
EXTENDS Naturals

CONSTANTS Proc,      \* processes, named by their pid
          Thread,    \* threads of all processes
          procOf,    \* the process of each thread
          Token,     \* uuid4 tokens; one is taken only while nobody knows it
          None,      \* no process, no thread, no token
          MaxDepth,  \* bound: how often one thread acquires the RLock
          Faults     \* what the environment and the operator may do

FaultKinds == {"crash", "pidReuse", "writeFails", "unlinkFails", "recover", "force"}

ASSUME LockAssumption ==
    /\ procOf \in [Thread -> Proc]
    /\ None \notin Proc \cup Thread \cup Token
    /\ MaxDepth \in Nat \ {0}
    /\ Faults \subseteq FaultKinds

VARIABLES
    lockFile,  \* the lock file: who created it and whether its JSON is there
    alive,     \* which pids _pid_exists finds
    mutex,     \* per process: the thread that owns the RLock, or None
    holds,     \* per process: how often that thread has acquired the RLock
    depth,     \* per process: _ProcessLockState.depth
    token,     \* per process: the token of the attempt or hold in progress
    pc,        \* per thread: where it is in acquire, release or recover
    mode,      \* per thread: which call it is in
    seen,      \* per thread: the lock document it judged stale
    stolen     \* history: a stale removal deleted a lock it had not judged

vars == <<lockFile, alive, mutex, holds, depth, token, pc, mode, seen, stolen>>

NoFile == [pid |-> None, token |-> None, written |-> FALSE]

LockFile == [pid : Proc \cup {None}, token : Token \cup {None}, written : BOOLEAN]

\* Steps of acquire and release that run with the process mutex held.
Inside == {"loop", "opened", "busy", "abandon", "discard", "held", "drop"}

Locations == Inside \cup {"idle", "wait", "recover", "stale", "unlink"}

TypeOK ==
    /\ lockFile \in LockFile
    /\ alive \in [Proc -> BOOLEAN]
    /\ mutex \in [Proc -> Thread \cup {None}]
    /\ holds \in [Proc -> Nat]
    /\ depth \in [Proc -> Nat]
    /\ token \in [Proc -> Token \cup {None}]
    /\ pc \in [Thread -> Locations]
    /\ mode \in [Thread -> {"acquire", "recover", "force"}]
    /\ seen \in [Thread -> LockFile]
    /\ stolen \in BOOLEAN

Init ==
    /\ lockFile = NoFile
    /\ alive = [p \in Proc |-> TRUE]
    /\ mutex = [p \in Proc |-> None]
    /\ holds = [p \in Proc |-> 0]
    /\ depth = [p \in Proc |-> 0]
    /\ token = [p \in Proc |-> None]
    /\ pc = [t \in Thread |-> "idle"]
    /\ mode = [t \in Thread |-> "acquire"]
    /\ seen = [t \in Thread |-> NoFile]
    /\ stolen = FALSE

-----------------------------------------------------------------------------
(* Helpers: what the code reads, and the bookkeeping several paths share.   *)

\* _read_lock: the document, or nothing when the file is absent or has no JSON yet.
Readable == lockFile.written

\* Mutant of OwnerGone: the lease alone makes a lock stale.
LeaseExpired == Readable

\* The document names a pid that _pid_exists does not find.
OwnerGone == Readable /\ ~alive[lockFile.pid]

\* Thread t of a live process stands at location l and goes on to location m.
At(t, l) == pc[t] = l /\ alive[procOf[t]]
GoTo(t, m) == pc' = [pc EXCEPT ![t] = m]

\* uuid4().hex: a token that appears nowhere yet.
Unused(k) ==
    /\ lockFile.token # k
    /\ \A p \in Proc : token[p] # k
    /\ \A t \in Thread : seen[t].token # k

\* mutex.release() by the owner, which frees the RLock at its last hold.
ReleaseMutex(p) ==
    /\ holds' = [holds EXCEPT ![p] = @ - 1]
    /\ mutex' = [mutex EXCEPT ![p] = IF holds[p] = 1 THEN None ELSE @]

\* An exception or a release leaves the lock: state cleared, mutex released.
Leave(t) ==
    /\ ReleaseMutex(procOf[t])
    /\ token' = [token EXCEPT ![procOf[t]] = None]
    /\ GoTo(t, "idle")

-----------------------------------------------------------------------------
(* acquire                                                                  *)

Call(t) ==
    /\ At(t, "idle")
    /\ GoTo(t, "wait")
    /\ mode' = [mode EXCEPT ![t] = "acquire"]
    /\ UNCHANGED <<lockFile, alive, mutex, holds, depth, token, seen, stolen>>

\* Mutant of EnterMutex: one RLock per WorkspaceLock object, not per path.
EnterOwnMutex(t) ==
    LET p == procOf[t] IN
    /\ At(t, "wait")
    /\ holds[p] < MaxDepth
    /\ mutex' = [mutex EXCEPT ![p] = t]
    /\ holds' = [holds EXCEPT ![p] = @ + 1]
    /\ GoTo(t, "loop")
    /\ UNCHANGED <<lockFile, alive, depth, token, mode, seen, stolen>>

\* mutex.acquire() returned to a thread that does not hold the lock.
EnterMutex(t) ==
    LET p == procOf[t] IN
    /\ At(t, "wait")
    /\ mutex[p] \in {None, t}
    /\ holds[p] < MaxDepth
    /\ mutex' = [mutex EXCEPT ![p] = t]
    /\ holds' = [holds EXCEPT ![p] = @ + 1]
    /\ GoTo(t, "loop")
    /\ UNCHANGED <<lockFile, alive, depth, token, mode, seen, stolen>>

\* The re-entrant branch: the holder acquires again.
Reenter(t) ==
    LET p == procOf[t] IN
    /\ At(t, "held")
    /\ holds[p] < MaxDepth
    /\ depth' = [depth EXCEPT ![p] = @ + 1]
    /\ holds' = [holds EXCEPT ![p] = @ + 1]
    /\ UNCHANGED <<lockFile, alive, mutex, token, pc, mode, seen, stolen>>

\* Mutant of Create: O_EXCL is missing.
CreateOverExisting(t) ==
    LET p == procOf[t] IN
    /\ At(t, "loop")
    /\ \E k \in Token :
         /\ Unused(k)
         /\ lockFile' = [pid |-> p, token |-> k, written |-> FALSE]
         /\ token' = [token EXCEPT ![p] = k]
    /\ GoTo(t, "opened")
    /\ UNCHANGED <<alive, mutex, holds, depth, mode, seen, stolen>>

\* os.open(O_CREAT | O_EXCL) succeeds: the file exists and is still empty.
Create(t) ==
    LET p == procOf[t] IN
    /\ At(t, "loop")
    /\ lockFile = NoFile
    /\ \E k \in Token :
         /\ Unused(k)
         /\ lockFile' = [pid |-> p, token |-> k, written |-> FALSE]
         /\ token' = [token EXCEPT ![p] = k]
    /\ GoTo(t, "opened")
    /\ UNCHANGED <<alive, mutex, holds, depth, mode, seen, stolen>>

\* os.open raises FileExistsError.
Exists(t) ==
    /\ At(t, "loop")
    /\ lockFile # NoFile
    /\ GoTo(t, "busy")
    /\ UNCHANGED <<lockFile, alive, mutex, holds, depth, token, mode, seen, stolen>>

\* The document names a process that is gone: try to remove it.
JudgeStale(t) ==
    /\ At(t, "busy")
    /\ OwnerGone
    /\ seen' = [seen EXCEPT ![t] = lockFile]
    /\ GoTo(t, "stale")
    /\ UNCHANGED <<lockFile, alive, mutex, holds, depth, token, mode, stolen>>

\* No document, or a live owner: sleep and try again.
Retry(t) ==
    /\ At(t, "busy")
    /\ ~OwnerGone
    /\ GoTo(t, "loop")
    /\ UNCHANGED <<lockFile, alive, mutex, holds, depth, token, mode, seen, stolen>>

\* Mutant of GiveUp: a file without a document is polled without a deadline.
GiveUpOnReadable(t) ==
    /\ At(t, "busy")
    /\ Readable /\ ~OwnerGone
    /\ Leave(t)
    /\ UNCHANGED <<lockFile, alive, depth, mode, seen, stolen>>

\* The same at or after the deadline: WorkspaceLockError.
GiveUp(t) ==
    /\ At(t, "busy")
    /\ ~OwnerGone
    /\ Leave(t)
    /\ UNCHANGED <<lockFile, alive, depth, mode, seen, stolen>>

\* os.write and os.fsync; the descriptor names the file this thread created,
\* which may have been unlinked meanwhile.
Written(t) ==
    IF lockFile.token = token[procOf[t]] THEN [lockFile EXCEPT !.written = TRUE] ELSE lockFile

Write(t) ==
    /\ At(t, "opened")
    /\ lockFile' = Written(t)
    /\ depth' = [depth EXCEPT ![procOf[t]] = 1]
    /\ GoTo(t, "held")
    /\ UNCHANGED <<alive, mutex, holds, token, mode, seen, stolen>>

\* write raises, or fsync does after the bytes are there.
WriteFails(t) ==
    /\ "writeFails" \in Faults
    /\ At(t, "opened")
    /\ lockFile' \in {lockFile, Written(t)}
    /\ GoTo(t, "abandon")
    /\ UNCHANGED <<alive, mutex, holds, depth, token, mode, seen, stolen>>

\* The document this process wrote under its current token.
IsOwn(t) ==
    /\ Readable
    /\ lockFile.token = token[procOf[t]]
    /\ lockFile.pid = procOf[t]

\* After a failed write: unlink what is unreadable or our own, and raise.
Abandon(t) ==
    /\ At(t, "abandon")
    /\ IF ~Readable \/ IsOwn(t)
       THEN GoTo(t, "discard") /\ UNCHANGED <<mutex, holds, token>>
       ELSE Leave(t)
    /\ UNCHANGED <<lockFile, alive, depth, mode, seen, stolen>>

Discard(t) ==
    /\ At(t, "discard")
    /\ lockFile' = NoFile
    /\ Leave(t)
    /\ UNCHANGED <<alive, depth, mode, seen, stolen>>

-----------------------------------------------------------------------------
(* _remove_stale, called by acquire and by recover                          *)

\* recover(force): a document of a live owner is refused unless forced.
CallRecover(t) ==
    /\ At(t, "idle")
    /\ \E m \in {"recover", "force"} \cap Faults : mode' = [mode EXCEPT ![t] = m]
    /\ GoTo(t, "recover")
    /\ UNCHANGED <<lockFile, alive, mutex, holds, depth, token, seen, stolen>>

RecoverRead(t) ==
    /\ At(t, "recover")
    /\ IF Readable /\ (OwnerGone \/ mode[t] = "force")
       THEN GoTo(t, "stale") /\ seen' = [seen EXCEPT ![t] = lockFile]
       ELSE GoTo(t, "idle") /\ UNCHANGED seen
    /\ UNCHANGED <<lockFile, alive, mutex, holds, depth, token, mode, stolen>>

Recovering(t) == mode[t] \in {"recover", "force"}

\* The caller goes on: acquire tries to create again, recover returns.
AfterRemoval(t) ==
    /\ GoTo(t, IF Recovering(t) THEN "idle" ELSE "loop")
    /\ seen' = [seen EXCEPT ![t] = NoFile]

\* The second read returns the judged document of an owner that is still dead.
Confirm(t) ==
    /\ At(t, "stale")
    /\ lockFile = seen[t]
    /\ mode[t] = "force" \/ OwnerGone
    /\ GoTo(t, "unlink")
    /\ UNCHANGED <<lockFile, alive, mutex, holds, depth, token, mode, seen, stolen>>

\* The second read returns something else: _remove_stale returns False.
Changed(t) ==
    /\ At(t, "stale")
    /\ lockFile # seen[t]
    /\ AfterRemoval(t)
    /\ UNCHANGED <<lockFile, alive, mutex, holds, depth, token, mode, stolen>>

\* The judged owner's pid exists again: "Lock owner is still alive."
OwnerIsBack(t) ==
    /\ At(t, "stale")
    /\ lockFile = seen[t]
    /\ mode[t] # "force" /\ ~OwnerGone
    /\ seen' = [seen EXCEPT ![t] = NoFile]
    /\ IF Recovering(t)
       THEN GoTo(t, "idle") /\ UNCHANGED <<mutex, holds, token>>
       ELSE Leave(t)
    /\ UNCHANGED <<lockFile, alive, depth, mode, stolen>>

\* unlink(missing_ok=True) deletes whatever is at the path by now.
Unlink(t) ==
    /\ At(t, "unlink")
    /\ lockFile' = NoFile
    /\ stolen' = (stolen \/ mode[t] = "force" \/ lockFile \notin {NoFile, seen[t]})
    /\ AfterRemoval(t)
    /\ UNCHANGED <<alive, mutex, holds, depth, token, mode>>

-----------------------------------------------------------------------------
(* release                                                                  *)

ReleaseNested(t) ==
    LET p == procOf[t] IN
    /\ At(t, "held")
    /\ depth[p] > 1
    /\ depth' = [depth EXCEPT ![p] = @ - 1]
    /\ ReleaseMutex(p)
    /\ UNCHANGED <<lockFile, alive, token, pc, mode, seen, stolen>>

\* The outermost release reads the file: its own document is unlinked next,
\* anything else is "Workspace lock ownership changed before release."
Release(t) ==
    /\ At(t, "held")
    /\ depth[procOf[t]] = 1
    /\ depth' = [depth EXCEPT ![procOf[t]] = 0]
    /\ IF IsOwn(t)
       THEN GoTo(t, "drop") /\ UNCHANGED <<mutex, holds, token>>
       ELSE Leave(t)
    /\ UNCHANGED <<lockFile, alive, mode, seen, stolen>>

Drop(t) ==
    /\ At(t, "drop")
    /\ lockFile' = NoFile
    /\ Leave(t)
    /\ UNCHANGED <<alive, depth, mode, seen, stolen>>

\* unlink raises: the finally clause clears owner and token, but the
\* mutex.release() after it is skipped.
DropFails(t) ==
    /\ "unlinkFails" \in Faults
    /\ At(t, "drop")
    /\ token' = [token EXCEPT ![procOf[t]] = None]
    /\ GoTo(t, "idle")
    /\ UNCHANGED <<lockFile, alive, mutex, holds, depth, mode, seen, stolen>>

-----------------------------------------------------------------------------
(* Processes                                                                *)

\* The process dies anywhere: its memory is gone, the lock file stays.
Crash(p) ==
    /\ "crash" \in Faults
    /\ alive[p]
    /\ alive' = [alive EXCEPT ![p] = FALSE]
    /\ mutex' = [mutex EXCEPT ![p] = None]
    /\ holds' = [holds EXCEPT ![p] = 0]
    /\ depth' = [depth EXCEPT ![p] = 0]
    /\ token' = [token EXCEPT ![p] = None]
    /\ pc' = [t \in Thread |-> IF procOf[t] = p THEN "idle" ELSE pc[t]]
    /\ seen' = [t \in Thread |-> IF procOf[t] = p THEN NoFile ELSE seen[t]]
    /\ UNCHANGED <<lockFile, mode, stolen>>

\* A later process gets the same pid (usual in a container).
PidReuse(p) ==
    /\ "pidReuse" \in Faults
    /\ ~alive[p]
    /\ alive' = [alive EXCEPT ![p] = TRUE]
    /\ UNCHANGED <<lockFile, mutex, holds, depth, token, pc, mode, seen, stolen>>

-----------------------------------------------------------------------------
AcquireStep(t) ==
    \/ EnterMutex(t) \/ Create(t) \/ Exists(t) \/ JudgeStale(t) \/ Retry(t)
    \/ GiveUp(t) \/ Write(t) \/ WriteFails(t) \/ Abandon(t) \/ Discard(t)

RemovalStep(t) ==
    RecoverRead(t) \/ Confirm(t) \/ Changed(t) \/ OwnerIsBack(t) \/ Unlink(t)

ReleaseStep(t) == ReleaseNested(t) \/ Release(t) \/ Drop(t) \/ DropFails(t)

ThreadNext(t) ==
    \/ Call(t) \/ CallRecover(t) \/ Reenter(t)
    \/ AcquireStep(t) \/ RemovalStep(t) \/ ReleaseStep(t)

Next ==
    \/ \E t \in Thread : ThreadNext(t)
    \/ \E p \in Proc : Crash(p) \/ PidReuse(p)

Spec == Init /\ [][Next]_vars

\* A thread inside acquire or _remove_stale keeps running, and the deadline,
\* once passed, stays passed, so the polls cannot go on for ever.  Nothing
\* obliges a holder to release or a thread to call acquire.
Fairness ==
    \A t \in Thread :
        /\ WF_vars(Create(t) \/ Exists(t) \/ JudgeStale(t) \/ Retry(t) \/ Write(t)
                   \/ Abandon(t) \/ Discard(t) \/ RemovalStep(t))
        /\ SF_vars(GiveUp(t))

FairSpec == Spec /\ Fairness

-----------------------------------------------------------------------------
(* Properties                                                               *)

\* A thread that has the lock, from acquire's return to the outermost release.
Holder(t) == pc[t] = "held"

\* "Exclusive": no two threads, of one process or of several, have the lock.
MutualExclusion ==
    \A t, u \in Thread : Holder(t) /\ Holder(u) => t = u

\* The same, as long as no stale removal deleted a lock file other than the
\* one it judged: that window is the only way the protocol can break.
ExclusionUnlessStolen == ~stolen => MutualExclusion

\* Threads of one process exclude each other through the mutex whatever
\* happens to the lock file (locks.py:66-70, 116-137).
ProcessExclusion ==
    \A t \in Thread : Holder(t) => mutex[procOf[t]] = t /\ depth[procOf[t]] \in 1 .. holds[procOf[t]]

\* The lock file names its holder until the holder unlinks it, so release
\* finds its own document and never raises "ownership changed".
HolderOwnsFile ==
    ~stolen => \A t \in Thread : pc[t] \in {"held", "drop"} => IsOwn(t)

\* --- the inductive invariant behind the two safety properties above ---

\* Inside acquire (also while it removes a stale lock) and inside release.
InProcessMutex(t) == pc[t] \in Inside \/ (pc[t] \in {"stale", "unlink"} /\ ~Recovering(t))

\* From the file's creation to its removal the thread has a token.
HasToken(t) == pc[t] \in {"opened", "abandon", "discard", "held", "drop"}

\* recover works on the lock file without the process mutex.
MutexHeld ==
    \A t \in Thread :
        /\ InProcessMutex(t) => mutex[procOf[t]] = t /\ holds[procOf[t]] > 0
        /\ pc[t] = "recover" => Recovering(t)

DepthCounted ==
    \A t \in Thread : Holder(t) => depth[procOf[t]] \in 1 .. holds[procOf[t]]

\* Only live processes have a token, and the file with that token is theirs.
TokensLive ==
    /\ \A t \in Thread : HasToken(t) => token[procOf[t]] # None
    /\ \A p \in Proc : token[p] # None =>
          alive[p] /\ (lockFile.token = token[p] => lockFile.pid = p)

\* Until a theft, a thread with a token has its file at the path.
FileOwned ==
    ~stolen => \A t \in Thread : HasToken(t) =>
        /\ lockFile.token = token[procOf[t]]
        /\ Holder(t) \/ pc[t] = "drop" => lockFile.written

\* A confirmed stale document belongs to nobody who is still at work.
StaleIsDead ==
    \A t \in Thread : pc[t] = "unlink" /\ mode[t] # "force" =>
        \A p \in Proc : token[p] # None => token[p] # seen[t].token

\* Why a process never loses its lock to a removal that judged another one.
LockInvariant ==
    TypeOK /\ MutexHeld /\ DepthCounted /\ TokensLive /\ FileOwned /\ StaleIsDead

\* The thread the callers see as the holder.
LockHolder == IF \E t \in Thread : Holder(t) THEN CHOOSE t \in Thread : Holder(t) ELSE None

Exclusive == INSTANCE ExclusiveLock WITH holder <- LockHolder

\* The lock file protocol implements the exclusive lock its docstring names:
\* it passes from one thread to the next only through a state nobody holds it.
ImplementsExclusiveLock == Exclusive!Spec

\* Every attempt that got the process mutex ends in the lock or in an error,
\* although nothing obliges the present holder to release.
AttemptEnds ==
    \A t \in Thread : pc[t] = "loop" ~> pc[t] \in {"held", "idle"}
=============================================================================
