----------------------- MODULE WorkspaceLock_proofs -----------------------
(***************************************************************************)
(* TLAPS proofs about WorkspaceLock, for any number of processes and       *)
(* threads and any set of faults.                                          *)
(***************************************************************************)
EXTENDS WorkspaceLock, TLAPS

\* The state of a fresh workspace satisfies the inductive invariant.
LEMMA InitInvariant == Init => LockInvariant
<1> SUFFICES ASSUME Init PROVE LockInvariant
  OBVIOUS
<1> USE LockAssumption DEF Init
<1>1. TypeOK
  BY DEF TypeOK, NoFile, LockFile, Locations, Inside
<1>2. MutexHeld /\ DepthCounted
  BY DEF MutexHeld, InProcessMutex, Inside, DepthCounted, Holder
<1>3. TokensLive /\ FileOwned /\ StaleIsDead
  BY DEF TokensLive, HasToken, FileOwned, StaleIsDead
<1> QED
  BY <1>1, <1>2, <1>3 DEF LockInvariant

\* Every step of acquire, release, recover and of the environment keeps it.
LEMMA StepInvariant == LockInvariant /\ [Next]_vars => LockInvariant'
<1> SUFFICES ASSUME LockInvariant, [Next]_vars PROVE LockInvariant'
  OBVIOUS
<1> USE LockAssumption DEF LockInvariant, TypeOK, LockFile, Locations, Inside, NoFile, At, GoTo,
      MutexHeld, InProcessMutex, Recovering, DepthCounted, TokensLive, HasToken, FileOwned,
      StaleIsDead, Holder, Readable, OwnerGone
<1>1. ASSUME NEW t \in Thread, Call(t) PROVE LockInvariant'
  BY <1>1 DEF Call
<1>2. ASSUME NEW t \in Thread, EnterMutex(t) PROVE LockInvariant'
  BY <1>2 DEF EnterMutex
<1>3. ASSUME NEW t \in Thread, Reenter(t) PROVE LockInvariant'
  BY <1>3 DEF Reenter
<1>4. ASSUME NEW t \in Thread, Create(t) PROVE LockInvariant'
  BY <1>4 DEF Create, Unused
<1>5. ASSUME NEW t \in Thread, Exists(t) PROVE LockInvariant'
  BY <1>5 DEF Exists
<1>6. ASSUME NEW t \in Thread, JudgeStale(t) PROVE LockInvariant'
  BY <1>6 DEF JudgeStale
<1>7. ASSUME NEW t \in Thread, Retry(t) PROVE LockInvariant'
  BY <1>7 DEF Retry
<1>8. ASSUME NEW t \in Thread, GiveUp(t) PROVE LockInvariant'
  BY <1>8 DEF GiveUp, Leave, ReleaseMutex
<1>9. ASSUME NEW t \in Thread, Write(t) PROVE LockInvariant'
  <2>1. Written(t) \in LockFile /\ Written(t).pid = lockFile.pid /\ Written(t).token = lockFile.token
    BY DEF Written
  <2>2. lockFile.token = token[procOf[t]] => Written(t).written
    BY DEF Written
  <2> QED
    BY <1>9, <2>1, <2>2 DEF Write
<1>10. ASSUME NEW t \in Thread, WriteFails(t) PROVE LockInvariant'
  <2>1. Written(t) \in LockFile /\ Written(t).pid = lockFile.pid /\ Written(t).token = lockFile.token
    BY DEF Written
  <2>2. lockFile.token = token[procOf[t]] => Written(t).written
    BY DEF Written
  <2>3. lockFile' \in LockFile /\ lockFile'.pid = lockFile.pid /\ lockFile'.token = lockFile.token
    BY <1>10, <2>1 DEF WriteFails
  <2>4. \A u \in Thread : u # t /\ mutex[procOf[u]] = u => procOf[u] # procOf[t]
    BY <1>10 DEF WriteFails
  <2>5. ~stolen => lockFile.token = token[procOf[t]] /\ lockFile.pid = procOf[t]
    BY <1>10 DEF WriteFails
  <2> QED
    BY <1>10, <2>3, <2>4, <2>5 DEF WriteFails
<1>11. ASSUME NEW t \in Thread, Abandon(t) PROVE LockInvariant'
  <2>1. CASE ~Readable \/ IsOwn(t)
    <3>1. pc' = [pc EXCEPT ![t] = "discard"] /\ UNCHANGED <<mutex, holds, token>>
      BY <1>11, <2>1 DEF Abandon, IsOwn
    <3> QED
      BY <1>11, <2>1, <3>1 DEF Abandon
  <2>2. CASE ~(~Readable \/ IsOwn(t))
    <3>1. /\ pc' = [pc EXCEPT ![t] = "idle"]
          /\ holds' = [holds EXCEPT ![procOf[t]] = @ - 1]
          /\ mutex' = [mutex EXCEPT ![procOf[t]] = IF holds[procOf[t]] = 1 THEN None ELSE @]
          /\ token' = [token EXCEPT ![procOf[t]] = None]
      BY <1>11, <2>2 DEF Abandon, Leave, ReleaseMutex, IsOwn
    <3> QED
      BY <1>11, <2>2, <3>1 DEF Abandon
  <2> QED
    BY <2>1, <2>2
<1>12. ASSUME NEW t \in Thread, Discard(t) PROVE LockInvariant'
  BY <1>12 DEF Discard, Leave, ReleaseMutex
<1>13. ASSUME NEW t \in Thread, CallRecover(t) PROVE LockInvariant'
  BY <1>13 DEF CallRecover
<1>14. ASSUME NEW t \in Thread, RecoverRead(t) PROVE LockInvariant'
  <2>1. CASE Readable /\ (OwnerGone \/ mode[t] = "force")
    <3>1. pc' = [pc EXCEPT ![t] = "stale"] /\ seen' = [seen EXCEPT ![t] = lockFile]
      BY <1>14, <2>1 DEF RecoverRead
    <3> QED
      BY <1>14, <2>1, <3>1 DEF RecoverRead
  <2>2. CASE ~(Readable /\ (OwnerGone \/ mode[t] = "force"))
    <3>1. pc' = [pc EXCEPT ![t] = "idle"] /\ UNCHANGED seen
      BY <1>14, <2>2 DEF RecoverRead
    <3> QED
      BY <1>14, <2>2, <3>1 DEF RecoverRead
  <2> QED
    BY <2>1, <2>2
<1>15. ASSUME NEW t \in Thread, Confirm(t) PROVE LockInvariant'
  BY <1>15 DEF Confirm
<1>16. ASSUME NEW t \in Thread, Changed(t) PROVE LockInvariant'
  BY <1>16 DEF Changed, AfterRemoval
<1>17. ASSUME NEW t \in Thread, OwnerIsBack(t) PROVE LockInvariant'
  <2>1. CASE Recovering(t)
    <3>1. pc' = [pc EXCEPT ![t] = "idle"] /\ UNCHANGED <<mutex, holds, token>>
      BY <1>17, <2>1 DEF OwnerIsBack
    <3> QED
      BY <1>17, <2>1, <3>1 DEF OwnerIsBack
  <2>2. CASE ~Recovering(t)
    <3>1. /\ pc' = [pc EXCEPT ![t] = "idle"]
          /\ holds' = [holds EXCEPT ![procOf[t]] = @ - 1]
          /\ mutex' = [mutex EXCEPT ![procOf[t]] = IF holds[procOf[t]] = 1 THEN None ELSE @]
          /\ token' = [token EXCEPT ![procOf[t]] = None]
      BY <1>17, <2>2 DEF OwnerIsBack, Leave, ReleaseMutex
    <3> QED
      BY <1>17, <2>2, <3>1 DEF OwnerIsBack
  <2> QED
    BY <2>1, <2>2
<1>18. ASSUME NEW t \in Thread, Unlink(t) PROVE LockInvariant'
  BY <1>18 DEF Unlink, AfterRemoval
<1>19. ASSUME NEW t \in Thread, ReleaseNested(t) PROVE LockInvariant'
  BY <1>19 DEF ReleaseNested, ReleaseMutex
<1>20. ASSUME NEW t \in Thread, Release(t) PROVE LockInvariant'
  <2>1. CASE IsOwn(t)
    <3>1. pc' = [pc EXCEPT ![t] = "drop"] /\ UNCHANGED <<mutex, holds, token>>
      BY <1>20, <2>1 DEF Release, IsOwn
    <3> QED
      BY <1>20, <2>1, <3>1 DEF Release, IsOwn
  <2>2. CASE ~IsOwn(t)
    <3>1. /\ pc' = [pc EXCEPT ![t] = "idle"]
          /\ holds' = [holds EXCEPT ![procOf[t]] = @ - 1]
          /\ mutex' = [mutex EXCEPT ![procOf[t]] = IF holds[procOf[t]] = 1 THEN None ELSE @]
          /\ token' = [token EXCEPT ![procOf[t]] = None]
      BY <1>20, <2>2 DEF Release, Leave, ReleaseMutex, IsOwn
    <3> QED
      BY <1>20, <2>2, <3>1 DEF Release
  <2> QED
    BY <2>1, <2>2
<1>21. ASSUME NEW t \in Thread, Drop(t) PROVE LockInvariant'
  BY <1>21 DEF Drop, Leave, ReleaseMutex
<1>22. ASSUME NEW t \in Thread, DropFails(t) PROVE LockInvariant'
  BY <1>22 DEF DropFails
<1>23. ASSUME NEW p \in Proc, Crash(p) PROVE LockInvariant'
  BY <1>23 DEF Crash
<1>24. ASSUME NEW p \in Proc, PidReuse(p) PROVE LockInvariant'
  BY <1>24 DEF PidReuse
<1>25. ASSUME UNCHANGED vars PROVE LockInvariant'
  BY <1>25 DEF vars
<1> QED
  BY <1>1, <1>2, <1>3, <1>4, <1>5, <1>6, <1>7, <1>8, <1>9, <1>10, <1>11, <1>12, <1>13, <1>14, <1>15, <1>16, <1>17, <1>18, <1>19, <1>20, <1>21, <1>22, <1>23, <1>24, <1>25
  DEF Next, ThreadNext, AcquireStep, RemovalStep, ReleaseStep

\* The type invariant: the process lock state of locks.py:20-26, the lock file
\* and every thread's place in acquire, release and recover.
THEOREM TypeCorrect == Spec => []TypeOK
<1>1. LockInvariant => TypeOK
  BY DEF LockInvariant
<1> QED
  BY <1>1, InitInvariant, StepInvariant, PTL DEF Spec

\* The inductive invariant holds of every behaviour.
THEOREM InvariantHolds == Spec => []LockInvariant
BY InitInvariant, StepInvariant, PTL DEF Spec

\* From the creation of the lock file to its removal one thread has a token.
LEMMA TokenIsAlone ==
  ASSUME LockInvariant, ~stolen, NEW t \in Thread, NEW u \in Thread, HasToken(t), HasToken(u)
  PROVE  t = u
<1> USE LockAssumption DEF LockInvariant
<1>1. InProcessMutex(t) /\ InProcessMutex(u)
  BY DEF HasToken, InProcessMutex, Inside
<1>2. lockFile.pid = procOf[t] /\ lockFile.pid = procOf[u]
  BY DEF FileOwned, TokensLive
<1> QED
  BY <1>1, <1>2 DEF MutexHeld

\* No two threads of any processes have the lock, whatever crashes, pid reuse,
\* failed writes and unlinks happen, until a stale removal deletes a lock file
\* other than the one it judged (locks.py:148-155).
THEOREM Exclusion == Spec => []ExclusionUnlessStolen
<1>1. LockInvariant => ExclusionUnlessStolen
  BY TokenIsAlone DEF ExclusionUnlessStolen, MutualExclusion, Holder, HasToken
<1> QED
  BY <1>1, InvariantHolds, PTL

\* Inside one process the mutex excludes, even after a theft of the lock file.
THEOREM InProcess == Spec => []ProcessExclusion
<1>1. LockInvariant => ProcessExclusion
  BY DEF LockInvariant, ProcessExclusion, MutexHeld, DepthCounted, InProcessMutex, Inside, Holder
<1> QED
  BY <1>1, InvariantHolds, PTL

\* A release finds its own document at the path.
THEOREM ReleaseFindsOwnFile == Spec => []HolderOwnsFile
<1>1. LockInvariant => HolderOwnsFile
  BY LockAssumption DEF LockInvariant, HolderOwnsFile, FileOwned, TokensLive, HasToken, IsOwn, Readable, Holder
<1> QED
  BY <1>1, InvariantHolds, PTL

-----------------------------------------------------------------------------
(* The exclusive lock that the protocol implements                          *)

\* Two processes; no pid comes back and nobody forces a recovery; and either
\* nobody runs recover or each process has one thread.
TwoProcesses ==
    /\ \A p, q, r \in Proc : p = q \/ q = r \/ p = r
    /\ "pidReuse" \notin Faults /\ "force" \notin Faults
    /\ "recover" \notin Faults \/ \A t, u \in Thread : procOf[t] = procOf[u] => t = u

\* Whoever removes a stale lock is then alone: the lock file stays what it
\* judged, because the only other process is its dead owner.
RemoverIsAlone ==
    /\ ~stolen
    /\ lockFile = NoFile \/ lockFile.pid \in Proc
    /\ \A t \in Thread :
        /\ pc[t] # "idle" => alive[procOf[t]]
        /\ mode[t] # "force" /\ (mode[t] = "recover" => "recover" \in Faults)
        /\ pc[t] \in {"stale", "unlink"} => lockFile = seen[t] /\ lockFile # NoFile /\ ~alive[lockFile.pid]

\* A fresh workspace has no lock file to remove.
LEMMA InitAlone == Init => RemoverIsAlone
  BY DEF Init, RemoverIsAlone

\* With two processes no thread can put another lock file under the remover.
LEMMA StepAlone ==
  ASSUME TwoProcesses, LockInvariant, RemoverIsAlone, [Next]_vars PROVE RemoverIsAlone'
<1> USE LockAssumption DEF LockInvariant, TypeOK, At, GoTo, RemoverIsAlone, Locations, Inside
<1>a. TypeOK
  OBVIOUS
<1>0. ASSUME NEW t \in Thread, NEW u \in Thread, u # t, pc[u] \in {"stale", "unlink"}, alive[procOf[t]], pc[t] # "idle"
      PROVE  pc[t] \notin {"loop", "opened", "discard", "drop", "stale", "unlink"}
  <2>1. procOf[t] = procOf[u]
    <3>1. alive[procOf[u]] /\ ~alive[lockFile.pid] /\ lockFile.pid \in Proc
      BY <1>0
    <3>2. procOf[t] \in Proc /\ procOf[u] \in Proc /\ procOf[t] # lockFile.pid /\ procOf[u] # lockFile.pid
      BY <1>0, <3>1
    <3> QED
      BY <3>1, <3>2 DEF TwoProcesses
  <2>2. ~Recovering(t) /\ ~Recovering(u)
    BY <1>0, <2>1 DEF TwoProcesses, Recovering
  <2>3. InProcessMutex(u)
    BY <1>0, <2>2 DEF InProcessMutex
  <2>4. ~InProcessMutex(t)
    BY <1>0, <2>1, <2>3 DEF MutexHeld
  <2> QED
    BY <2>2, <2>4 DEF InProcessMutex
<1>1. ASSUME NEW t \in Thread, Call(t) PROVE RemoverIsAlone'
  BY <1>1 DEF Call
<1>2. ASSUME NEW t \in Thread, EnterMutex(t) PROVE RemoverIsAlone'
  BY <1>2 DEF EnterMutex
<1>3. ASSUME NEW t \in Thread, Reenter(t) PROVE RemoverIsAlone'
  BY <1>3 DEF Reenter
<1>4. ASSUME NEW t \in Thread, Create(t) PROVE RemoverIsAlone'
  <2>1. \A u \in Thread : pc[u] \notin {"stale", "unlink"}
    BY <1>0, <1>4 DEF Create
  <2>2. pc' = [pc EXCEPT ![t] = "opened"] /\ alive[procOf[t]] /\ UNCHANGED <<alive, mode, seen, stolen>>
    BY <1>4 DEF Create
  <2>3. lockFile' = NoFile \/ lockFile'.pid \in Proc
    BY <1>4 DEF Create
  <2> HIDE DEF LockInvariant
  <2> QED
    BY <1>a, <2>1, <2>2, <2>3
<1>5. ASSUME NEW t \in Thread, Exists(t) PROVE RemoverIsAlone'
  BY <1>5 DEF Exists
<1>6. ASSUME NEW t \in Thread, JudgeStale(t) PROVE RemoverIsAlone'
  BY <1>6 DEF JudgeStale, OwnerGone, Readable, NoFile
<1>7. ASSUME NEW t \in Thread, Retry(t) PROVE RemoverIsAlone'
  BY <1>7 DEF Retry
<1>8. ASSUME NEW t \in Thread, GiveUp(t) PROVE RemoverIsAlone'
  BY <1>8 DEF GiveUp, Leave
<1>9. ASSUME NEW t \in Thread, Write(t) PROVE RemoverIsAlone'
  <2>1. \A u \in Thread : pc[u] \notin {"stale", "unlink"}
    BY <1>0, <1>9 DEF Write
  <2>2. pc' = [pc EXCEPT ![t] = "held"] /\ alive[procOf[t]] /\ UNCHANGED <<alive, mode, seen, stolen>>
    BY <1>9 DEF Write
  <2>3. lockFile' = NoFile \/ lockFile'.pid \in Proc
    <3>1. lockFile.pid = procOf[t] /\ Written(t).pid = lockFile.pid
      BY <1>9 DEF Write, FileOwned, HasToken, TokensLive, Written
    <3>2. lockFile' \in {lockFile, Written(t)}
      BY <1>9 DEF Write
    <3> QED
      BY <3>1, <3>2
  <2> HIDE DEF LockInvariant
  <2> QED
    BY <1>a, <2>1, <2>2, <2>3
<1>10. ASSUME NEW t \in Thread, WriteFails(t) PROVE RemoverIsAlone'
  <2>1. \A u \in Thread : pc[u] \notin {"stale", "unlink"}
    BY <1>0, <1>10 DEF WriteFails
  <2>2. pc' = [pc EXCEPT ![t] = "abandon"] /\ alive[procOf[t]] /\ UNCHANGED <<alive, mode, seen, stolen>>
    BY <1>10 DEF WriteFails
  <2>3. lockFile' = NoFile \/ lockFile'.pid \in Proc
    <3>1. lockFile.pid = procOf[t] /\ Written(t).pid = lockFile.pid
      BY <1>10 DEF WriteFails, FileOwned, HasToken, TokensLive, Written
    <3>2. lockFile' \in {lockFile, Written(t)}
      BY <1>10 DEF WriteFails
    <3> QED
      BY <3>1, <3>2
  <2> HIDE DEF LockInvariant
  <2> QED
    BY <1>a, <2>1, <2>2, <2>3
<1>11. ASSUME NEW t \in Thread, Abandon(t) PROVE RemoverIsAlone'
  BY <1>11 DEF Abandon, Leave
<1>12. ASSUME NEW t \in Thread, Discard(t) PROVE RemoverIsAlone'
  <2>1. \A u \in Thread : pc[u] \notin {"stale", "unlink"}
    BY <1>0, <1>12 DEF Discard
  <2>2. pc' = [pc EXCEPT ![t] = "idle"] /\ alive[procOf[t]] /\ UNCHANGED <<alive, mode, seen, stolen>>
    BY <1>12 DEF Discard, Leave
  <2>3. lockFile' = NoFile \/ lockFile'.pid \in Proc
    BY <1>12 DEF Discard, Leave
  <2> HIDE DEF LockInvariant
  <2> QED
    BY <1>a, <2>1, <2>2, <2>3
<1>13. ASSUME NEW t \in Thread, CallRecover(t) PROVE RemoverIsAlone'
  <2>1. PICK m \in {"recover", "force"} \cap Faults : mode' = [mode EXCEPT ![t] = m]
    BY <1>13 DEF CallRecover
  <2>2. m = "recover" /\ m \in Faults
    BY <2>1 DEF TwoProcesses
  <2>3. pc' = [pc EXCEPT ![t] = "recover"] /\ alive[procOf[t]] /\ UNCHANGED <<lockFile, alive, seen, stolen>>
    BY <1>13 DEF CallRecover
  <2> HIDE DEF LockInvariant
  <2> QED
    BY <1>a, <2>1, <2>2, <2>3
<1>14. ASSUME NEW t \in Thread, RecoverRead(t) PROVE RemoverIsAlone'
  <2>1. \/ pc' = [pc EXCEPT ![t] = "stale"] /\ seen' = [seen EXCEPT ![t] = lockFile] /\ OwnerGone
        \/ pc' = [pc EXCEPT ![t] = "idle"] /\ seen' = seen
    BY <1>14 DEF RecoverRead
  <2>2. alive[procOf[t]] /\ UNCHANGED <<lockFile, alive, mode, stolen>>
    BY <1>14 DEF RecoverRead
  <2>3. OwnerGone => lockFile # NoFile /\ ~alive[lockFile.pid]
    BY DEF OwnerGone, Readable, NoFile
  <2> HIDE DEF LockInvariant
  <2> QED
    BY <1>a, <2>1, <2>2, <2>3
<1>15. ASSUME NEW t \in Thread, Confirm(t) PROVE RemoverIsAlone'
  BY <1>15 DEF Confirm
<1>16. ASSUME NEW t \in Thread, Changed(t) PROVE RemoverIsAlone'
  BY <1>16 DEF Changed, AfterRemoval
<1>17. ASSUME NEW t \in Thread, OwnerIsBack(t) PROVE RemoverIsAlone'
  BY <1>17 DEF OwnerIsBack, Leave, AfterRemoval
<1>18. ASSUME NEW t \in Thread, Unlink(t) PROVE RemoverIsAlone'
  <2>1. \A u \in Thread \ {t} : pc[u] \notin {"stale", "unlink"}
    BY <1>0, <1>18 DEF Unlink
  <2>2. pc[t] = "unlink" /\ lockFile' = NoFile /\ UNCHANGED <<alive, mode>>
    BY <1>18 DEF Unlink
  <2>3. ~stolen'
    BY <1>18 DEF Unlink
  <2>4. PICK l \in {"idle", "loop"} : pc' = [pc EXCEPT ![t] = l]
    BY <1>18 DEF Unlink, AfterRemoval
  <2> HIDE DEF LockInvariant
  <2> QED
    BY <1>a, <2>1, <2>2, <2>3, <2>4
<1>19. ASSUME NEW t \in Thread, ReleaseNested(t) PROVE RemoverIsAlone'
  BY <1>19 DEF ReleaseNested
<1>20. ASSUME NEW t \in Thread, Release(t) PROVE RemoverIsAlone'
  BY <1>20 DEF Release, Leave
<1>21. ASSUME NEW t \in Thread, Drop(t) PROVE RemoverIsAlone'
  <2>1. \A u \in Thread : pc[u] \notin {"stale", "unlink"}
    BY <1>0, <1>21 DEF Drop
  <2>2. pc' = [pc EXCEPT ![t] = "idle"] /\ alive[procOf[t]] /\ UNCHANGED <<alive, mode, seen, stolen>>
    BY <1>21 DEF Drop, Leave
  <2>3. lockFile' = NoFile \/ lockFile'.pid \in Proc
    BY <1>21 DEF Drop, Leave
  <2> HIDE DEF LockInvariant
  <2> QED
    BY <1>a, <2>1, <2>2, <2>3
<1>22. ASSUME NEW t \in Thread, DropFails(t) PROVE RemoverIsAlone'
  BY <1>22 DEF DropFails
<1>23. ASSUME NEW p \in Proc, Crash(p) PROVE RemoverIsAlone'
  BY <1>23 DEF Crash
<1>24. ASSUME NEW p \in Proc, PidReuse(p) PROVE RemoverIsAlone'
  BY <1>24 DEF PidReuse, TwoProcesses
<1>25. ASSUME UNCHANGED vars PROVE RemoverIsAlone'
  BY <1>25 DEF vars
<1> QED
  BY <1>1, <1>2, <1>3, <1>4, <1>5, <1>6, <1>7, <1>8, <1>9, <1>10, <1>11, <1>12, <1>13,
     <1>14, <1>15, <1>16, <1>17, <1>18, <1>19, <1>20, <1>21, <1>22, <1>23, <1>24, <1>25
  DEF Next, ThreadNext, AcquireStep, RemovalStep, ReleaseStep

\* A pair of processes never loses a lock to the other's stale removal.
THEOREM PairNeverSteals == ASSUME TwoProcesses PROVE Spec => []~stolen
<1>1. RemoverIsAlone /\ LockInvariant /\ [Next]_vars => RemoverIsAlone'
  BY StepAlone
<1>2. RemoverIsAlone /\ UNCHANGED vars => RemoverIsAlone'
  BY DEF RemoverIsAlone, vars
<1>3. RemoverIsAlone => ~stolen
  BY DEF RemoverIsAlone
<1> QED
  BY InitAlone, <1>1, <1>2, <1>3, InvariantHolds, PTL DEF Spec

\* The lock of the abstract specification is its only holder's.
LEMMA HolderIsAlone ==
  LockInvariant /\ ~stolen =>
      /\ \A t \in Thread : Holder(t) => LockHolder = t
      /\ (\A t \in Thread : ~Holder(t)) => LockHolder = None
<1> SUFFICES ASSUME LockInvariant, ~stolen
             PROVE  /\ \A t \in Thread : Holder(t) => LockHolder = t
                    /\ (\A t \in Thread : ~Holder(t)) => LockHolder = None
  OBVIOUS
<1>1. \A t, u \in Thread : Holder(t) /\ Holder(u) => t = u
  BY TokenIsAlone DEF Holder, HasToken
<1> QED
  BY <1>1 DEF LockHolder

\* Which threads hold the lock changes when one gets it, from creating the
\* file, or when one lets go of it or dies.
LEMMA HoldersChange ==
  ASSUME LockInvariant, [Next]_vars
  PROVE  \/ \E t \in Thread : pc[t] = "opened" /\ Holder(t)' /\ \A u \in Thread \ {t} : Holder(u)' <=> Holder(u)
         \/ \A t \in Thread : Holder(t)' => Holder(t)
<1> USE LockAssumption DEF LockInvariant, At, GoTo, Holder
<1>0. pc \in [Thread -> Locations]
  BY DEF TypeOK
<1>1. ASSUME NEW t \in Thread, Write(t)
      PROVE  pc[t] = "opened" /\ Holder(t)' /\ \A u \in Thread \ {t} : Holder(u)' <=> Holder(u)
  BY <1>0, <1>1 DEF Write
<1>2. ASSUME NEW t \in Thread, NEW l \in Locations \ {"held"}, pc' = [pc EXCEPT ![t] = l]
      PROVE  \A u \in Thread : Holder(u)' => Holder(u)
  BY <1>0, <1>2
<1>3. ASSUME NEW t \in Thread,
             \/ Call(t) \/ CallRecover(t) \/ EnterMutex(t) \/ Create(t) \/ Exists(t) \/ JudgeStale(t) \/ Retry(t)
             \/ GiveUp(t) \/ WriteFails(t) \/ Abandon(t) \/ Discard(t) \/ RecoverRead(t) \/ Confirm(t) \/ Changed(t)
             \/ OwnerIsBack(t) \/ Unlink(t) \/ Release(t) \/ Drop(t) \/ DropFails(t)
      PROVE  \E l \in Locations \ {"held"} : pc' = [pc EXCEPT ![t] = l]
  BY <1>3 DEF Call, CallRecover, EnterMutex, Create, Exists, JudgeStale, Retry, GiveUp, WriteFails, Abandon, Discard,
              RecoverRead, Confirm, Changed, OwnerIsBack, Unlink, Release, Drop, DropFails, Leave, AfterRemoval,
              Locations, Inside
<1>4. ASSUME NEW t \in Thread, Reenter(t) \/ ReleaseNested(t) PROVE pc' = pc
  BY <1>4 DEF Reenter, ReleaseNested
<1>5. ASSUME NEW p \in Proc, Crash(p) PROVE \A u \in Thread : Holder(u)' => Holder(u)
  BY <1>5 DEF Crash
<1>6. ASSUME NEW p \in Proc, PidReuse(p) PROVE pc' = pc
  BY <1>6 DEF PidReuse
<1>7. UNCHANGED vars => pc' = pc
  BY DEF vars
<1> QED
  BY <1>1, <1>2, <1>3, <1>4, <1>5, <1>6, <1>7 DEF Next, ThreadNext, AcquireStep, RemovalStep, ReleaseStep

\* The abstract lock starts free.
LEMMA RefinesInit == Init => Exclusive!Init
  BY DEF Init, Exclusive!Init, LockHolder, Holder

\* Without a theft each step of the protocol takes the abstract lock, gives it
\* back, or leaves it alone.
LEMMA RefinesStep ==
  LockInvariant /\ ~stolen /\ [Next]_vars /\ LockInvariant' /\ ~stolen' => [Exclusive!Next]_LockHolder
<1> SUFFICES ASSUME LockInvariant, ~stolen, [Next]_vars, LockInvariant', ~stolen'
             PROVE  [Exclusive!Next]_LockHolder
  OBVIOUS
<1> USE LockAssumption
<1>1. /\ \A t \in Thread : Holder(t) => LockHolder = t
      /\ (\A t \in Thread : ~Holder(t)) => LockHolder = None
  BY HolderIsAlone
<1>2. /\ \A t \in Thread : Holder(t)' => LockHolder' = t
      /\ (\A t \in Thread : ~Holder(t)') => LockHolder' = None
  <2>1. (LockInvariant /\ ~stolen)' =>
          (/\ \A t \in Thread : Holder(t) => LockHolder = t
           /\ (\A t \in Thread : ~Holder(t)) => LockHolder = None)'
    BY HolderIsAlone, PTL
  <2> QED
    BY <2>1
<1>3. ASSUME NEW t \in Thread, pc[t] = "opened", Holder(t)' PROVE Exclusive!Next
  <2>1. \A u \in Thread : ~Holder(u)
    BY <1>3, TokenIsAlone DEF Holder, HasToken
  <2>2. LockHolder = None /\ LockHolder' = t
    BY <1>1, <1>2, <1>3, <2>1
  <2> QED
    BY <2>2 DEF Exclusive!Next, Exclusive!Acquire
<1>4. CASE \A t \in Thread : Holder(t)' => Holder(t)
  <2>1. CASE \E t \in Thread : Holder(t)'
    BY <1>1, <1>2, <1>4, <2>1
  <2>2. CASE \A t \in Thread : ~Holder(t)'
    <3>1. LockHolder' = None
      BY <1>2, <2>2
    <3> QED
      BY <3>1 DEF Exclusive!Next, Exclusive!LetGo
  <2> QED
    BY <2>1, <2>2
<1> QED
  BY <1>3, <1>4, HoldersChange

\* Until a theft the protocol implements the exclusive lock of its docstring
\* (locks.py:33), for any processes, threads and faults.
THEOREM RefinementUntilTheft == Spec /\ []~stolen => ImplementsExclusiveLock
<1>1. Spec /\ []~stolen => Exclusive!Spec
  BY RefinesInit, RefinesStep, InvariantHolds, PTL DEF Spec, Exclusive!Spec
<1> QED
  BY <1>1 DEF ImplementsExclusiveLock

\* Two processes have the exclusive lock without conditions, whatever crashes
\* and fails: a theft takes a third one, a pid that comes back, or force.
THEOREM PairRefinement == ASSUME TwoProcesses PROVE Spec => ImplementsExclusiveLock
  BY PairNeverSteals, RefinementUntilTheft, PTL
=============================================================================
