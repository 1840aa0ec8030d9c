------------------------ MODULE ProgramDisturbances ------------------------
(***************************************************************************)
(* ProgramDocuments when what it relies on fails: the workspace lock is    *)
(* taken from a holder that is alive (WorkspaceLock shows how), an         *)
(* authority object is lost or damaged, a projection file is edited or     *)
(* removed behind the repository.  The repository then refuses calls; the  *)
(* properties say what it still promises.                                  *)
(***************************************************************************)
EXTENDS ProgramDocuments

VARIABLE disturbed  \* history: something of the below has happened

\* The lock file is removed as stale, or by recover, under its holder, who
\* goes on as if it still had the lock.
StealLock ==
    /\ holder # None
    /\ holder' = None
    /\ UNCHANGED <<objects, database, file, todo, pc, calls, refusal>>

\* The payload of an object no longer has the hash in the object's name.
DamageObject(p) ==
    /\ p \in objects
    /\ objects' = objects \ {p}
    /\ UNCHANGED <<database, file, holder, todo, pc, calls, refusal>>

\* The file of a recorded document is edited, or removed (p = None).
EditFile(d, p) ==
    /\ document[d] # None
    /\ file[d] # p
    /\ file' = [file EXCEPT ![d] = p]
    /\ UNCHANGED <<objects, database, holder, todo, pc, calls, refusal>>

Disturbance ==
    \/ StealLock
    \/ \E p \in Payload : DamageObject(p)
    \/ \E d \in Doc, p \in Payload \cup {None} : EditFile(d, p)

DisturbedNext ==
    \/ Next /\ UNCHANGED disturbed
    \/ Disturbance /\ disturbed' = TRUE

DisturbedInit == Init /\ disturbed = FALSE

DisturbedSpec == DisturbedInit /\ [][DisturbedNext]_<<vars, disturbed>>

\* What the repository promises as long as nobody else touches its files and its lock,
\* whatever calls overlap and wherever they stop: at most one transaction is pending, the
\* files follow the rows, and no call is refused for what the repository did itself.
SoundUndisturbed == disturbed \/ (PendingIsLatest /\ ProjectionFollows /\ NeverRefuses)
=============================================================================
