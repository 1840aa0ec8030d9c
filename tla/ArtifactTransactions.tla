----------------------- MODULE ArtifactTransactions -----------------------
(***************************************************************************)
(* Multi-file artifact transactions of song_agent/platform/persistence:    *)
(* FileUnitOfWork (unit_of_work.py) and PersistenceRecovery (recovery.py)  *)
(* over FileArtifactStore (file_artifacts.py).  A commit moves a staged    *)
(* directory to a generation, the current.json pointer to it, a database   *)
(* row and a marker, in that order and under the workspace lock; it can    *)
(* stop after any of these writes, and recovery finishes or rolls back     *)
(* what it finds.  The lock is the exclusive lock of ExclusiveLock: the    *)
(* death of its holder frees it.                                           *)
(***************************************************************************)
EXTENDS Naturals, FiniteSets

CONSTANTS Tx,         \* transaction ids, in the order of their directory names
          Namespace,  \* artifact namespaces
          nsOf,       \* the namespace of each transaction
          None,       \* no transaction: an absent pointer, an empty previous_generation
          Recovery,   \* the process that runs `song-agent-state recover`
          MaxHits     \* bound: power losses and aborted transactions

ASSUME ArtifactAssumption ==
    /\ Tx \subseteq Nat
    /\ nsOf \in [Tx -> Namespace]
    /\ None \notin Tx /\ Recovery \notin Tx \cup {None}
    /\ MaxHits \in Nat

VARIABLES
    staging,     \* transactions whose staging directory exists
    intent,      \* per transaction: status in intent.json, "absent" or "torn"
    base,        \* per transaction: previous_generation of its last intent
    generation,  \* transactions whose generation directory exists
    pointer,     \* per namespace: generation_id in current.json
    row,         \* transactions with a committed row in artifact_transactions
    marker,      \* transactions whose commit.marker exists
    pc,          \* per transaction: the last step its unit of work completed
    holder,      \* who has the workspace lock
    todo,        \* recovery: intents it listed and has not finished
    step,        \* recovery: the next step for the first of them
    outcome,     \* recovery: how the last run ended
    published,   \* history: transactions that have been current
    lost,        \* history: transactions that a power loss took writes of
    losses,      \* history: how many power losses there were
    aborts       \* history: transactions aborted, in full or in part, since their last intent

files == <<staging, intent, base, generation, pointer, row, marker>>
recovery == <<todo, step, outcome>>
history == <<published, lost, losses, aborts>>
vars == <<files, pc, holder, recovery, history>>

Committing == {"intent", "generation", "pointer", "row", "marker", "finished"}

TypeOK ==
    /\ staging \subseteq Tx
    /\ intent \in [Tx -> {"absent", "prepared", "committed", "rolled_back", "torn"}]
    /\ base \in [Tx -> Tx \cup {None}]
    /\ generation \subseteq Tx
    /\ pointer \in [Namespace -> Tx \cup {None}]
    /\ row \subseteq Tx
    /\ marker \subseteq Tx
    /\ pc \in [Tx -> Committing \cup {"new", "staged", "done", "failed", "dead", "aborting", "aborted"}]
    /\ holder \in Tx \cup {Recovery, None}
    /\ todo \subseteq Tx
    /\ step \in {"pointer", "row", "marker", "intent", "restored", "staging"}
    /\ outcome \in {"none", "passed", "unreadable", "mismatch", "previous missing", "directory gone"}
    /\ published \subseteq Tx
    /\ lost \subseteq Tx /\ losses \in Nat
    /\ aborts \subseteq Tx

Init ==
    /\ staging = {} /\ generation = {} /\ row = {} /\ marker = {}
    /\ intent = [t \in Tx |-> "absent"]
    /\ base = [t \in Tx |-> None]
    /\ pointer = [n \in Namespace |-> None]
    /\ pc = [t \in Tx |-> "new"]
    /\ holder = None
    /\ todo = {} /\ step = "pointer" /\ outcome = "none"
    /\ published = {} /\ lost = {} /\ losses = 0 /\ aborts = {}

-----------------------------------------------------------------------------
(* FileUnitOfWork                                                           *)

Advance(t, s) == pc' = [pc EXCEPT ![t] = s]

\* write_bytes, write_json: the candidate files, without the lock.
Stage(t) ==
    /\ pc[t] = "new"
    /\ staging' = staging \cup {t}
    /\ Advance(t, "staged")
    /\ UNCHANGED <<intent, base, generation, pointer, row, marker, holder, recovery, history>>

\* commit enters the lock, verifies the staged files and writes the intent
\* against the present pointer.  A unit whose commit raised may commit again.
WriteIntent(t) ==
    /\ pc[t] \in {"staged", "failed"}
    /\ holder = None
    /\ t \in staging
    /\ holder' = t
    /\ base' = [base EXCEPT ![t] = pointer[nsOf[t]]]
    /\ intent' = [intent EXCEPT ![t] = "prepared"]
    /\ Advance(t, "intent")
    /\ aborts' = aborts \ {t}
    /\ UNCHANGED <<staging, generation, pointer, row, marker, recovery, published, lost, losses>>

\* staging.replace(generation), unless the generation exists already.
MoveGeneration(t) ==
    /\ pc[t] = "intent"
    /\ t \notin generation
    /\ staging' = staging \ {t}
    /\ generation' = generation \cup {t}
    /\ Advance(t, "generation")
    /\ UNCHANGED <<intent, base, pointer, row, marker, holder, recovery, history>>

\* Mutant of WritePointer: the pointer is written before the generation is moved.
WritePointerFirst(t) ==
    /\ pc[t] = "intent"
    /\ pointer' = [pointer EXCEPT ![nsOf[t]] = t]
    /\ published' = published \cup {t}
    /\ Advance(t, "pointer")
    /\ UNCHANGED <<staging, intent, base, generation, row, marker, holder, recovery, lost, losses, aborts>>

WritePointer(t) ==
    /\ pc[t] = "generation"
    /\ pointer' = [pointer EXCEPT ![nsOf[t]] = t]
    /\ published' = published \cup {t}
    /\ Advance(t, "pointer")
    /\ UNCHANGED <<staging, intent, base, generation, row, marker, holder, recovery, lost, losses, aborts>>

\* The database transaction commits, or the crash inside it rolls it back.
RecordRow(t) ==
    /\ pc[t] = "pointer"
    /\ row' = row \cup {t}
    /\ Advance(t, "row")
    /\ UNCHANGED <<staging, intent, base, generation, pointer, marker, holder, recovery, history>>

WriteMarker(t) ==
    /\ pc[t] = "row"
    /\ marker' = marker \cup {t}
    /\ Advance(t, "marker")
    /\ UNCHANGED <<staging, intent, base, generation, pointer, row, holder, recovery, history>>

\* Mutant of FinishIntent: the marker is not waited for.
FinishIntentUnmarked(t) ==
    /\ pc[t] \in {"row", "marker"}
    /\ intent' = [intent EXCEPT ![t] = "committed"]
    /\ Advance(t, "finished")
    /\ UNCHANGED <<staging, base, generation, pointer, row, marker, holder, recovery, history>>

FinishIntent(t) ==
    /\ pc[t] = "marker"
    /\ intent' = [intent EXCEPT ![t] = "committed"]
    /\ Advance(t, "finished")
    /\ UNCHANGED <<staging, base, generation, pointer, row, marker, holder, recovery, history>>

\* commit releases the lock and returns "committed".
Return(t) ==
    /\ pc[t] = "finished"
    /\ holder' = None
    /\ Advance(t, "done")
    /\ UNCHANGED <<files, recovery, history>>

\* After any of the writes commit raises, or its process dies: then the unit is
\* just never used again.  The lock is free again (release in __exit__, or the
\* stale lock is removed).
Interrupt(t) ==
    /\ pc[t] \in Committing
    /\ holder' = None
    /\ Advance(t, "failed")
    /\ UNCHANGED <<files, recovery, history>>

\* current.json before or after the replace that made t current, or withdrew it.
LosePointer(t) ==
    \/ UNCHANGED pointer
    \/ /\ pointer[nsOf[t]] = t
       /\ pointer' = [pointer EXCEPT ![nsOf[t]] = base[t]]
    \/ /\ t \in published /\ pointer[nsOf[t]] = base[t]
       /\ pointer' = [pointer EXCEPT ![nsOf[t]] = t]

\* Nothing but the database is ever synced.  A power loss, during the commit or
\* any time after it has returned or been recovered, takes back any of the
\* renames and file writes made for t, and ends every process.  Losses that
\* strike several transactions at once are several of these steps.
LosePower(t) ==
    /\ losses + Cardinality(aborts) < MaxHits
    /\ intent[t] # "absent"
    /\ generation' \in {generation, generation \ {t}}
    /\ staging' \in {staging \ {t}, staging \cup ({t} \ generation')}
    /\ marker' \in {marker, marker \ {t}}
    /\ \E status \in {intent[t], "prepared", "absent"} : intent' = [intent EXCEPT ![t] = status]
    /\ LosePointer(t)
    /\ lost' = lost \cup {t} /\ losses' = losses + 1
    /\ pc' = [u \in Tx |-> IF pc[u] \in Committing \cup {"staged", "failed", "aborting"}
                            THEN "dead" ELSE pc[u]]
    /\ holder' = None
    /\ todo' = {} /\ step' = "pointer"
    /\ UNCHANGED <<base, row, outcome, published, aborts>>

\* abort looks at no state and takes no lock: also a unit whose commit returned
\* loses its transaction directory.  (After a power loss there is no unit left.)
StartAbort(t) ==
    /\ pc[t] \in {"staged", "failed", "done"}
    /\ t \notin lost /\ losses + Cardinality(aborts \cup {t}) <= MaxHits
    /\ Advance(t, "aborting")
    /\ aborts' = aborts \cup {t}
    /\ UNCHANGED <<files, holder, recovery, published, lost, losses>>

\* rmtree unlinks the entries one by one, in any order.
Abort(t) ==
    /\ pc[t] = "aborting"
    /\ \/ /\ t \in staging
          /\ staging' = staging \ {t}
          /\ UNCHANGED <<intent, marker>>
       \/ /\ intent[t] # "absent"
          /\ intent' = [intent EXCEPT ![t] = "absent"]
          /\ UNCHANGED <<staging, marker>>
       \/ /\ t \in marker
          /\ marker' = marker \ {t}
          /\ UNCHANGED <<staging, intent>>
    /\ UNCHANGED <<base, generation, pointer, row, pc, holder, recovery, history>>

\* The empty directory goes last; or rmtree meets a file that recovery removed
\* or wrote meanwhile and raises; or the process dies.
EndAbort(t) ==
    /\ pc[t] = "aborting"
    /\ \/ t \notin staging \cup marker /\ intent[t] = "absent" /\ Advance(t, "aborted")
       \/ Advance(t, "failed")
    /\ UNCHANGED <<files, holder, recovery, history>>

-----------------------------------------------------------------------------
(* PersistenceRecovery.recover                                              *)

\* Mutant of Unfinished: rolled back intents are left alone.
UnfinishedPrepared == {t \in Tx : intent[t] = "prepared"}

\* inspect lists every intent without a marker or not committed: also those
\* that an earlier recovery rolled back.
Unfinished ==
    {t \in Tx : intent[t] # "absent" /\ (t \notin marker \/ intent[t] # "committed")}

StartRecovery ==
    /\ holder = None
    /\ IF \E t \in Tx : intent[t] = "torn"
       THEN outcome' = "unreadable" /\ UNCHANGED <<holder, todo, step>>
       ELSE /\ outcome' = "none"
            /\ holder' = Recovery
            /\ todo' = Unfinished
            /\ step' = "pointer"
    /\ UNCHANGED <<files, pc, history>>

\* Recovery works on transaction t: the first by directory name.
At(t, s) ==
    /\ holder = Recovery
    /\ t \in todo /\ \A u \in todo : t <= u
    /\ step = s

\* recover raises, and the lock is released.
Refuse(reason) ==
    /\ outcome' = reason
    /\ holder' = None
    /\ todo' = {} /\ step' = "pointer"

\* The transaction's directory, in which marker and intent are written.
HasDirectory(t) == t \in staging \cup marker \/ intent[t] # "absent" \/ pc[t] = "aborting"

\* Mutant of RecoverPointer: the present pointer is not compared with the base.
RecoverPointerAnyway(t) ==
    /\ At(t, "pointer")
    /\ t \in generation
    /\ pointer' = [pointer EXCEPT ![nsOf[t]] = t]
    /\ published' = published \cup {t}
    /\ step' = "row"
    /\ UNCHANGED <<staging, intent, base, generation, row, marker, pc, holder, todo, outcome, lost, losses, aborts>>

\* The generation is there: make it current if it still follows its base.
RecoverPointer(t) ==
    /\ At(t, "pointer")
    /\ t \in generation
    /\ pointer[nsOf[t]] \in {t, base[t]}
    /\ pointer' = [pointer EXCEPT ![nsOf[t]] = t]
    /\ published' = published \cup {t}
    /\ step' = "row"
    /\ UNCHANGED <<staging, intent, base, generation, row, marker, pc, holder, todo, outcome, lost, losses, aborts>>

\* Mutant of RefuseMismatch: a transaction that is current already is refused too.
RefuseUnlessBase(t) ==
    /\ At(t, "pointer")
    /\ t \in generation
    /\ pointer[nsOf[t]] # base[t]
    /\ Refuse("mismatch")
    /\ UNCHANGED <<files, pc, history>>

\* "Recovery pointer mismatch": the whole recovery stops here.
RefuseMismatch(t) ==
    /\ At(t, "pointer")
    /\ t \in generation
    /\ pointer[nsOf[t]] \notin {t, base[t]}
    /\ Refuse("mismatch")
    /\ UNCHANGED <<files, pc, history>>

RecoverRow(t) ==
    /\ At(t, "row")
    /\ row' = row \cup {t}
    /\ step' = "marker"
    /\ UNCHANGED <<staging, intent, base, generation, pointer, marker, pc, holder, todo, outcome, history>>

RecoverMarker(t) ==
    /\ At(t, "marker")
    /\ IF HasDirectory(t)
       THEN marker' = marker \cup {t} /\ step' = "intent" /\ UNCHANGED <<holder, todo, outcome>>
       ELSE Refuse("directory gone") /\ UNCHANGED marker
    /\ UNCHANGED <<staging, intent, base, generation, pointer, row, pc, history>>

RecoverIntent(t) ==
    /\ At(t, "intent")
    /\ IF HasDirectory(t)
       THEN /\ intent' = [intent EXCEPT ![t] = "committed"]
            /\ todo' = todo \ {t} /\ step' = "pointer"
            /\ UNCHANGED <<holder, outcome>>
       ELSE Refuse("directory gone") /\ UNCHANGED intent
    /\ UNCHANGED <<staging, base, generation, pointer, row, marker, pc, history>>

\* No generation: a pointer to it goes back to its base, or is unlinked.
RestorePointer(t) ==
    /\ At(t, "pointer")
    /\ t \notin generation
    /\ IF pointer[nsOf[t]] = t /\ base[t] \notin generation \cup {None}
       THEN Refuse("previous missing") /\ UNCHANGED pointer
       ELSE /\ pointer' = [pointer EXCEPT ![nsOf[t]] = IF @ = t THEN base[t] ELSE @]
            /\ step' = "restored"
            /\ UNCHANGED <<holder, todo, outcome>>
    /\ UNCHANGED <<staging, intent, base, generation, row, marker, pc, history>>

RollBackIntent(t) ==
    /\ At(t, "restored")
    /\ IF HasDirectory(t)
       THEN /\ intent' = [intent EXCEPT ![t] = "rolled_back"]
            /\ step' = "staging"
            /\ UNCHANGED <<holder, todo, outcome>>
       ELSE Refuse("directory gone") /\ UNCHANGED intent
    /\ UNCHANGED <<staging, base, generation, pointer, row, marker, pc, history>>

ClearStaging(t) ==
    /\ At(t, "staging")
    /\ staging' = staging \ {t}
    /\ todo' = todo \ {t} /\ step' = "pointer"
    /\ UNCHANGED <<intent, base, generation, pointer, row, marker, pc, holder, outcome, history>>

EndRecovery ==
    /\ holder = Recovery
    /\ todo = {}
    /\ outcome' = "passed"
    /\ holder' = None
    /\ UNCHANGED <<files, pc, todo, step, history>>

\* The recovering process dies between two writes, or raises at a staging
\* directory that an abort is removing.
StopRecovery ==
    /\ holder = Recovery
    /\ holder' = None
    /\ todo' = {} /\ step' = "pointer"
    /\ UNCHANGED <<files, pc, outcome, history>>

\* It dies while write_text rewrites the intent in place.
TearIntent(t) ==
    /\ At(t, "intent") \/ At(t, "restored")
    /\ HasDirectory(t)
    /\ intent' = [intent EXCEPT ![t] = "torn"]
    /\ holder' = None
    /\ todo' = {} /\ step' = "pointer"
    /\ UNCHANGED <<staging, base, generation, pointer, row, marker, pc, outcome, history>>

-----------------------------------------------------------------------------
CommitStep(t) ==
    \/ MoveGeneration(t) \/ WritePointer(t) \/ RecordRow(t) \/ WriteMarker(t)
    \/ FinishIntent(t) \/ Return(t)

UnitNext(t) ==
    \/ Stage(t) \/ WriteIntent(t) \/ CommitStep(t) \/ Interrupt(t) \/ LosePower(t)
    \/ StartAbort(t) \/ Abort(t) \/ EndAbort(t)

RecoveryStep ==
    \/ EndRecovery
    \/ \E t \in Tx :
         \/ RecoverPointer(t) \/ RefuseMismatch(t) \/ RecoverRow(t) \/ RecoverMarker(t)
         \/ RecoverIntent(t) \/ RestorePointer(t) \/ RollBackIntent(t) \/ ClearStaging(t)

Next ==
    \/ \E t \in Tx : UnitNext(t) \/ TearIntent(t)
    \/ StartRecovery \/ RecoveryStep \/ StopRecovery

Spec == Init /\ [][Next]_vars

-----------------------------------------------------------------------------
(* Properties                                                               *)

\* Whoever follows current.json finds a complete generation, at every moment of
\* every commit, abort and recovery, unless a power loss took its writes back.
PointerSafe ==
    \A n \in Namespace :
        pointer[n] # None => nsOf[pointer[n]] = n /\ pointer[n] \in generation \cup lost

\* Commit and recovery together are a compare-and-set on current.json: no
\* crash, power loss, retry or recovery makes a transaction current over one it
\* has not seen.
Published == INSTANCE ConditionalPublish WITH current <- pointer
ImplementsConditionalPublish == Published!Spec

\* A generation that was superseded never becomes current again, except in
\* place of one that a power loss struck, or after being struck itself.
NeverRepublished ==
    [][\A n \in Namespace :
         pointer'[n] \in published /\ pointer'[n] # pointer[n] =>
             pointer[n] \in lost' \/ pointer'[n] \in lost']_vars

\* Once commit has returned, the transaction is complete in all five places and
\* no later crash, recovery or power loss that strikes other transactions
\* touches it, until its own unit aborts it.  A power loss that strikes the
\* transaction itself can take anything but the row: nothing else is synced.
DoneIsDurable ==
    \A t \in Tx : pc[t] = "done" =>
        /\ t \in row \cap published
        /\ t \notin lost => t \in generation \cap marker /\ intent[t] = "committed" /\ t \notin staging

\* All or nothing, for a transaction that has an intent.  An abort may have
\* taken the marker.
CommittedEverywhere(t) ==
    /\ t \in generation \cap row \cap published /\ intent[t] = "committed"
    /\ t \in marker \cup aborts

CommittedNowhere(t) ==
    /\ t \notin generation \cup row \cup marker \cup staging
    /\ pointer[nsOf[t]] # t /\ intent[t] = "rolled_back"

\* When recover reports "passed", every transaction with an intent that no
\* power loss struck is committed everywhere or nowhere.
RecoveryIsComplete ==
    [][EndRecovery =>
         \A t \in Tx \ lost :
             intent[t] # "absent" => CommittedEverywhere(t) \/ CommittedNowhere(t)]_vars

\* Another transaction became current from the generation t was prepared
\* against, or from t itself, before t was recovered.
Overtaken(t) ==
    \E u \in published \ {t} : nsOf[u] = nsOf[t] /\ base[u] \in {base[t], t}

\* Recovery refuses an interrupted transaction only when another commit in its
\* namespace overtook it, or when a power loss struck its base.
RefusesOnlyOvertaken ==
    [][\A t \in Tx : RefuseMismatch(t) => Overtaken(t) \/ base[t] \in lost]_vars

\* --- the inductive invariant behind the theorems ---

\* The lock holder is the one commit or recovery that is between two writes.
OneCommitter ==
    /\ \A t \in Tx : pc[t] \in Committing <=> holder = t
    /\ todo # {} => holder = Recovery

\* Each step of commit finds what the steps before it have written, and only a
\* power loss takes it back.
StepsInOrder ==
    \A t \in Tx :
        /\ pc[t] = "new" => intent[t] = "absent" /\ t \notin todo
        /\ pc[t] \in Committing \cup {"new", "staged", "failed", "aborting"} => t \notin lost
        /\ pc[t] \in {"generation", "pointer", "row", "marker", "finished", "done"} =>
              t \in (generation \ staging) \cup lost
        /\ pc[t] \in {"pointer", "row", "marker", "finished", "done"} => t \in published
        /\ pc[t] \in {"row", "marker", "finished", "done"} => t \in row
        /\ pc[t] \in {"marker", "finished", "done"} => t \in marker \cup lost
        /\ pc[t] \in {"finished", "done"} => intent[t] = "committed" \/ t \in lost
        /\ pc[t] = "done" => t \notin todo \/ t \in lost
        /\ pc[t] = "aborting" => t \in aborts

\* The pointer a commit read in its intent is still there when it replaces it,
\* and what it read names a generation.
BaseIsCurrent ==
    \A t \in Tx :
        /\ pc[t] \in {"intent", "generation"} => pointer[nsOf[t]] = base[t]
        /\ base[t] # None => nsOf[base[t]] = nsOf[t] /\ base[t] \in generation \cup lost

\* Why current.json always has a generation behind it and a fixed base.
ArtifactInvariant == TypeOK /\ OneCommitter /\ StepsInOrder /\ BaseIsCurrent /\ PointerSafe
=============================================================================
