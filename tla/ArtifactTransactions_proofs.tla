-------------------- MODULE ArtifactTransactions_proofs --------------------
(***************************************************************************)
(* TLAPS proofs about ArtifactTransactions, for any transactions and       *)
(* namespaces, any interleaving of commits and recoveries, any crash.      *)
(***************************************************************************)
EXTENDS ArtifactTransactions, TLAPS

\* An empty workspace satisfies the inductive invariant.
LEMMA InitInvariant == Init => ArtifactInvariant
<1> SUFFICES ASSUME Init PROVE ArtifactInvariant
  OBVIOUS
<1> USE ArtifactAssumption DEF Init
<1>1. TypeOK
  BY DEF TypeOK, Committing
<1>2. OneCommitter /\ StepsInOrder
  BY DEF OneCommitter, StepsInOrder, Committing
<1>3. BaseIsCurrent /\ PointerSafe
  BY DEF BaseIsCurrent, PointerSafe
<1> QED
  BY <1>1, <1>2, <1>3 DEF ArtifactInvariant

\* A power loss ends every process and takes writes of one transaction back.
LEMMA PowerLost ==
  ASSUME TypeOK, NEW t \in Tx, LosePower(t)
  PROVE  /\ TypeOK'
         /\ \A u \in Tx : pc'[u] = IF pc[u] \in Committing \cup {"staged", "failed", "aborting"} THEN "dead" ELSE pc[u]
         /\ \A u \in Tx : u # t => intent'[u] = intent[u]
         /\ intent[t] # "absent" /\ intent'[t] \in {intent[t], "prepared", "absent"}
         /\ generation' \subseteq generation /\ generation \subseteq generation' \cup {t}
         /\ marker' \subseteq marker /\ marker \subseteq marker' \cup {t}
         /\ staging' \in {staging \ {t}, staging \cup ({t} \ generation')}
         /\ \A u \in Tx : u # t => (u \in staging' <=> u \in staging)
         /\ lost' = lost \cup {t} /\ holder' = None /\ todo' = {} /\ step' = "pointer"
         /\ UNCHANGED <<base, row, published, aborts>>
<1> USE ArtifactAssumption
<1>1. PICK status \in {intent[t], "prepared", "absent"} : intent' = [intent EXCEPT ![t] = status]
  BY DEF LosePower
<1>2. /\ generation' \in {generation, generation \ {t}}
      /\ staging' \in {staging \ {t}, staging \cup ({t} \ generation')}
      /\ marker' \in {marker, marker \ {t}}
      /\ intent[t] # "absent" /\ lost' = lost \cup {t} /\ losses' = losses + 1
      /\ holder' = None /\ todo' = {} /\ step' = "pointer"
      /\ UNCHANGED <<base, row, outcome, published, aborts>>
  BY DEF LosePower
<1>3. pc' = [u \in Tx |-> IF pc[u] \in Committing \cup {"staged", "failed", "aborting"} THEN "dead" ELSE pc[u]]
  BY DEF LosePower
<1>4. pointer' \in [Namespace -> Tx \cup {None}]
  <2>1. pointer' = pointer \/ (\E v \in {base[t], t} : pointer' = [pointer EXCEPT ![nsOf[t]] = v])
    BY DEF LosePower, LosePointer
  <2>2. pointer \in [Namespace -> Tx \cup {None}] /\ base[t] \in Tx \cup {None}
    BY DEF TypeOK
  <2> QED
    BY <2>1, <2>2
<1>5. intent' \in [Tx -> {"absent", "prepared", "committed", "rolled_back", "torn"}]
  BY <1>1 DEF TypeOK
<1>6. pc' \in [Tx -> Committing \cup {"new", "staged", "done", "failed", "dead", "aborting", "aborted"}]
  <2> DEFINE Pc == Committing \cup {"new", "staged", "done", "failed", "dead", "aborting", "aborted"}
             Dead == Committing \cup {"staged", "failed", "aborting"}
             next(u) == IF pc[u] \in Dead THEN "dead" ELSE pc[u]
  <2>1. \A u \in Tx : pc[u] \in Pc
    BY DEF TypeOK
  <2>2. "dead" \in Pc
    OBVIOUS
  <2> HIDE DEF Pc
  <2>3. \A u \in Tx : next(u) \in Pc
    BY <2>1, <2>2
  <2>4. pc' = [u \in Tx |-> next(u)]
    BY <1>3
  <2> HIDE DEF next
  <2>5. pc' \in [Tx -> Pc]
    BY <2>3, <2>4
  <2> QED
    BY <2>5, Zenon DEF Pc
<1>7. (losses + 1) \in Nat
  <2>1. losses \in Nat
    BY DEF TypeOK
  <2> QED
    BY <2>1
<1>8. staging' \subseteq Tx /\ generation' \subseteq Tx /\ marker' \subseteq Tx /\ lost' \subseteq Tx
  BY <1>2 DEF TypeOK
<1>9. TypeOK'
  BY <1>2, <1>4, <1>5, <1>6, <1>7, <1>8 DEF TypeOK
<1>10. /\ \A u \in Tx : pc'[u] = IF pc[u] \in Committing \cup {"staged", "failed", "aborting"} THEN "dead" ELSE pc[u]
       /\ \A u \in Tx : u # t => intent'[u] = intent[u]
       /\ intent'[t] \in {intent[t], "prepared", "absent"}
  BY <1>1, <1>3 DEF TypeOK
<1>11. /\ generation' \subseteq generation /\ generation \subseteq generation' \cup {t}
       /\ marker' \subseteq marker /\ marker \subseteq marker' \cup {t}
       /\ \A u \in Tx : u # t => (u \in staging' <=> u \in staging)
  BY <1>2
<1> QED
  BY <1>2, <1>9, <1>10, <1>11

\* Every step of a commit, of recovery and of a crash keeps the types.
LEMMA StepType ==
  ASSUME TypeOK, [Next]_vars PROVE TypeOK'
<1> USE ArtifactAssumption DEF TypeOK, Committing, Advance, At, files, recovery, history
<1>1. ASSUME NEW t \in Tx, Stage(t) PROVE TypeOK'
  BY <1>1 DEF Stage
<1>2. ASSUME NEW t \in Tx, WriteIntent(t) PROVE TypeOK'
  BY <1>2 DEF WriteIntent
<1>3. ASSUME NEW t \in Tx, MoveGeneration(t) PROVE TypeOK'
  BY <1>3 DEF MoveGeneration
<1>4. ASSUME NEW t \in Tx, WritePointer(t) PROVE TypeOK'
  BY <1>4 DEF WritePointer
<1>5. ASSUME NEW t \in Tx, RecordRow(t) PROVE TypeOK'
  BY <1>5 DEF RecordRow
<1>6. ASSUME NEW t \in Tx, WriteMarker(t) PROVE TypeOK'
  BY <1>6 DEF WriteMarker
<1>7. ASSUME NEW t \in Tx, FinishIntent(t) PROVE TypeOK'
  BY <1>7 DEF FinishIntent
<1>8. ASSUME NEW t \in Tx, Return(t) PROVE TypeOK'
  BY <1>8 DEF Return
<1>9. ASSUME NEW t \in Tx, Interrupt(t) PROVE TypeOK'
  BY <1>9 DEF Interrupt
<1>10. ASSUME NEW t \in Tx, LosePower(t) PROVE TypeOK'
  BY <1>10, PowerLost
<1>11. ASSUME NEW t \in Tx, StartAbort(t) PROVE TypeOK'
  BY <1>11 DEF StartAbort
<1>25. ASSUME NEW t \in Tx, Abort(t) PROVE TypeOK'
  BY <1>25 DEF Abort
<1>26. ASSUME NEW t \in Tx, EndAbort(t) PROVE TypeOK'
  BY <1>26 DEF EndAbort
<1>12. ASSUME NEW t \in Tx, TearIntent(t) PROVE TypeOK'
  BY <1>12 DEF TearIntent
<1>13. ASSUME NEW t \in Tx, RecoverPointer(t) PROVE TypeOK'
  BY <1>13 DEF RecoverPointer
<1>14. ASSUME NEW t \in Tx, RefuseMismatch(t) PROVE TypeOK'
  BY <1>14 DEF RefuseMismatch, Refuse
<1>15. ASSUME NEW t \in Tx, RecoverRow(t) PROVE TypeOK'
  BY <1>15 DEF RecoverRow
<1>16. ASSUME NEW t \in Tx, RecoverMarker(t) PROVE TypeOK'
  BY <1>16 DEF RecoverMarker, Refuse
<1>17. ASSUME NEW t \in Tx, RecoverIntent(t) PROVE TypeOK'
  BY <1>17 DEF RecoverIntent, Refuse
<1>18. ASSUME NEW t \in Tx, RestorePointer(t) PROVE TypeOK'
  <2> HIDE DEF TypeOK
  <2>1. pointer' \in [Namespace -> Tx \cup {None}]
    <3>1. \/ pointer' = pointer
          \/ \E v \in {base[t], pointer[nsOf[t]]} : pointer' = [pointer EXCEPT ![nsOf[t]] = v]
      BY <1>18 DEF RestorePointer
    <3>2. nsOf[t] \in Namespace /\ base[t] \in Tx \cup {None}
      BY DEF TypeOK
    <3>3. pointer \in [Namespace -> Tx \cup {None}]
      BY DEF TypeOK
    <3> QED
      BY <3>1, <3>2, <3>3
  <2>2. /\ UNCHANGED <<losses, aborts>>
        /\ step' \in {"pointer", "restored"} /\ holder' \in {holder, None} /\ todo' \in {todo, {}}
        /\ outcome' \in {outcome, "previous missing"}
    BY <1>18 DEF RestorePointer, Refuse
  <2>3. UNCHANGED <<staging, intent, base, generation, row, marker, pc, published, lost>>
    BY <1>18 DEF RestorePointer
  <2> QED
    BY <2>1, <2>2, <2>3 DEF TypeOK
<1>19. ASSUME NEW t \in Tx, RollBackIntent(t) PROVE TypeOK'
  BY <1>19 DEF RollBackIntent, Refuse
<1>20. ASSUME NEW t \in Tx, ClearStaging(t) PROVE TypeOK'
  BY <1>20 DEF ClearStaging
<1>21. ASSUME StartRecovery PROVE TypeOK'
  <2> HIDE DEF TypeOK
  <2>1. Unfinished \subseteq Tx
    BY DEF Unfinished
  <2> QED
    <3>1. CASE outcome' = "unreadable" /\ UNCHANGED <<holder, todo, step>>
      BY <1>21, <3>1 DEF StartRecovery, TypeOK
    <3>2. CASE outcome' = "none" /\ holder' = Recovery /\ todo' = Unfinished /\ step' = "pointer"
      BY <1>21, <2>1, <3>2 DEF StartRecovery, TypeOK
    <3> QED
      BY <1>21, <3>1, <3>2 DEF StartRecovery
<1>22. ASSUME EndRecovery PROVE TypeOK'
  BY <1>22 DEF EndRecovery
<1>23. ASSUME StopRecovery PROVE TypeOK'
  BY <1>23 DEF StopRecovery
<1>24. ASSUME UNCHANGED vars PROVE TypeOK'
  BY <1>24 DEF vars
<1> QED
  BY <1>1, <1>2, <1>3, <1>4, <1>5, <1>6, <1>7, <1>8, <1>9, <1>10, <1>11, <1>12, <1>13, <1>14, <1>15, <1>16, <1>17, <1>18, <1>19, <1>20, <1>21, <1>22, <1>23, <1>24, <1>25, <1>26
  DEF Next, UnitNext, CommitStep, RecoveryStep

\* Only the commit that took the lock is between two of its writes.
LEMMA StepLock ==
  ASSUME TypeOK, OneCommitter, [Next]_vars PROVE OneCommitter'
<1> USE ArtifactAssumption DEF TypeOK, OneCommitter, Committing, Advance, At, files, recovery, history
<1>1. ASSUME NEW t \in Tx, Stage(t) PROVE OneCommitter'
  BY <1>1 DEF Stage
<1>2. ASSUME NEW t \in Tx, WriteIntent(t) PROVE OneCommitter'
  BY <1>2 DEF WriteIntent
<1>3. ASSUME NEW t \in Tx, MoveGeneration(t) PROVE OneCommitter'
  BY <1>3 DEF MoveGeneration
<1>4. ASSUME NEW t \in Tx, WritePointer(t) PROVE OneCommitter'
  BY <1>4 DEF WritePointer
<1>5. ASSUME NEW t \in Tx, RecordRow(t) PROVE OneCommitter'
  BY <1>5 DEF RecordRow
<1>6. ASSUME NEW t \in Tx, WriteMarker(t) PROVE OneCommitter'
  BY <1>6 DEF WriteMarker
<1>7. ASSUME NEW t \in Tx, FinishIntent(t) PROVE OneCommitter'
  BY <1>7 DEF FinishIntent
<1>8. ASSUME NEW t \in Tx, Return(t) PROVE OneCommitter'
  BY <1>8 DEF Return
<1>9. ASSUME NEW t \in Tx, Interrupt(t) PROVE OneCommitter'
  BY <1>9 DEF Interrupt
<1>10. ASSUME NEW t \in Tx, LosePower(t) PROVE OneCommitter'
  <2> HIDE DEF TypeOK
  <2>1. /\ \A u \in Tx : pc'[u] \notin Committing
        /\ holder' = None /\ todo' = {}
    BY <1>10, PowerLost
  <2> QED
    BY <2>1
<1>11. ASSUME NEW t \in Tx, StartAbort(t) PROVE OneCommitter'
  BY <1>11 DEF StartAbort
<1>25. ASSUME NEW t \in Tx, Abort(t) PROVE OneCommitter'
  BY <1>25 DEF Abort
<1>26. ASSUME NEW t \in Tx, EndAbort(t) PROVE OneCommitter'
  <2> HIDE DEF TypeOK, OneCommitter
  <2>1. /\ pc[t] = "aborting" /\ pc' \in {[pc EXCEPT ![t] = "aborted"], [pc EXCEPT ![t] = "failed"]}
        /\ holder' = holder /\ todo' = todo
    BY <1>26 DEF EndAbort
  <2>2. \A u \in Tx : pc'[u] \in Committing <=> pc[u] \in Committing
    BY <2>1 DEF TypeOK
  <2> QED
    BY <2>1, <2>2 DEF OneCommitter
<1>12. ASSUME NEW t \in Tx, TearIntent(t) PROVE OneCommitter'
  BY <1>12 DEF TearIntent
<1>13. ASSUME NEW t \in Tx, RecoverPointer(t) PROVE OneCommitter'
  BY <1>13 DEF RecoverPointer
<1>14. ASSUME NEW t \in Tx, RefuseMismatch(t) PROVE OneCommitter'
  BY <1>14 DEF RefuseMismatch, Refuse
<1>15. ASSUME NEW t \in Tx, RecoverRow(t) PROVE OneCommitter'
  BY <1>15 DEF RecoverRow
<1>16. ASSUME NEW t \in Tx, RecoverMarker(t) PROVE OneCommitter'
  BY <1>16 DEF RecoverMarker, Refuse
<1>17. ASSUME NEW t \in Tx, RecoverIntent(t) PROVE OneCommitter'
  BY <1>17 DEF RecoverIntent, Refuse
<1>18. ASSUME NEW t \in Tx, RestorePointer(t) PROVE OneCommitter'
  <2> HIDE DEF TypeOK, OneCommitter
  <2>1. holder = Recovery /\ pc' = pc
    BY <1>18 DEF RestorePointer
  <2>2. (holder' = None /\ todo' = {}) \/ holder' = Recovery
    BY <1>18 DEF RestorePointer, Refuse
  <2>3. \A u \in Tx : pc[u] \notin Committing
    BY <2>1 DEF OneCommitter
  <2> QED
    BY <2>1, <2>2, <2>3 DEF OneCommitter
<1>19. ASSUME NEW t \in Tx, RollBackIntent(t) PROVE OneCommitter'
  BY <1>19 DEF RollBackIntent, Refuse
<1>20. ASSUME NEW t \in Tx, ClearStaging(t) PROVE OneCommitter'
  BY <1>20 DEF ClearStaging
<1>21. ASSUME StartRecovery PROVE OneCommitter'
  <2> HIDE DEF TypeOK, OneCommitter
  <2>1. holder = None /\ pc' = pc
    BY <1>21 DEF StartRecovery
  <2>2. (holder' = None /\ todo' = todo) \/ holder' = Recovery
    BY <1>21 DEF StartRecovery
  <2>3. (\A u \in Tx : pc[u] \notin Committing) /\ todo = {}
    BY <2>1 DEF OneCommitter
  <2> QED
    BY <2>1, <2>2, <2>3 DEF OneCommitter
<1>22. ASSUME EndRecovery PROVE OneCommitter'
  BY <1>22 DEF EndRecovery
<1>23. ASSUME StopRecovery PROVE OneCommitter'
  BY <1>23 DEF StopRecovery
<1>24. ASSUME UNCHANGED vars PROVE OneCommitter'
  BY <1>24 DEF vars
<1> QED
  BY <1>1, <1>2, <1>3, <1>4, <1>5, <1>6, <1>7, <1>8, <1>9, <1>10, <1>11, <1>12, <1>13, <1>14, <1>15, <1>16, <1>17, <1>18, <1>19, <1>20, <1>21, <1>22, <1>23, <1>24, <1>25, <1>26
  DEF Next, UnitNext, CommitStep, RecoveryStep

\* No step undoes what the earlier steps of a commit have written.
LEMMA StepOrder ==
  ASSUME TypeOK, OneCommitter, StepsInOrder, [Next]_vars PROVE StepsInOrder'
<1> USE ArtifactAssumption DEF TypeOK, OneCommitter, StepsInOrder, Committing, Advance, At, files, recovery, history
<1>1. ASSUME NEW t \in Tx, Stage(t) PROVE StepsInOrder'
  BY <1>1 DEF Stage
<1>2. ASSUME NEW t \in Tx, WriteIntent(t) PROVE StepsInOrder'
  BY <1>2 DEF WriteIntent
<1>3. ASSUME NEW t \in Tx, MoveGeneration(t) PROVE StepsInOrder'
  BY <1>3 DEF MoveGeneration
<1>4. ASSUME NEW t \in Tx, WritePointer(t) PROVE StepsInOrder'
  BY <1>4 DEF WritePointer
<1>5. ASSUME NEW t \in Tx, RecordRow(t) PROVE StepsInOrder'
  BY <1>5 DEF RecordRow
<1>6. ASSUME NEW t \in Tx, WriteMarker(t) PROVE StepsInOrder'
  BY <1>6 DEF WriteMarker
<1>7. ASSUME NEW t \in Tx, FinishIntent(t) PROVE StepsInOrder'
  BY <1>7 DEF FinishIntent
<1>8. ASSUME NEW t \in Tx, Return(t) PROVE StepsInOrder'
  BY <1>8 DEF Return
<1>9. ASSUME NEW t \in Tx, Interrupt(t) PROVE StepsInOrder'
  BY <1>9 DEF Interrupt
<1>10. ASSUME NEW t \in Tx, LosePower(t) PROVE StepsInOrder'
  <2> HIDE DEF TypeOK, OneCommitter, StepsInOrder
  <2>1. /\ \A u \in Tx : pc'[u] \notin Committing
        /\ \A u \in Tx : pc'[u] = "done" => pc[u] = "done"
        /\ \A u \in Tx : u # t => /\ u \in generation => u \in generation'
                                  /\ u \in marker => u \in marker'
                                  /\ u \in staging' => u \in staging
                                  /\ intent'[u] = intent[u]
        /\ lost' = lost \cup {t} /\ todo' = {} /\ UNCHANGED <<row, published>>
    BY <1>10, PowerLost
  <2>2. /\ \A u \in Tx : pc'[u] \notin Committing \cup {"staged", "failed", "aborting"}
        /\ \A u \in Tx : pc'[u] = "new" => pc[u] = "new"
        /\ intent[t] # "absent"
    BY <1>10, PowerLost
  <2>3. pc'[t] # "new"
    BY <2>2 DEF StepsInOrder
  <2>4. ASSUME NEW u \in Tx, pc'[u] = "done"
        PROVE  /\ u \in (generation' \ staging') \cup lost'
               /\ u \in published' /\ u \in row' /\ u \in marker' \cup lost'
               /\ intent'[u] = "committed" \/ u \in lost'
               /\ u \notin todo' \/ u \in lost'
    <3>1. pc[u] = "done"
      BY <2>1, <2>4, Zenon
    <3>2. /\ u \in (generation \ staging) \cup lost
          /\ u \in published /\ u \in row /\ u \in marker \cup lost
          /\ intent[u] = "committed" \/ u \in lost
          /\ u \notin todo \/ u \in lost
      BY <3>1 DEF StepsInOrder
    <3>3. u # t => /\ u \in generation => u \in generation'
                   /\ u \in marker => u \in marker'
                   /\ u \in staging' => u \in staging
                   /\ intent'[u] = intent[u]
      BY <2>1, Zenon
    <3>4. lost' = lost \cup {t} /\ todo' = {} /\ UNCHANGED <<row, published>>
      BY <2>1
    <3> QED
      BY <3>2, <3>3, <3>4
  <2>5. ASSUME NEW u \in Tx, pc'[u] = "new"
        PROVE  intent'[u] = "absent" /\ u \notin todo' /\ u \notin lost'
    <3>1. pc[u] = "new" /\ u # t
      BY <2>2, <2>3, <2>5, Zenon
    <3>2. intent[u] = "absent" /\ u \notin lost
      BY <3>1 DEF StepsInOrder
    <3>3. intent'[u] = intent[u]
      BY <2>1, <3>1, Zenon
    <3> QED
      BY <2>1, <3>1, <3>2, <3>3
  <2>6. \A u \in Tx : pc'[u] \notin {"intent", "generation", "pointer", "row", "marker", "finished",
                                  "staged", "failed", "aborting"}
    BY <2>2 DEF Committing
  <2> QED
    BY <2>4, <2>5, <2>6 DEF StepsInOrder, Committing
<1>11. ASSUME NEW t \in Tx, StartAbort(t) PROVE StepsInOrder'
  BY <1>11 DEF StartAbort
<1>25. ASSUME NEW t \in Tx, Abort(t) PROVE StepsInOrder'
  <2> HIDE DEF TypeOK, OneCommitter, StepsInOrder
  <2>1. /\ pc[t] = "aborting"
        /\ UNCHANGED <<base, generation, pointer, row, pc, holder, todo, published, lost, aborts>>
    BY <1>25 DEF Abort
  <2>2. /\ staging' \subseteq staging
        /\ \A u \in Tx : u # t => (u \in marker => u \in marker')
    BY <1>25 DEF Abort
  <2>3. \A u \in Tx : u # t => intent'[u] = intent[u]
    <3>1. intent' \in {intent, [intent EXCEPT ![t] = "absent"]}
      BY <1>25 DEF Abort
    <3> QED
      BY <3>1 DEF TypeOK
  <2>4. ASSUME NEW u \in Tx, u # t
        PROVE  /\ intent'[u] = intent[u]
               /\ u \in staging' => u \in staging
               /\ u \in marker => u \in marker'
    BY <2>2, <2>3, <2>4, Zenon
  <2>5. t \notin lost /\ t \in aborts
    BY <2>1 DEF StepsInOrder
  <2>6. \A u \in Tx : u # t =>
          /\ pc[u] = "new" => intent'[u] = "absent" /\ u \notin todo
          /\ pc[u] \in {"generation", "pointer", "row", "marker", "finished", "done"} =>
                u \in (generation \ staging') \cup lost
          /\ pc[u] \in {"marker", "finished", "done"} => u \in marker' \cup lost
          /\ pc[u] \in {"finished", "done"} => intent'[u] = "committed" \/ u \in lost
    <3> TAKE u \in Tx
    <3> HAVE u # t
    <3>1. /\ intent'[u] = intent[u]
          /\ u \in staging' => u \in staging
          /\ u \in marker => u \in marker'
      BY <2>4
    <3> QED
      BY <3>1 DEF StepsInOrder
  <2>7. pc' = pc /\ row' = row /\ published' = published /\ lost' = lost /\ aborts' = aborts
        /\ generation' = generation /\ todo' = todo
    BY <2>1
  <2>8. pc[t] = "aborting"
    BY <2>1
  <2> QED
    BY <2>5, <2>6, <2>7, <2>8 DEF StepsInOrder
<1>26. ASSUME NEW t \in Tx, EndAbort(t) PROVE StepsInOrder'
  <2> HIDE DEF TypeOK, OneCommitter, StepsInOrder
  <2>1. /\ pc[t] = "aborting" /\ pc' \in {[pc EXCEPT ![t] = "aborted"], [pc EXCEPT ![t] = "failed"]}
        /\ UNCHANGED <<files, todo, published, lost, aborts>>
    BY <1>26 DEF EndAbort
  <2>2. pc'[t] \in {"aborted", "failed"} /\ \A u \in Tx : u # t => pc'[u] = pc[u]
    BY <2>1 DEF TypeOK
  <2>3. t \notin lost
    BY <2>1 DEF StepsInOrder
  <2> QED
    BY <2>1, <2>2, <2>3 DEF StepsInOrder
<1>12. ASSUME NEW t \in Tx, TearIntent(t) PROVE StepsInOrder'
  <2> HIDE DEF TypeOK, OneCommitter, StepsInOrder
  <2>1. /\ t \in todo /\ holder = Recovery /\ todo' = {} /\ intent' = [intent EXCEPT ![t] = "torn"]
        /\ UNCHANGED <<staging, generation, row, marker, pc, published, lost, aborts>>
    BY <1>12 DEF TearIntent
  <2>2. \A u \in Tx : u # t => intent'[u] = intent[u]
    BY <2>1 DEF TypeOK
  <2>3. pc[t] # "new" /\ (pc[t] \in {"finished", "done"} => t \in lost)
    BY <2>1, ArtifactAssumption DEF StepsInOrder, OneCommitter
  <2> QED
    BY <2>1, <2>2, <2>3 DEF StepsInOrder
<1>13. ASSUME NEW t \in Tx, RecoverPointer(t) PROVE StepsInOrder'
  BY <1>13 DEF RecoverPointer
<1>14. ASSUME NEW t \in Tx, RefuseMismatch(t) PROVE StepsInOrder'
  BY <1>14 DEF RefuseMismatch, Refuse
<1>15. ASSUME NEW t \in Tx, RecoverRow(t) PROVE StepsInOrder'
  BY <1>15 DEF RecoverRow
<1>16. ASSUME NEW t \in Tx, RecoverMarker(t) PROVE StepsInOrder'
  BY <1>16 DEF RecoverMarker, Refuse
<1>17. ASSUME NEW t \in Tx, RecoverIntent(t) PROVE StepsInOrder'
  <2> HIDE DEF TypeOK, OneCommitter, StepsInOrder
  <2>1. /\ todo' \subseteq todo
        /\ UNCHANGED <<staging, generation, row, marker, pc, published, lost, aborts>>
    BY <1>17 DEF RecoverIntent, Refuse
  <2>2. t \in todo /\ (intent' = intent \/ intent' = [intent EXCEPT ![t] = "committed"])
    BY <1>17 DEF RecoverIntent
  <2>3. \A u \in Tx : u # t => intent'[u] = intent[u]
    BY <2>2 DEF TypeOK
  <2>4. intent'[t] = intent[t] \/ intent'[t] = "committed"
    BY <2>2 DEF TypeOK
  <2>5. pc[t] # "new"
    BY <2>2 DEF StepsInOrder
  <2> QED
    BY <2>1, <2>3, <2>4, <2>5 DEF StepsInOrder
<1>18. ASSUME NEW t \in Tx, RestorePointer(t) PROVE StepsInOrder'
  <2> HIDE DEF TypeOK, OneCommitter, StepsInOrder
  <2>1. /\ todo' \subseteq todo
        /\ UNCHANGED <<staging, intent, generation, row, marker, pc, published, lost, aborts>>
    BY <1>18 DEF RestorePointer, Refuse
  <2>2. \A u \in Tx : /\ pc[u] = "new" => u \notin todo'
                      /\ pc[u] = "done" => u \notin todo' \/ u \in lost
    BY <2>1 DEF StepsInOrder
  <2>3. /\ staging' = staging /\ intent' = intent /\ generation' = generation /\ row' = row
        /\ marker' = marker /\ pc' = pc /\ published' = published /\ lost' = lost /\ aborts' = aborts
    BY <2>1
  <2> QED
    BY <2>2, <2>3 DEF StepsInOrder
<1>19. ASSUME NEW t \in Tx, RollBackIntent(t) PROVE StepsInOrder'
  <2> HIDE DEF TypeOK, OneCommitter, StepsInOrder
  <2>1. /\ holder = Recovery /\ t \in todo /\ todo' \subseteq todo
        /\ intent' \in {intent, [intent EXCEPT ![t] = "rolled_back"]}
        /\ UNCHANGED <<staging, generation, row, marker, pc, published, lost, aborts>>
    BY <1>19 DEF RollBackIntent, Refuse
  <2>2. \A u \in Tx : u # t => intent'[u] = intent[u]
    BY <2>1 DEF TypeOK
  <2>3. pc[t] \notin Committing \cup {"new"}
    BY <2>1 DEF StepsInOrder, OneCommitter
  <2>4. pc[t] = "done" => t \in lost
    BY <2>1 DEF StepsInOrder
  <2> QED
    BY <2>1, <2>2, <2>3, <2>4 DEF StepsInOrder
<1>20. ASSUME NEW t \in Tx, ClearStaging(t) PROVE StepsInOrder'
  BY <1>20 DEF ClearStaging
<1>21. ASSUME StartRecovery PROVE StepsInOrder'
  <2> HIDE DEF TypeOK, OneCommitter, StepsInOrder
  <2>1. (todo' = todo \/ todo' = Unfinished) /\ UNCHANGED <<files, pc, history>>
    BY <1>21 DEF StartRecovery
  <2>2. \A u \in Tx : /\ pc[u] = "done" => u \notin todo' \/ u \in lost
                      /\ pc[u] = "new" => u \notin todo'
    BY <2>1 DEF Unfinished, StepsInOrder
  <2> QED
    BY <2>1, <2>2 DEF StepsInOrder
<1>22. ASSUME EndRecovery PROVE StepsInOrder'
  BY <1>22 DEF EndRecovery
<1>23. ASSUME StopRecovery PROVE StepsInOrder'
  BY <1>23 DEF StopRecovery
<1>24. ASSUME UNCHANGED vars PROVE StepsInOrder'
  BY <1>24 DEF vars
<1> QED
  BY <1>1, <1>2, <1>3, <1>4, <1>5, <1>6, <1>7, <1>8, <1>9, <1>10, <1>11, <1>12, <1>13, <1>14, <1>15, <1>16, <1>17, <1>18, <1>19, <1>20, <1>21, <1>22, <1>23, <1>24, <1>25, <1>26
  DEF Next, UnitNext, CommitStep, RecoveryStep

\* Nobody else moves the pointer while a commit is between intent and pointer.
LEMMA StepBase ==
  ASSUME TypeOK, OneCommitter, BaseIsCurrent, PointerSafe, [Next]_vars PROVE BaseIsCurrent'
<1>0. ASSUME UNCHANGED <<pointer, base>>, generation \cup lost \subseteq generation' \cup lost',
             \A u \in Tx : pc'[u] \in {"intent", "generation"} => pc[u] \in {"intent", "generation"}
      PROVE  BaseIsCurrent'
  BY <1>0 DEF BaseIsCurrent
<1> USE ArtifactAssumption DEF TypeOK, OneCommitter, BaseIsCurrent, PointerSafe, Committing, Advance, At, files, recovery, history
<1>1. ASSUME NEW t \in Tx, Stage(t) PROVE BaseIsCurrent'
  BY <1>1 DEF Stage
<1>2. ASSUME NEW t \in Tx, WriteIntent(t) PROVE BaseIsCurrent'
  <2> HIDE DEF OneCommitter, BaseIsCurrent, PointerSafe
  <2>1. pc' = [pc EXCEPT ![t] = "intent"] /\ pointer' = pointer
    BY <1>2 DEF WriteIntent
  <2>2. base' = [base EXCEPT ![t] = pointer[nsOf[t]]]
    BY <1>2 DEF WriteIntent
  <2>3. pointer[nsOf[t]] # None => /\ nsOf[pointer[nsOf[t]]] = nsOf[t]
                                   /\ pointer[nsOf[t]] \in generation \cup lost
    BY DEF PointerSafe
  <2>4. UNCHANGED <<generation, lost>>
    BY <1>2 DEF WriteIntent
  <2> QED
    BY <2>1, <2>2, <2>3, <2>4 DEF BaseIsCurrent
<1>3. ASSUME NEW t \in Tx, MoveGeneration(t) PROVE BaseIsCurrent'
  <2> HIDE DEF TypeOK, OneCommitter, BaseIsCurrent, PointerSafe
  <2>1. pc' = [pc EXCEPT ![t] = "generation"] /\ pc[t] = "intent" /\ UNCHANGED <<pointer, base, lost>>
        /\ generation' = generation \cup {t}
    BY <1>3 DEF MoveGeneration
  <2>2. \A u \in Tx : pc'[u] \in {"intent", "generation"} => pc[u] \in {"intent", "generation"}
    BY <2>1 DEF TypeOK
  <2> QED
    BY <1>0, <2>1, <2>2
<1>4. ASSUME NEW t \in Tx, WritePointer(t) PROVE BaseIsCurrent'
  <2> HIDE DEF OneCommitter, BaseIsCurrent, PointerSafe
  <2>1. \A u \in Tx : pc[u] \in {"intent", "generation"} => u = t
    BY <1>4 DEF WritePointer, OneCommitter
  <2>2. base' = base /\ pc' = [pc EXCEPT ![t] = "pointer"] /\ UNCHANGED <<generation, lost>>
    BY <1>4 DEF WritePointer
  <2>3. \A u \in Tx : pc'[u] \notin {"intent", "generation"}
    BY <2>1, <2>2
  <2> QED
    BY <2>2, <2>3 DEF BaseIsCurrent
<1>5. ASSUME NEW t \in Tx, RecordRow(t) PROVE BaseIsCurrent'
  <2> HIDE DEF TypeOK, OneCommitter, BaseIsCurrent, PointerSafe
  <2>1. pc' = [pc EXCEPT ![t] = "row"] /\ UNCHANGED <<pointer, base, generation, lost>>
    BY <1>5 DEF RecordRow
  <2>2. \A u \in Tx : pc'[u] \in {"intent", "generation"} => pc[u] \in {"intent", "generation"}
    BY <2>1 DEF TypeOK
  <2> QED
    BY <1>0, <2>1, <2>2
<1>6. ASSUME NEW t \in Tx, WriteMarker(t) PROVE BaseIsCurrent'
  <2> HIDE DEF TypeOK, OneCommitter, BaseIsCurrent, PointerSafe
  <2>1. pc' = [pc EXCEPT ![t] = "marker"] /\ UNCHANGED <<pointer, base, generation, lost>>
    BY <1>6 DEF WriteMarker
  <2>2. \A u \in Tx : pc'[u] \in {"intent", "generation"} => pc[u] \in {"intent", "generation"}
    BY <2>1 DEF TypeOK
  <2> QED
    BY <1>0, <2>1, <2>2
<1>7. ASSUME NEW t \in Tx, FinishIntent(t) PROVE BaseIsCurrent'
  <2> HIDE DEF TypeOK, OneCommitter, BaseIsCurrent, PointerSafe
  <2>1. pc' = [pc EXCEPT ![t] = "finished"] /\ UNCHANGED <<pointer, base, generation, lost>>
    BY <1>7 DEF FinishIntent
  <2>2. \A u \in Tx : pc'[u] \in {"intent", "generation"} => pc[u] \in {"intent", "generation"}
    BY <2>1 DEF TypeOK
  <2> QED
    BY <1>0, <2>1, <2>2
<1>8. ASSUME NEW t \in Tx, Return(t) PROVE BaseIsCurrent'
  <2> HIDE DEF TypeOK, OneCommitter, BaseIsCurrent, PointerSafe
  <2>1. pc' = [pc EXCEPT ![t] = "done"] /\ UNCHANGED <<pointer, base, generation, lost>>
    BY <1>8 DEF Return
  <2>2. \A u \in Tx : pc'[u] \in {"intent", "generation"} => pc[u] \in {"intent", "generation"}
    BY <2>1 DEF TypeOK
  <2> QED
    BY <1>0, <2>1, <2>2
<1>9. ASSUME NEW t \in Tx, Interrupt(t) PROVE BaseIsCurrent'
  <2> HIDE DEF TypeOK, OneCommitter, BaseIsCurrent, PointerSafe
  <2>1. pc' = [pc EXCEPT ![t] = "failed"] /\ UNCHANGED <<pointer, base, generation, lost>>
    BY <1>9 DEF Interrupt
  <2>2. \A u \in Tx : pc'[u] \in {"intent", "generation"} => pc[u] \in {"intent", "generation"}
    BY <2>1 DEF TypeOK
  <2> QED
    BY <1>0, <2>1, <2>2
<1>10. ASSUME NEW t \in Tx, LosePower(t) PROVE BaseIsCurrent'
  <2> HIDE DEF TypeOK, OneCommitter, BaseIsCurrent, PointerSafe
  <2>1. /\ \A u \in Tx : pc'[u] \notin {"intent", "generation"}
        /\ base' = base /\ generation \cup lost \subseteq generation' \cup lost'
    BY <1>10, PowerLost
  <2> QED
    BY <2>1 DEF BaseIsCurrent
<1>11. ASSUME NEW t \in Tx, StartAbort(t) PROVE BaseIsCurrent'
  BY <1>11 DEF StartAbort
<1>25. ASSUME NEW t \in Tx, Abort(t) PROVE BaseIsCurrent'
  <2> HIDE DEF TypeOK, OneCommitter, BaseIsCurrent, PointerSafe
  <2>1. UNCHANGED <<pointer, base, generation, lost, pc>>
    BY <1>25 DEF Abort
  <2> QED
    BY <1>0, <2>1
<1>26. ASSUME NEW t \in Tx, EndAbort(t) PROVE BaseIsCurrent'
  <2> HIDE DEF TypeOK, OneCommitter, BaseIsCurrent, PointerSafe
  <2>1. /\ pc' \in {[pc EXCEPT ![t] = "aborted"], [pc EXCEPT ![t] = "failed"]}
        /\ UNCHANGED <<pointer, base, generation, lost>>
    BY <1>26 DEF EndAbort
  <2>2. \A u \in Tx : pc'[u] \in {"intent", "generation"} => pc[u] \in {"intent", "generation"}
    BY <2>1 DEF TypeOK
  <2> QED
    BY <1>0, <2>1, <2>2
<1>12. ASSUME NEW t \in Tx, TearIntent(t) PROVE BaseIsCurrent'
  BY <1>12 DEF TearIntent
<1>13. ASSUME NEW t \in Tx, RecoverPointer(t) PROVE BaseIsCurrent'
  <2> HIDE DEF OneCommitter, BaseIsCurrent, PointerSafe
  <2>1. \A u \in Tx : pc[u] \in {"intent", "generation"} => FALSE
    BY <1>13 DEF RecoverPointer, OneCommitter
  <2>2. base' = base /\ pc' = pc /\ UNCHANGED <<generation, lost>>
    BY <1>13 DEF RecoverPointer
  <2>3. \A u \in Tx : pc'[u] \notin {"intent", "generation"}
    BY <2>1, <2>2
  <2> QED
    BY <2>2, <2>3 DEF BaseIsCurrent
<1>14. ASSUME NEW t \in Tx, RefuseMismatch(t) PROVE BaseIsCurrent'
  BY <1>14 DEF RefuseMismatch, Refuse
<1>15. ASSUME NEW t \in Tx, RecoverRow(t) PROVE BaseIsCurrent'
  BY <1>15 DEF RecoverRow
<1>16. ASSUME NEW t \in Tx, RecoverMarker(t) PROVE BaseIsCurrent'
  BY <1>16 DEF RecoverMarker, Refuse
<1>17. ASSUME NEW t \in Tx, RecoverIntent(t) PROVE BaseIsCurrent'
  BY <1>17 DEF RecoverIntent, Refuse
<1>18. ASSUME NEW t \in Tx, RestorePointer(t) PROVE BaseIsCurrent'
  <2> HIDE DEF OneCommitter, BaseIsCurrent, PointerSafe
  <2>1. \A u \in Tx : pc[u] \notin {"intent", "generation"}
    BY <1>18 DEF RestorePointer, OneCommitter
  <2>2. base' = base /\ pc' = pc /\ UNCHANGED <<generation, lost>>
    BY <1>18 DEF RestorePointer
  <2> QED
    BY <2>1, <2>2 DEF BaseIsCurrent
<1>19. ASSUME NEW t \in Tx, RollBackIntent(t) PROVE BaseIsCurrent'
  BY <1>19 DEF RollBackIntent, Refuse
<1>20. ASSUME NEW t \in Tx, ClearStaging(t) PROVE BaseIsCurrent'
  BY <1>20 DEF ClearStaging
<1>21. ASSUME StartRecovery PROVE BaseIsCurrent'
  BY <1>21 DEF StartRecovery, Unfinished
<1>22. ASSUME EndRecovery PROVE BaseIsCurrent'
  BY <1>22 DEF EndRecovery
<1>23. ASSUME StopRecovery PROVE BaseIsCurrent'
  BY <1>23 DEF StopRecovery
<1>24. ASSUME UNCHANGED vars PROVE BaseIsCurrent'
  BY <1>24 DEF vars
<1> QED
  BY <1>1, <1>2, <1>3, <1>4, <1>5, <1>6, <1>7, <1>8, <1>9, <1>10, <1>11, <1>12, <1>13, <1>14, <1>15, <1>16, <1>17, <1>18, <1>19, <1>20, <1>21, <1>22, <1>23, <1>24, <1>25, <1>26
  DEF Next, UnitNext, CommitStep, RecoveryStep

\* A generation is in place before the pointer names it, and is never removed
\* but by a power loss.
LEMMA StepPointer ==
  ASSUME TypeOK, StepsInOrder, BaseIsCurrent, PointerSafe, [Next]_vars PROVE PointerSafe'
<1> USE ArtifactAssumption DEF TypeOK, StepsInOrder, BaseIsCurrent, PointerSafe, Committing, Advance, At, files, recovery, history
<1>1. ASSUME NEW t \in Tx, Stage(t) PROVE PointerSafe'
  BY <1>1 DEF Stage
<1>2. ASSUME NEW t \in Tx, WriteIntent(t) PROVE PointerSafe'
  BY <1>2 DEF WriteIntent
<1>3. ASSUME NEW t \in Tx, MoveGeneration(t) PROVE PointerSafe'
  BY <1>3 DEF MoveGeneration
<1>4. ASSUME NEW t \in Tx, WritePointer(t) PROVE PointerSafe'
  <2> HIDE DEF TypeOK, StepsInOrder, BaseIsCurrent, PointerSafe
  <2>1. /\ pointer' = [pointer EXCEPT ![nsOf[t]] = t] /\ t \in generation
        /\ generation' = generation /\ lost' = lost
    BY <1>4 DEF WritePointer, StepsInOrder
  <2> QED
    BY <2>1 DEF PointerSafe, TypeOK
<1>5. ASSUME NEW t \in Tx, RecordRow(t) PROVE PointerSafe'
  BY <1>5 DEF RecordRow
<1>6. ASSUME NEW t \in Tx, WriteMarker(t) PROVE PointerSafe'
  BY <1>6 DEF WriteMarker
<1>7. ASSUME NEW t \in Tx, FinishIntent(t) PROVE PointerSafe'
  BY <1>7 DEF FinishIntent
<1>8. ASSUME NEW t \in Tx, Return(t) PROVE PointerSafe'
  BY <1>8 DEF Return
<1>9. ASSUME NEW t \in Tx, Interrupt(t) PROVE PointerSafe'
  BY <1>9 DEF Interrupt
<1>10. ASSUME NEW t \in Tx, LosePower(t) PROVE PointerSafe'
  <2> HIDE DEF TypeOK, StepsInOrder, BaseIsCurrent, PointerSafe
  <2>1. lost' = lost \cup {t} /\ generation \cup lost \subseteq generation' \cup lost'
    BY <1>10, PowerLost
  <2>2. base[t] # None => nsOf[base[t]] = nsOf[t] /\ base[t] \in generation \cup lost
    BY DEF BaseIsCurrent
  <2>3. CASE pointer' = pointer
    BY <2>1, <2>3 DEF PointerSafe
  <2>4. CASE pointer' = [pointer EXCEPT ![nsOf[t]] = base[t]]
    BY <2>1, <2>2, <2>4 DEF PointerSafe, TypeOK
  <2>5. CASE pointer' = [pointer EXCEPT ![nsOf[t]] = t]
    <3>1. pointer \in [Namespace -> Tx \cup {None}] /\ nsOf[t] \in Namespace
      BY Zenon, ArtifactAssumption DEF TypeOK
    <3>2. \A n \in Namespace : pointer'[n] = IF n = nsOf[t] THEN t ELSE pointer[n]
      BY <2>5, <3>1
    <3>3. t \in generation' \cup lost'
      BY <2>1
    <3> QED
      BY <2>1, <3>2, <3>3 DEF PointerSafe
  <2> QED
    BY <1>10, <2>3, <2>4, <2>5 DEF LosePower, LosePointer
<1>11. ASSUME NEW t \in Tx, StartAbort(t) PROVE PointerSafe'
  BY <1>11 DEF StartAbort
<1>25. ASSUME NEW t \in Tx, Abort(t) PROVE PointerSafe'
  BY <1>25 DEF Abort
<1>26. ASSUME NEW t \in Tx, EndAbort(t) PROVE PointerSafe'
  BY <1>26 DEF EndAbort
<1>12. ASSUME NEW t \in Tx, TearIntent(t) PROVE PointerSafe'
  BY <1>12 DEF TearIntent
<1>13. ASSUME NEW t \in Tx, RecoverPointer(t) PROVE PointerSafe'
  <2> HIDE DEF TypeOK, StepsInOrder, BaseIsCurrent, PointerSafe
  <2>1. /\ pointer' = [pointer EXCEPT ![nsOf[t]] = t] /\ t \in generation
        /\ generation' = generation /\ lost' = lost
    BY <1>13 DEF RecoverPointer
  <2> QED
    BY <2>1 DEF PointerSafe, TypeOK
<1>14. ASSUME NEW t \in Tx, RefuseMismatch(t) PROVE PointerSafe'
  BY <1>14 DEF RefuseMismatch, Refuse
<1>15. ASSUME NEW t \in Tx, RecoverRow(t) PROVE PointerSafe'
  BY <1>15 DEF RecoverRow
<1>16. ASSUME NEW t \in Tx, RecoverMarker(t) PROVE PointerSafe'
  BY <1>16 DEF RecoverMarker, Refuse
<1>17. ASSUME NEW t \in Tx, RecoverIntent(t) PROVE PointerSafe'
  BY <1>17 DEF RecoverIntent, Refuse
<1>18. ASSUME NEW t \in Tx, RestorePointer(t) PROVE PointerSafe'
  <2> HIDE DEF TypeOK, StepsInOrder, BaseIsCurrent, PointerSafe
  <2>1. generation' = generation /\ lost' = lost
    BY <1>18 DEF RestorePointer
  <2>2. CASE pointer[nsOf[t]] = t /\ base[t] \notin generation \cup {None}
    <3>1. pointer' = pointer
      BY <1>18, <2>2 DEF RestorePointer
    <3> QED
      BY <2>1, <3>1 DEF PointerSafe
  <2>3. CASE pointer[nsOf[t]] = t /\ base[t] \in generation \cup {None}
    <3>1. pointer' = [pointer EXCEPT ![nsOf[t]] = base[t]]
      BY <1>18, <2>3 DEF RestorePointer
    <3>2. base[t] # None => nsOf[base[t]] = nsOf[t]
      BY DEF BaseIsCurrent
    <3> QED
      BY <2>1, <2>3, <3>1, <3>2 DEF PointerSafe, TypeOK
  <2>4. CASE pointer[nsOf[t]] # t
    <3>1. pointer' = [pointer EXCEPT ![nsOf[t]] = pointer[nsOf[t]]]
      BY <1>18, <2>4 DEF RestorePointer
    <3> QED
      BY <2>1, <3>1 DEF PointerSafe, TypeOK
  <2> QED
    BY <2>2, <2>3, <2>4
<1>19. ASSUME NEW t \in Tx, RollBackIntent(t) PROVE PointerSafe'
  BY <1>19 DEF RollBackIntent, Refuse
<1>20. ASSUME NEW t \in Tx, ClearStaging(t) PROVE PointerSafe'
  BY <1>20 DEF ClearStaging
<1>21. ASSUME StartRecovery PROVE PointerSafe'
  BY <1>21 DEF StartRecovery, Unfinished
<1>22. ASSUME EndRecovery PROVE PointerSafe'
  BY <1>22 DEF EndRecovery
<1>23. ASSUME StopRecovery PROVE PointerSafe'
  BY <1>23 DEF StopRecovery
<1>24. ASSUME UNCHANGED vars PROVE PointerSafe'
  BY <1>24 DEF vars
<1> QED
  BY <1>1, <1>2, <1>3, <1>4, <1>5, <1>6, <1>7, <1>8, <1>9, <1>10, <1>11, <1>12, <1>13, <1>14, <1>15, <1>16, <1>17, <1>18, <1>19, <1>20, <1>21, <1>22, <1>23, <1>24, <1>25, <1>26
  DEF Next, UnitNext, CommitStep, RecoveryStep

\* The inductive invariant is kept by every step.
LEMMA StepInvariant == ArtifactInvariant /\ [Next]_vars => ArtifactInvariant'
  BY StepType, StepLock, StepOrder, StepBase, StepPointer DEF ArtifactInvariant

\* ArtifactInvariant holds in every reachable state: the lock really makes a
\* commit's reads of the pointer current when it writes, whatever was cut short.
THEOREM InvariantHolds == Spec => []ArtifactInvariant
<1>1. ArtifactInvariant /\ UNCHANGED vars => ArtifactInvariant'
  BY StepInvariant
<1> QED
  BY InitInvariant, StepInvariant, <1>1, PTL DEF Spec

\* Every variable keeps its type in every reachable state.
THEOREM TypeCorrect == Spec => []TypeOK
<1>1. ArtifactInvariant => TypeOK
  BY DEF ArtifactInvariant
<1> QED
  BY <1>1, InvariantHolds, PTL

\* Readers of current.json always find a complete generation of the namespace,
\* unless a power loss undid its rename.
THEOREM ReadersFindGeneration == Spec => []PointerSafe
<1>1. ArtifactInvariant => PointerSafe
  BY DEF ArtifactInvariant
<1> QED
  BY <1>1, InvariantHolds, PTL

\* What commit has returned stays complete, whatever crashes and recovers later,
\* until a power loss strikes it, which leaves the row, or its unit aborts it.
THEOREM CommitIsDurable == Spec => []DoneIsDurable
<1>1. ArtifactInvariant => DoneIsDurable
  BY DEF ArtifactInvariant, StepsInOrder, DoneIsDurable
<1> QED
  BY <1>1, InvariantHolds, PTL

\* The abstract register starts like the workspace.
LEMMA RefinesInit == Init => Published!Init
  BY DEF Init, Published!Init

\* Each step of commit or recovery is one compare-and-set of the pointer or
\* leaves the register alone.
LEMMA RefinesStep == ArtifactInvariant /\ [Next]_vars => [Published!Next]_<<pointer, base>>
<1> SUFFICES ASSUME ArtifactInvariant, [Next]_vars PROVE [Published!Next]_<<pointer, base>>
  OBVIOUS
<1> USE ArtifactAssumption DEF Advance, files, recovery, history
<1>1. ASSUME NEW t \in Tx, WriteIntent(t) PROVE [Published!Next]_<<pointer, base>>
  <2>1. Published!Prepare(t)
    BY <1>1 DEF WriteIntent, Published!Prepare
  <2> QED
    BY <2>1 DEF Published!Next
<1>2. ASSUME NEW t \in Tx, WritePointer(t) PROVE [Published!Next]_<<pointer, base>>
  <2>1. pointer[nsOf[t]] = base[t]
    BY <1>2 DEF WritePointer, ArtifactInvariant, BaseIsCurrent
  <2>2. Published!Publish(t)
    BY <1>2, <2>1 DEF WritePointer, Published!Publish
  <2> QED
    BY <2>2 DEF Published!Next
<1>3. ASSUME NEW t \in Tx, RecoverPointer(t) PROVE [Published!Next]_<<pointer, base>>
  <2>1. CASE pointer[nsOf[t]] = base[t]
    <3>1. Published!Publish(t)
      BY <1>3, <2>1 DEF RecoverPointer, Published!Publish
    <3> QED
      BY <3>1 DEF Published!Next
  <2>2. CASE pointer[nsOf[t]] = t
    BY <1>3, <2>2 DEF RecoverPointer, ArtifactInvariant, TypeOK
  <2> QED
    BY <1>3, <2>1, <2>2 DEF RecoverPointer
<1>4. ASSUME NEW t \in Tx, RestorePointer(t) PROVE [Published!Next]_<<pointer, base>>
  <2>1. CASE pointer[nsOf[t]] = t /\ base[t] \notin generation \cup {None}
    BY <1>4, <2>1 DEF RestorePointer
  <2>2. CASE pointer[nsOf[t]] = t /\ base[t] \in generation \cup {None}
    <3>1. Published!Withdraw(t)
      BY <1>4, <2>2 DEF RestorePointer, Published!Withdraw
    <3> QED
      BY <3>1 DEF Published!Next
  <2>3. CASE pointer[nsOf[t]] # t
    <3>1. pointer' = [pointer EXCEPT ![nsOf[t]] = pointer[nsOf[t]]] /\ base' = base
      BY <1>4, <2>3 DEF RestorePointer
    <3> QED
      BY <3>1 DEF ArtifactInvariant, TypeOK
  <2> QED
    BY <2>1, <2>2, <2>3
<1>5. ASSUME NEW t \in Tx,
            \/ Stage(t)
            \/ MoveGeneration(t)
            \/ RecordRow(t)
            \/ WriteMarker(t)
            \/ FinishIntent(t)
            \/ Return(t)
            \/ Interrupt(t)
            \/ StartAbort(t)
            \/ Abort(t)
            \/ EndAbort(t)
            \/ TearIntent(t)
            \/ RefuseMismatch(t)
            \/ RecoverRow(t)
            \/ RecoverMarker(t)
            \/ RecoverIntent(t)
            \/ RollBackIntent(t)
            \/ ClearStaging(t)
     PROVE UNCHANGED <<pointer, base>>
  BY <1>5 DEF Stage, MoveGeneration, RecordRow, WriteMarker, FinishIntent, Return, Interrupt, StartAbort, Abort, EndAbort, TearIntent, RefuseMismatch, RecoverRow, RecoverMarker, RecoverIntent, RollBackIntent, ClearStaging, Refuse
<1>6. ASSUME StartRecovery \/ EndRecovery \/ StopRecovery \/ UNCHANGED vars PROVE UNCHANGED <<pointer, base>>
  BY <1>6 DEF StartRecovery, EndRecovery, StopRecovery, vars
<1>7. ASSUME NEW t \in Tx, LosePower(t) PROVE [Published!Next]_<<pointer, base>>
  <2>1. base' = base
    BY <1>7 DEF LosePower
  <2>2. CASE pointer' = pointer
    BY <2>1, <2>2
  <2>3. CASE pointer[nsOf[t]] = t /\ pointer' = [pointer EXCEPT ![nsOf[t]] = base[t]]
    <3>1. Published!Withdraw(t)
      BY <2>1, <2>3 DEF Published!Withdraw
    <3> QED
      BY <3>1 DEF Published!Next
  <2>4. CASE pointer[nsOf[t]] = base[t] /\ pointer' = [pointer EXCEPT ![nsOf[t]] = t]
    <3>1. Published!Publish(t)
      BY <2>1, <2>4 DEF Published!Publish
    <3> QED
      BY <3>1 DEF Published!Next
  <2> QED
    BY <1>7, <2>2, <2>3, <2>4 DEF LosePower, LosePointer
<1> QED
  BY <1>1, <1>2, <1>3, <1>4, <1>5, <1>6, <1>7 DEF Next, UnitNext, CommitStep, RecoveryStep

\* Commits, crashes and recoveries together implement a compare-and-set on
\* current.json: no transaction becomes current over one it was not based on.
THEOREM Refinement == Spec => ImplementsConditionalPublish
<1>1. Spec => Published!Spec
  BY RefinesInit, RefinesStep, InvariantHolds, PTL DEF Spec, Published!Spec
<1> QED
  BY <1>1 DEF ImplementsConditionalPublish

-----------------------------------------------------------------------------
(* What the action properties rest on                                       *)

\* A transaction's files are in the staging directory or in the generation, and
\* each record of it is there only when those before it are, unless a power
\* loss struck it.
FilesAreInPlace ==
    \A t \in Tx :
        /\ t \in generation => t \notin staging
        /\ t \in row \cup marker => t \in generation \cup lost
        /\ t \in published => t \in generation \cup lost
        /\ pc[t] \in {"new", "staged"} => t \notin generation
        /\ pc[t] \in {"intent", "generation", "pointer", "row", "marker"} => intent[t] = "prepared"
        /\ pc[t] \in {"intent", "generation", "pointer"} => t \notin row \cup marker
        /\ pc[t] \in {"intent", "generation"} => t \notin published
        /\ intent[t] = "committed" =>
              t \in lost \/ (t \in generation \cap row \cap published /\ t \in marker \cup aborts)

\* A set of transactions with the bases of its members.
Closed(C) == \A c \in C : base[c] \in C \cup {None}

\* The bases lead from current.json back to the start without a circle, and a
\* transaction that became current and that no power loss struck is among them.
OneLine ==
    /\ \A n \in Namespace : pointer[n] \in published \cup {None}
    /\ \A t \in Tx : base[t] \in published \cup {None}
    /\ \A t \in Tx : \E C \in SUBSET Tx : Closed(C) /\ base[t] \in C \cup {None} /\ t \notin C
    /\ \A n \in Namespace, C \in SUBSET Tx :
          Closed(C) /\ pointer[n] \in C \cup {None} => {t \in published \ lost : nsOf[t] = n} \subseteq C

\* A transaction whose generation is there can still be made current, or
\* another one went past it.
CurrentOrOvertaken ==
    \A t \in generation : pointer[nsOf[t]] \in {t, base[t]} \/ Overtaken(t) \/ base[t] \in lost

\* What recovery has done for transaction t, the first that it has to finish.
UnderRecovery(t) ==
    /\ step \in {"row", "marker", "intent"} => t \in generation \cap published
    /\ step \in {"marker", "intent"} => t \in row
    /\ step = "intent" => t \in marker \cup aborts
    /\ step \in {"restored", "staging"} => t \notin generation /\ pointer[nsOf[t]] # t
    /\ step = "staging" => intent[t] \in {"rolled_back", "absent"}

\* While recovery runs, what it has left behind is complete.
RecoveredSoFar ==
    holder = Recovery =>
        /\ \A t \in Tx \ (todo \cup lost) : intent[t] # "absent" => CommittedEverywhere(t) \/ CommittedNowhere(t)
        /\ \A t \in todo : (\A u \in todo : t <= u) => UnderRecovery(t)

TransactionInvariant ==
    ArtifactInvariant /\ FilesAreInPlace /\ OneLine /\ CurrentOrOvertaken /\ RecoveredSoFar

\* An empty workspace has nothing to recover.
LEMMA InitTransactions == Init => TransactionInvariant
<1> SUFFICES ASSUME Init PROVE TransactionInvariant
  OBVIOUS
<1>1. ArtifactInvariant
  BY InitInvariant
<1> USE ArtifactAssumption DEF Init
<1>2. FilesAreInPlace /\ CurrentOrOvertaken
  BY DEF FilesAreInPlace, CurrentOrOvertaken
<1>4. \A t \in Tx : Closed({}) /\ base[t] \in {} \cup {None} /\ t \notin {}
  BY DEF Closed
<1>5. \A t \in Tx : \E C \in SUBSET Tx : Closed(C) /\ base[t] \in C \cup {None} /\ t \notin C
  BY <1>4
<1>6. OneLine
  BY <1>5 DEF OneLine
<1>3. RecoveredSoFar
  BY DEF RecoveredSoFar
<1> QED
  BY <1>1, <1>2, <1>3, <1>6 DEF TransactionInvariant

\* Every step keeps the files in place: recovery ends a commit where commit would have.
LEMMA StepFiles ==
  ASSUME ArtifactInvariant, FilesAreInPlace, RecoveredSoFar, [Next]_vars PROVE FilesAreInPlace'
<1> USE ArtifactAssumption DEF ArtifactInvariant, TypeOK, OneCommitter, StepsInOrder, FilesAreInPlace, Committing,
                          Advance, At, files, recovery, history
<1>1. ASSUME NEW t \in Tx, Stage(t) PROVE FilesAreInPlace'
  BY <1>1 DEF Stage
<1>2. ASSUME NEW t \in Tx, WriteIntent(t) PROVE FilesAreInPlace'
  <2> HIDE DEF ArtifactInvariant, TypeOK, OneCommitter, StepsInOrder, FilesAreInPlace
  <2>1. t \notin generation \cup row \cup marker \cup published \cup lost
    <3>1. t \in staging /\ pc[t] \in {"staged", "failed"}
      BY <1>2 DEF WriteIntent
    <3>2. t \notin lost
      BY <3>1 DEF ArtifactInvariant, StepsInOrder
    <3> QED
      BY <3>1, <3>2 DEF FilesAreInPlace
  <2>2. /\ pc' = [pc EXCEPT ![t] = "intent"] /\ intent' = [intent EXCEPT ![t] = "prepared"]
        /\ aborts' = aborts \ {t}
        /\ UNCHANGED <<staging, generation, row, marker, published, lost, todo>>
    BY <1>2 DEF WriteIntent
  <2>3. \A u \in Tx : IF u = t THEN pc'[u] = "intent" /\ intent'[u] = "prepared"
                             ELSE pc'[u] = pc[u] /\ intent'[u] = intent[u]
    BY <2>2 DEF ArtifactInvariant, TypeOK
  <2> QED
    BY <1>2, <2>1, <2>2, <2>3 DEF FilesAreInPlace
<1>3. ASSUME NEW t \in Tx, MoveGeneration(t) PROVE FilesAreInPlace'
  BY <1>3 DEF MoveGeneration
<1>4. ASSUME NEW t \in Tx, WritePointer(t) PROVE FilesAreInPlace'
  BY <1>4 DEF WritePointer
<1>5. ASSUME NEW t \in Tx, RecordRow(t) PROVE FilesAreInPlace'
  BY <1>5 DEF RecordRow
<1>6. ASSUME NEW t \in Tx, WriteMarker(t) PROVE FilesAreInPlace'
  BY <1>6 DEF WriteMarker
<1>7. ASSUME NEW t \in Tx, FinishIntent(t) PROVE FilesAreInPlace'
  BY <1>7 DEF FinishIntent
<1>8. ASSUME NEW t \in Tx, Return(t) PROVE FilesAreInPlace'
  BY <1>8 DEF Return
<1>9. ASSUME NEW t \in Tx, Interrupt(t) PROVE FilesAreInPlace'
  BY <1>9 DEF Interrupt
<1>10. ASSUME NEW t \in Tx, LosePower(t) PROVE FilesAreInPlace'
  <2> HIDE DEF ArtifactInvariant, TypeOK, OneCommitter, StepsInOrder, FilesAreInPlace
  <2>0. TypeOK
    BY DEF ArtifactInvariant
  <2>1. /\ \A u \in Tx : pc'[u] = IF pc[u] \in Committing \cup {"staged", "failed", "aborting"} THEN "dead" ELSE pc[u]
        /\ \A u \in Tx : u # t => /\ u \in generation => u \in generation'
                                  /\ u \in marker => u \in marker'
                                  /\ u \in staging' => u \in staging
                                  /\ intent'[u] = intent[u]
        /\ generation' \subseteq generation /\ marker' \subseteq marker
        /\ staging' \in {staging \ {t}, staging \cup ({t} \ generation')}
        /\ lost' = lost \cup {t} /\ todo' = {} /\ intent[t] # "absent" /\ UNCHANGED <<row, published, aborts>>
    BY <1>10, <2>0, PowerLost
  <2>3. \A u \in Tx : /\ pc'[u] \notin Committing \cup {"staged"}
                      /\ pc'[u] = "new" => pc[u] = "new"
    BY <2>1
  <2>5. ASSUME NEW u \in Tx, u # t, intent'[u] = "committed"
        PROVE  u \in lost' \/ (u \in generation' \cap row' \cap published' /\ u \in marker' \cup aborts')
    <3>0. /\ u \in generation => u \in generation'
          /\ u \in marker => u \in marker'
          /\ intent'[u] = intent[u]
      BY <2>1, <2>5, Zenon
    <3>1. intent[u] = "committed"
      BY <3>0, <2>5
    <3>2. u \in lost \/ (u \in generation \cap row \cap published /\ u \in marker \cup aborts)
      BY <3>1 DEF FilesAreInPlace
    <3>3. lost \subseteq lost' /\ row' = row /\ published' = published /\ aborts' = aborts
      BY <2>1
    <3> QED
      BY <3>0, <3>2, <3>3
  <2>6. ASSUME NEW u \in Tx, u \in generation' PROVE u \notin staging'
    <3>1. u \in generation
      BY <2>1, <2>6
    <3>2. u \notin staging
      BY <3>1 DEF FilesAreInPlace
    <3> QED
      BY <2>1, <2>6, <3>2
  <2>7. \A u \in Tx : /\ u \in row' \cup marker' => u \in generation' \cup lost'
                      /\ u \in published' => u \in generation' \cup lost'
    <3>1. \A u \in Tx : u \in generation \cup lost => u \in generation' \cup lost'
      <4>1. ASSUME NEW u \in Tx, u # t, u \in generation \cup lost PROVE u \in generation' \cup lost'
        <5>1. u \in generation => u \in generation'
          BY <2>1, <4>1, Zenon
        <5>2. lost \subseteq lost'
          BY <2>1
        <5> QED
          BY <4>1, <5>1, <5>2
      <4>2. t \in lost'
        BY <2>1
      <4> QED
        BY <4>1, <4>2
    <3>2. row' \cup marker' \subseteq row \cup marker /\ published' = published
      BY <2>1
    <3>3. \A u \in Tx : /\ u \in row \cup marker => u \in generation \cup lost
                        /\ u \in published => u \in generation \cup lost
      BY DEF FilesAreInPlace
    <3> QED
      BY <3>1, <3>2, <3>3
  <2>8. \A u \in Tx : pc'[u] = "new" => u \notin generation'
    BY <2>1, <2>3 DEF FilesAreInPlace
  <2>9. \A u \in Tx : intent'[u] = "committed" =>
           u \in lost' \/ (u \in generation' \cap row' \cap published' /\ u \in marker' \cup aborts')
    BY <2>1, <2>5, Zenon
  <2>10. \A u \in Tx : pc'[u] \notin {"intent", "generation", "pointer", "row", "marker", "staged"}
    BY <2>3 DEF Committing
  <2> QED
    BY <2>6, <2>7, <2>8, <2>9, <2>10 DEF FilesAreInPlace
<1>11. ASSUME NEW t \in Tx, StartAbort(t) PROVE FilesAreInPlace'
  <2> HIDE DEF ArtifactInvariant, OneCommitter, StepsInOrder, FilesAreInPlace
  <2>1. /\ pc' = [pc EXCEPT ![t] = "aborting"] /\ aborts \subseteq aborts'
        /\ UNCHANGED <<staging, intent, generation, row, marker, published, lost>>
    BY <1>11 DEF StartAbort
  <2> QED
    BY <2>1 DEF FilesAreInPlace
<1>25. ASSUME NEW t \in Tx, Abort(t) PROVE FilesAreInPlace'
  <2> HIDE DEF ArtifactInvariant, TypeOK, OneCommitter, StepsInOrder, FilesAreInPlace
  <2>0. TypeOK
    BY DEF ArtifactInvariant
  <2>1. /\ staging' \subseteq staging /\ marker' \subseteq marker /\ marker \subseteq marker' \cup {t}
        /\ UNCHANGED <<generation, row, published, lost, aborts, pc>> /\ pc[t] = "aborting"
    BY <1>25 DEF Abort
  <2>2. \A u \in Tx : intent'[u] = intent[u] \/ (u = t /\ intent'[u] = "absent")
    BY <1>25, <2>0 DEF Abort, TypeOK
  <2>3. t \in aborts
    BY <2>1 DEF ArtifactInvariant, StepsInOrder
  <2> QED
    BY <2>1, <2>2, <2>3 DEF FilesAreInPlace
<1>26. ASSUME NEW t \in Tx, EndAbort(t) PROVE FilesAreInPlace'
  <2> HIDE DEF ArtifactInvariant, TypeOK, OneCommitter, StepsInOrder, FilesAreInPlace
  <2>0. TypeOK
    BY DEF ArtifactInvariant
  <2>1. /\ pc' \in {[pc EXCEPT ![t] = "aborted"], [pc EXCEPT ![t] = "failed"]} /\ pc[t] = "aborting"
        /\ UNCHANGED <<staging, intent, generation, row, marker, published, lost, aborts>>
    BY <1>26 DEF EndAbort
  <2>2. \A u \in Tx : pc'[u] = pc[u] \/ pc'[u] \in {"aborted", "failed"}
    BY <2>0, <2>1 DEF TypeOK
  <2>3. \A u \in Tx : pc'[u] \in {"new", "staged", "intent", "generation", "pointer", "row", "marker"} => pc'[u] = pc[u]
    BY <2>2
  <2> QED
    BY <2>1, <2>3 DEF FilesAreInPlace
<1>12. ASSUME NEW t \in Tx, TearIntent(t) PROVE FilesAreInPlace'
  <2> HIDE DEF ArtifactInvariant, TypeOK, OneCommitter, StepsInOrder, FilesAreInPlace
  <2>1. /\ holder = Recovery /\ t \in todo /\ intent' = [intent EXCEPT ![t] = "torn"] /\ todo' = {}
        /\ UNCHANGED <<staging, generation, row, marker, pc, published, lost, aborts>>
    BY <1>12 DEF TearIntent
  <2>2. \A u \in Tx : pc[u] \notin Committing
    BY <2>1 DEF ArtifactInvariant, OneCommitter
  <2>3. pc[t] # "new"
    BY <2>1 DEF ArtifactInvariant, StepsInOrder
  <2>4. \A u \in Tx : u # t => intent'[u] = intent[u]
    BY <2>1 DEF ArtifactInvariant, TypeOK
  <2>5. intent'[t] = "torn"
    BY <2>1 DEF ArtifactInvariant, TypeOK
  <2> QED
    BY <2>1, <2>2, <2>3, <2>4, <2>5 DEF FilesAreInPlace
<1>13. ASSUME NEW t \in Tx, RecoverPointer(t) PROVE FilesAreInPlace'
  BY <1>13 DEF RecoverPointer
<1>14. ASSUME NEW t \in Tx, RefuseMismatch(t) PROVE FilesAreInPlace'
  BY <1>14 DEF RefuseMismatch, Refuse
<1>15. ASSUME NEW t \in Tx, RecoverRow(t) PROVE FilesAreInPlace'
  <2>1. t \in generation \cap published
    BY <1>15 DEF RecoverRow, RecoveredSoFar, UnderRecovery
  <2> QED
    BY <1>15, <2>1 DEF RecoverRow
<1>16. ASSUME NEW t \in Tx, RecoverMarker(t) PROVE FilesAreInPlace'
  <2>1. t \in generation \cap published \cap row /\ pc[t] \notin Committing
    BY <1>16 DEF RecoverMarker, RecoveredSoFar, UnderRecovery
  <2>2. /\ marker' \in {marker, marker \cup {t}} /\ todo' \subseteq todo
        /\ UNCHANGED <<staging, intent, generation, row, published, lost, aborts, pc>>
    BY <1>16 DEF RecoverMarker, Refuse
  <2> HIDE DEF OneCommitter, StepsInOrder, FilesAreInPlace
  <2> QED
    BY <2>1, <2>2 DEF FilesAreInPlace
<1>17. ASSUME NEW t \in Tx, RecoverIntent(t) PROVE FilesAreInPlace'
  <2>1. /\ t \in generation \cap published \cap row /\ t \in marker \cup aborts
        /\ pc[t] \notin Committing \cup {"new"}
    BY <1>17 DEF RecoverIntent, RecoveredSoFar, UnderRecovery
  <2>2. /\ intent' = intent \/ (intent' = [intent EXCEPT ![t] = "committed"] /\ HasDirectory(t)) 
        /\ todo' \subseteq todo /\ UNCHANGED <<staging, generation, row, marker, published, lost, aborts, pc>>
    BY <1>17 DEF RecoverIntent, Refuse
  <2>3. intent \in [Tx -> {"absent", "prepared", "committed", "rolled_back", "torn"}]
    OBVIOUS
  <2> HIDE DEF TypeOK, OneCommitter, StepsInOrder, FilesAreInPlace
  <2>4. CASE intent' = intent
    BY <2>2, <2>4 DEF FilesAreInPlace
  <2>5. CASE intent' = [intent EXCEPT ![t] = "committed"] /\ HasDirectory(t)
    BY <2>1, <2>2, <2>3, <2>5 DEF FilesAreInPlace
  <2> QED
    BY <2>2, <2>4, <2>5
<1>18. ASSUME NEW t \in Tx, RestorePointer(t) PROVE FilesAreInPlace'
  <2>1. todo' \subseteq todo /\ UNCHANGED <<staging, intent, generation, row, marker, published, lost, aborts, pc>>
    BY <1>18 DEF RestorePointer, Refuse
  <2> HIDE DEF OneCommitter, StepsInOrder, FilesAreInPlace
  <2> QED
    BY <2>1 DEF FilesAreInPlace
<1>19. ASSUME NEW t \in Tx, RollBackIntent(t) PROVE FilesAreInPlace'
  <2>1. pc[t] \notin Committing \cup {"new"}
    BY <1>19 DEF RollBackIntent
  <2>2. /\ intent' \in {intent, [intent EXCEPT ![t] = "rolled_back"]} /\ todo' \subseteq todo
        /\ UNCHANGED <<staging, generation, row, marker, published, lost, aborts, pc>>
    BY <1>19 DEF RollBackIntent, Refuse
  <2>3. intent \in [Tx -> {"absent", "prepared", "committed", "rolled_back", "torn"}]
    OBVIOUS
  <2> HIDE DEF TypeOK, OneCommitter, StepsInOrder, FilesAreInPlace
  <2>4. CASE intent' = intent
    BY <2>2, <2>4 DEF FilesAreInPlace
  <2>5. CASE intent' = [intent EXCEPT ![t] = "rolled_back"]
    BY <2>1, <2>2, <2>3, <2>5 DEF FilesAreInPlace
  <2> QED
    BY <2>2, <2>4, <2>5
<1>20. ASSUME NEW t \in Tx, ClearStaging(t) PROVE FilesAreInPlace'
  BY <1>20 DEF ClearStaging
<1>21. ASSUME StartRecovery PROVE FilesAreInPlace'
  <2>1. todo' \in {todo, Unfinished} /\ UNCHANGED <<staging, intent, generation, row, marker, published, lost, aborts, pc>>
    BY <1>21 DEF StartRecovery
  <2>2. \A u \in Unfinished : intent[u] # "absent"
    BY DEF Unfinished
  <2> HIDE DEF TypeOK, OneCommitter, StepsInOrder, FilesAreInPlace
  <2> QED
    BY <2>1, <2>2 DEF FilesAreInPlace
<1>22. ASSUME EndRecovery PROVE FilesAreInPlace'
  BY <1>22 DEF EndRecovery
<1>23. ASSUME StopRecovery PROVE FilesAreInPlace'
  BY <1>23 DEF StopRecovery
<1>24. ASSUME UNCHANGED vars PROVE FilesAreInPlace'
  BY <1>24 DEF vars
<1> QED
  BY <1>1, <1>2, <1>3, <1>4, <1>5, <1>6, <1>7, <1>8, <1>9, <1>10, <1>11, <1>12,
     <1>13, <1>14, <1>15, <1>16, <1>17, <1>18, <1>19, <1>20, <1>21, <1>22, <1>23, <1>24,
     <1>25, <1>26 DEF Next, UnitNext, CommitStep, RecoveryStep

\* What a step does to current.json, as far as these properties go.
Keeps ==
    /\ UNCHANGED <<pointer, base, published>> /\ lost \subseteq lost'
    /\ \A t \in generation' \ generation : pointer[nsOf[t]] = base[t]
Prepares(t) ==
    /\ t \notin generation \cup published \cup lost
    /\ base' = [base EXCEPT ![t] = pointer[nsOf[t]]]
    /\ UNCHANGED <<pointer, generation, published, lost>>
Publishes(t) ==
    /\ t \in published => t \in lost'
    /\ pointer[nsOf[t]] = base[t] /\ pointer' = [pointer EXCEPT ![nsOf[t]] = t]
    /\ published' = published \cup {t} /\ lost \subseteq lost' /\ generation' \subseteq generation
    /\ UNCHANGED base
Withdraws(t) ==
    /\ t \in lost'
    /\ pointer[nsOf[t]] = t /\ pointer' = [pointer EXCEPT ![nsOf[t]] = base[t]]
    /\ lost \subseteq lost' /\ generation' \subseteq generation
    /\ UNCHANGED <<base, published>>

\* A transaction that follows the current generation has not been current
\* before, unless a power loss struck it.
LEMMA FirstPublished ==
  ASSUME TransactionInvariant, NEW t \in Tx, pointer[nsOf[t]] = base[t]
  PROVE  t \in published => t \in lost
<1>0. OneLine /\ nsOf[t] \in Namespace
  BY ArtifactAssumption DEF TransactionInvariant
<1>1. PICK C \in SUBSET Tx : Closed(C) /\ base[t] \in C \cup {None} /\ t \notin C
  BY <1>0 DEF OneLine
<1>2. {u \in published \ lost : nsOf[u] = nsOf[t]} \subseteq C
  BY <1>0, <1>1 DEF OneLine
<1> QED
  BY <1>1, <1>2

\* The steps of commits, aborts, crashes and recoveries are of these kinds.
LEMMA PointerKinds ==
  ASSUME TransactionInvariant, [Next]_vars
  PROVE  Keeps \/ \E t \in Tx : Prepares(t) \/ Publishes(t) \/ Withdraws(t)
<1> USE ArtifactAssumption DEF Advance, files, recovery, history
<1>0. TypeOK /\ StepsInOrder /\ BaseIsCurrent /\ PointerSafe /\ FilesAreInPlace /\ OneLine
  BY DEF TransactionInvariant, ArtifactInvariant
<1>1. ASSUME NEW t \in Tx, WriteIntent(t) PROVE Prepares(t)
  <2>1. t \in staging /\ pc[t] \in {"staged", "failed"}
    BY <1>1 DEF WriteIntent
  <2>2. t \notin generation \cup published \cup lost
    BY <1>0, <2>1 DEF FilesAreInPlace, StepsInOrder
  <2> QED
    BY <1>1, <2>2 DEF WriteIntent, Prepares
<1>2. ASSUME NEW t \in Tx, MoveGeneration(t) PROVE Keeps
  <2>1. pointer[nsOf[t]] = base[t] /\ generation' = generation \cup {t}
    BY <1>0, <1>2 DEF MoveGeneration, BaseIsCurrent
  <2> QED
    BY <1>2, <2>1 DEF MoveGeneration, Keeps
<1>3. ASSUME NEW t \in Tx, WritePointer(t) PROVE Publishes(t)
  <2>1. pointer[nsOf[t]] = base[t]
    BY <1>0, <1>3 DEF WritePointer, BaseIsCurrent
  <2>2. t \notin published
    BY <1>0, <1>3 DEF WritePointer, FilesAreInPlace
  <2> QED
    BY <1>3, <2>1, <2>2 DEF WritePointer, Publishes
<1>4. ASSUME NEW t \in Tx, RecoverPointer(t) PROVE Keeps \/ Publishes(t)
  <2>1. CASE pointer[nsOf[t]] = base[t]
    BY <1>4, <2>1, FirstPublished DEF RecoverPointer, Publishes
  <2>2. CASE pointer[nsOf[t]] = t
    <3>1. pointer' = [pointer EXCEPT ![nsOf[t]] = t]
      BY <1>4, <2>2 DEF RecoverPointer
    <3>2. pointer' = pointer
      BY <1>0, <2>2, <3>1 DEF TypeOK
    <3>3. t \in published
      BY <1>0, <2>2 DEF OneLine
    <3> QED
      BY <1>4, <3>2, <3>3 DEF RecoverPointer, Keeps
  <2> QED
    BY <1>4, <2>1, <2>2 DEF RecoverPointer
<1>5. ASSUME NEW t \in Tx, RestorePointer(t) PROVE Keeps \/ Withdraws(t)
  <2>1. t \notin generation /\ UNCHANGED <<base, generation, published, lost>>
    BY <1>5 DEF RestorePointer
  <2>2. CASE pointer[nsOf[t]] = t /\ base[t] \notin generation \cup {None}
    <3>1. pointer' = pointer
      BY <1>5, <2>2 DEF RestorePointer
    <3> QED
      BY <2>1, <3>1 DEF Keeps
  <2>3. CASE pointer[nsOf[t]] = t /\ base[t] \in generation \cup {None}
    <3>1. pointer' = [pointer EXCEPT ![nsOf[t]] = base[t]]
      BY <1>5, <2>3 DEF RestorePointer
    <3>2. t \in published
      BY <1>0, <2>3 DEF OneLine
    <3>3. t \in lost
      BY <1>0, <2>1, <3>2 DEF FilesAreInPlace
    <3> QED
      BY <2>1, <2>3, <3>1, <3>3 DEF Withdraws
  <2>4. CASE pointer[nsOf[t]] # t
    <3>1. pointer' = [pointer EXCEPT ![nsOf[t]] = pointer[nsOf[t]]]
      BY <1>5, <2>4 DEF RestorePointer
    <3>2. pointer' = pointer
      BY <1>0, <3>1 DEF TypeOK
    <3> QED
      BY <2>1, <3>2 DEF Keeps
  <2> QED
    BY <2>2, <2>3, <2>4
<1>6. ASSUME NEW t \in Tx, LosePower(t) PROVE Keeps \/ Publishes(t) \/ Withdraws(t)
  <2>1. lost' = lost \cup {t} /\ generation' \subseteq generation /\ UNCHANGED <<base, published>>
    BY <1>0, <1>6, PowerLost
  <2>2. CASE pointer' = pointer
    BY <2>1, <2>2 DEF Keeps
  <2>3. CASE pointer[nsOf[t]] = t /\ pointer' = [pointer EXCEPT ![nsOf[t]] = base[t]]
    BY <2>1, <2>3 DEF Withdraws
  <2>4. CASE t \in published /\ pointer[nsOf[t]] = base[t] /\ pointer' = [pointer EXCEPT ![nsOf[t]] = t]
    BY <2>1, <2>4 DEF Publishes
  <2> QED
    BY <1>6, <2>2, <2>3, <2>4 DEF LosePower, LosePointer
<1>7. ASSUME NEW t \in Tx,
             \/ Stage(t) \/ RecordRow(t) \/ WriteMarker(t) \/ FinishIntent(t) \/ Return(t) \/ Interrupt(t)
             \/ StartAbort(t) \/ Abort(t) \/ EndAbort(t) \/ TearIntent(t) \/ RefuseMismatch(t) \/ RecoverRow(t)
             \/ RecoverMarker(t) \/ RecoverIntent(t) \/ RollBackIntent(t) \/ ClearStaging(t)
      PROVE  UNCHANGED <<pointer, base, published, lost, generation>>
  BY <1>7 DEF Stage, RecordRow, WriteMarker, FinishIntent, Return, Interrupt, StartAbort, Abort, EndAbort, TearIntent,
              RefuseMismatch, RecoverRow, RecoverMarker, RecoverIntent, RollBackIntent, ClearStaging, Refuse
<1>8. ASSUME StartRecovery \/ EndRecovery \/ StopRecovery \/ UNCHANGED vars
      PROVE  UNCHANGED <<pointer, base, published, lost, generation>>
  BY <1>8 DEF StartRecovery, EndRecovery, StopRecovery, vars
<1>9. UNCHANGED <<pointer, base, published, lost, generation>> => Keeps
  BY DEF Keeps
<1> QED
  BY <1>1, <1>2, <1>3, <1>4, <1>5, <1>6, <1>7, <1>8, <1>9 DEF Next, UnitNext, CommitStep, RecoveryStep

\* The line of bases grows at its end, and is cut back only where a power loss
\* struck.
LEMMA StepLine ==
  ASSUME TransactionInvariant, [Next]_vars PROVE OneLine'
<1> USE ArtifactAssumption
<1>0. TypeOK /\ FilesAreInPlace /\ OneLine
  BY DEF TransactionInvariant, ArtifactInvariant
<1>1. CASE Keeps
  <2>1. UNCHANGED <<pointer, base, published>> /\ lost \subseteq lost'
    BY <1>1 DEF Keeps
  <2>2. \A C : Closed(C)' <=> Closed(C)
    BY <2>1 DEF Closed
  <2> QED
    BY <1>0, <2>1, <2>2 DEF OneLine
<1>2. ASSUME NEW t \in Tx, Prepares(t) PROVE OneLine'
  <2>1. /\ t \notin published /\ t \notin lost /\ base' = [base EXCEPT ![t] = pointer[nsOf[t]]]
        /\ UNCHANGED <<pointer, published, lost>>
    BY <1>2 DEF Prepares
  <2>2. \A u \in Tx : base'[u] = IF u = t THEN pointer[nsOf[t]] ELSE base[u]
    BY <1>0, <2>1 DEF TypeOK
  <2>3. /\ \A n \in Namespace : pointer[n] \in published \cup {None} /\ pointer[n] # t
        /\ \A u \in Tx : base[u] \in published \cup {None} /\ base[u] # t
    BY <1>0, <2>1 DEF OneLine
  <2>4. \A C \in SUBSET Tx : Closed(C)' => Closed(C \ {t})
    BY <2>2, <2>3 DEF Closed
  <2>5. \A C \in SUBSET Tx : Closed(C) => Closed(C \ {t})'
    BY <2>2, <2>3 DEF Closed
  <2>6. ASSUME NEW u \in Tx
        PROVE  \E C \in SUBSET Tx : Closed(C)' /\ base'[u] \in C \cup {None} /\ u \notin C
    <3>1. CASE u = t
      <4>1. Closed(Tx \ {t})'
        BY <1>0, <2>2, <2>3 DEF Closed, TypeOK
      <4>2. base'[t] \in (Tx \ {t}) \cup {None}
        BY <1>0, <2>2, <2>3 DEF TypeOK
      <4> QED
        BY <3>1, <4>1, <4>2
    <3>2. CASE u # t
      <4>1. PICK C \in SUBSET Tx : Closed(C) /\ base[u] \in C \cup {None} /\ u \notin C
        BY <1>0 DEF OneLine
      <4>2. base'[u] \in (C \ {t}) \cup {None} /\ u \notin C \ {t} /\ C \ {t} \in SUBSET Tx
        BY <2>2, <2>3, <3>2, <4>1
      <4>3. Closed(C \ {t})'
        BY <2>5, <4>1
      <4> QED
        BY <4>2, <4>3
    <3> QED
      BY <3>1, <3>2
  <2>7. ASSUME NEW n \in Namespace, NEW C \in SUBSET Tx, Closed(C)', pointer'[n] \in C \cup {None}
        PROVE  {u \in published' \ lost' : nsOf[u] = n} \subseteq C
    <3>1. Closed(C \ {t}) /\ pointer[n] \in (C \ {t}) \cup {None} /\ C \ {t} \in SUBSET Tx
      BY <2>1, <2>3, <2>4, <2>7
    <3>2. {u \in published \ lost : nsOf[u] = n} \subseteq C \ {t}
      BY <1>0, <3>1 DEF OneLine
    <3> QED
      BY <2>1, <3>2
  <2>8. /\ \A n \in Namespace : pointer'[n] \in published' \cup {None}
        /\ \A u \in Tx : base'[u] \in published' \cup {None}
    BY <2>1, <2>2, <2>3
  <2> QED
    BY <2>6, <2>7, <2>8 DEF OneLine
<1>3. ASSUME NEW t \in Tx, Publishes(t) PROVE OneLine'
  <2>1. /\ pointer[nsOf[t]] = base[t] /\ published' = published \cup {t} /\ lost \subseteq lost' /\ base' = base
    BY <1>3 DEF Publishes
  <2>2. \A n \in Namespace : pointer'[n] = IF n = nsOf[t] THEN t ELSE pointer[n]
    BY <1>0, <1>3 DEF Publishes, TypeOK
  <2>3. \A C : Closed(C)' <=> Closed(C)
    BY <2>1 DEF Closed
  <2>4. ASSUME NEW n \in Namespace, NEW C \in SUBSET Tx, Closed(C)', pointer'[n] \in C \cup {None}
        PROVE  {u \in published' \ lost' : nsOf[u] = n} \subseteq C
    <3>0. Closed(C)
      BY <2>3, <2>4
    <3>1. n = nsOf[t] => t \in C
      BY <2>2, <2>4
    <3>2. n = nsOf[t] => base[t] \in C \cup {None}
      BY <3>0, <3>1 DEF Closed
    <3>3. pointer[n] \in C \cup {None}
      BY <2>1, <2>2, <2>4, <3>2
    <3>4. {u \in published \ lost : nsOf[u] = n} \subseteq C
      BY <1>0, <3>0, <3>3 DEF OneLine
    <3> QED
      BY <2>1, <3>1, <3>4
  <2>5. /\ \A n \in Namespace : pointer'[n] \in published' \cup {None}
        /\ \A u \in Tx : base'[u] \in published' \cup {None}
    BY <1>0, <2>1, <2>2 DEF OneLine
  <2>6. \A u \in Tx : \E C \in SUBSET Tx : Closed(C)' /\ base'[u] \in C \cup {None} /\ u \notin C
    BY <1>0, <2>1, <2>3 DEF OneLine
  <2> QED
    BY <2>4, <2>5, <2>6 DEF OneLine
<1>4. ASSUME NEW t \in Tx, Withdraws(t) PROVE OneLine'
  <2>1. /\ t \in lost' /\ pointer[nsOf[t]] = t /\ lost \subseteq lost' /\ UNCHANGED <<base, published>>
    BY <1>4 DEF Withdraws
  <2>2. \A n \in Namespace : pointer'[n] = IF n = nsOf[t] THEN base[t] ELSE pointer[n]
    BY <1>0, <1>4 DEF Withdraws, TypeOK
  <2>3. \A C : Closed(C)' <=> Closed(C)
    BY <2>1 DEF Closed
  <2>4. ASSUME NEW n \in Namespace, NEW C \in SUBSET Tx, Closed(C)', pointer'[n] \in C \cup {None}
        PROVE  {u \in published' \ lost' : nsOf[u] = n} \subseteq C
    <3>0. Closed(C)
      BY <2>3, <2>4
    <3>1. CASE n = nsOf[t]
      <4>1. base[t] \in C \cup {None}
        BY <2>2, <2>4, <3>1
      <4>2. Closed(C \cup {t})
        BY <3>0, <4>1 DEF Closed
      <4>3. pointer[n] \in (C \cup {t}) \cup {None} /\ C \cup {t} \in SUBSET Tx
        BY <2>1, <3>1
      <4>4. {u \in published \ lost : nsOf[u] = n} \subseteq C \cup {t}
        BY <1>0, <4>2, <4>3 DEF OneLine
      <4> QED
        BY <2>1, <4>4
    <3>2. CASE n # nsOf[t]
      <4>1. {u \in published \ lost : nsOf[u] = n} \subseteq C
        BY <1>0, <2>2, <2>4, <3>0, <3>2 DEF OneLine
      <4> QED
        BY <2>1, <4>1
    <3> QED
      BY <3>1, <3>2
  <2>5. /\ \A n \in Namespace : pointer'[n] \in published' \cup {None}
        /\ \A u \in Tx : base'[u] \in published' \cup {None}
    BY <1>0, <2>1, <2>2 DEF OneLine
  <2>6. \A u \in Tx : \E C \in SUBSET Tx : Closed(C)' /\ base'[u] \in C \cup {None} /\ u \notin C
    BY <1>0, <2>1, <2>3 DEF OneLine
  <2> QED
    BY <2>4, <2>5, <2>6 DEF OneLine
<1> QED
  BY <1>1, <1>2, <1>3, <1>4, PointerKinds

\* Going past a transaction whose generation is there leaves a trace.
LEMMA StepOvertaken ==
  ASSUME TransactionInvariant, [Next]_vars PROVE CurrentOrOvertaken'
<1> USE ArtifactAssumption
<1>0. TypeOK /\ FilesAreInPlace /\ OneLine /\ CurrentOrOvertaken
  BY DEF TransactionInvariant, ArtifactInvariant
<1>1. CASE Keeps
  <2> SUFFICES ASSUME NEW t \in generation'
               PROVE  pointer[nsOf[t]] \in {t, base[t]} \/ Overtaken(t) \/ base[t] \in lost
    BY <1>1 DEF Keeps, CurrentOrOvertaken, Overtaken
  <2>1. CASE t \in generation
    BY <1>0, <2>1 DEF CurrentOrOvertaken
  <2>2. CASE t \notin generation
    BY <1>1, <2>2 DEF Keeps
  <2> QED
    BY <2>1, <2>2
<1>2. ASSUME NEW t \in Tx, Prepares(t), NEW u \in generation
      PROVE  pointer'[nsOf[u]] \in {u, base'[u]} \/ Overtaken(u)' \/ base'[u] \in lost'
  <2>1. t \notin generation \cup published /\ base' = [base EXCEPT ![t] = pointer[nsOf[t]]]
        /\ UNCHANGED <<pointer, published, lost>>
    BY <1>2 DEF Prepares
  <2>2. u # t /\ u \in Tx /\ base'[u] = base[u] /\ \A v \in published : v \in Tx /\ base'[v] = base[v]
    BY <1>0, <1>2, <2>1 DEF TypeOK
  <2> QED
    BY <1>0, <1>2, <2>1, <2>2 DEF CurrentOrOvertaken, Overtaken
<1>3. ASSUME NEW t \in Tx, Publishes(t), NEW u \in generation
      PROVE  pointer'[nsOf[u]] \in {u, base'[u]} \/ Overtaken(u)' \/ base'[u] \in lost'
  <2>1. /\ pointer[nsOf[t]] = base[t] /\ lost \subseteq lost'
        /\ published' = published \cup {t} /\ UNCHANGED base /\ u \in Tx
    BY <1>0, <1>3 DEF Publishes, TypeOK
  <2>2. \A n \in Namespace : pointer'[n] = IF n = nsOf[t] THEN t ELSE pointer[n]
    BY <1>0, <1>3 DEF Publishes, TypeOK
  <2>3. CASE pointer[nsOf[u]] \in {u, base[u]} /\ nsOf[u] = nsOf[t] /\ u # t
    BY <2>1, <2>3 DEF Overtaken
  <2>4. CASE u = t \/ nsOf[u] # nsOf[t]
    BY <1>0, <1>3, <2>1, <2>2, <2>4 DEF CurrentOrOvertaken, Overtaken
  <2>5. CASE pointer[nsOf[u]] \notin {u, base[u]}
    BY <1>0, <1>3, <2>1, <2>5 DEF CurrentOrOvertaken, Overtaken
  <2> QED
    BY <2>3, <2>4, <2>5
<1>4. ASSUME NEW t \in Tx, Withdraws(t), NEW u \in generation
      PROVE  pointer'[nsOf[u]] \in {u, base'[u]} \/ Overtaken(u)' \/ base'[u] \in lost'
  <2>1. t \in lost' /\ lost \subseteq lost' /\ pointer[nsOf[t]] = t /\ UNCHANGED <<base, published>> /\ u \in Tx
    BY <1>0, <1>4 DEF Withdraws, TypeOK
  <2>2. \A n \in Namespace : pointer'[n] = IF n = nsOf[t] THEN base[t] ELSE pointer[n]
    BY <1>0, <1>4 DEF Withdraws, TypeOK
  <2>3. CASE nsOf[u] = nsOf[t] /\ pointer[nsOf[u]] \in {u, base[u]}
    <3>1. u = t \/ base[u] = t
      BY <2>1, <2>3
    <3>2. u = t => pointer'[nsOf[u]] = base'[u]
      BY <2>1, <2>2
    <3> QED
      BY <2>1, <3>1, <3>2
  <2>4. CASE nsOf[u] # nsOf[t] \/ pointer[nsOf[u]] \notin {u, base[u]}
    BY <1>0, <1>4, <2>1, <2>2, <2>4 DEF CurrentOrOvertaken, Overtaken
  <2> QED
    BY <2>3, <2>4
<1>5. (\E t \in Tx : Prepares(t) \/ Publishes(t) \/ Withdraws(t)) => generation' \subseteq generation
  BY DEF Prepares, Publishes, Withdraws
<1> QED
  BY <1>1, <1>2, <1>3, <1>4, <1>5, PointerKinds DEF CurrentOrOvertaken

\* Recovery is at the first of the transactions it has to finish.
LEMMA FirstOfTodo ==
  ASSUME todo \subseteq Tx, NEW t \in todo, \A u \in todo : t <= u,
         NEW v \in todo, \A u \in todo : v <= u
  PROVE  v = t
<1>1. t \in Nat /\ v \in Nat
  BY ArtifactAssumption
<1>2. t <= v /\ v <= t
  OBVIOUS
<1> QED
  BY <1>1, <1>2

\* What recovery has left behind stays complete, and it goes through the
\* writes of each transaction in the order of commit.
LEMMA StepRecovered ==
  ASSUME TransactionInvariant, [Next]_vars PROVE RecoveredSoFar'
<1> USE ArtifactAssumption DEF Advance, files, recovery, history
<1>0. TypeOK /\ OneCommitter /\ FilesAreInPlace /\ OneLine /\ RecoveredSoFar
  BY DEF TransactionInvariant, ArtifactInvariant
<1>1. CASE holder' # Recovery
  BY <1>1 DEF RecoveredSoFar
<1>2. ASSUME NEW t \in Tx,
             \/ WriteIntent(t) \/ MoveGeneration(t) \/ WritePointer(t) \/ RecordRow(t) \/ WriteMarker(t)
             \/ FinishIntent(t) \/ Return(t) \/ Interrupt(t) \/ LosePower(t) \/ TearIntent(t) \/ RefuseMismatch(t)
      PROVE  holder' # Recovery
  <2>1. pc[t] \in Committing => holder = t
    BY <1>0 DEF OneCommitter
  <2> QED
    BY <1>2, <2>1 DEF WriteIntent, MoveGeneration, WritePointer, RecordRow, WriteMarker, FinishIntent, Return,
                      Interrupt, LosePower, TearIntent, RefuseMismatch, Refuse, Committing
<1>3. ASSUME EndRecovery \/ StopRecovery PROVE holder' # Recovery
  BY <1>3 DEF EndRecovery, StopRecovery
<1>4. ASSUME NEW t \in Tx, Stage(t), holder = Recovery PROVE RecoveredSoFar'
  <2>1. intent[t] = "absent" /\ t \notin todo
    BY <1>4 DEF Stage, TransactionInvariant, ArtifactInvariant, StepsInOrder
  <2>2. staging' = staging \cup {t}
        /\ UNCHANGED <<intent, base, generation, pointer, row, marker, todo, step, published, lost, aborts, holder>>
    BY <1>4 DEF Stage
  <2>3. \A u \in todo : UnderRecovery(u) => UnderRecovery(u)'
    BY <1>0, <2>1, <2>2 DEF UnderRecovery, HasDirectory, TypeOK
  <2>4. \A u \in Tx : u # t => /\ CommittedEverywhere(u) => CommittedEverywhere(u)'
                               /\ CommittedNowhere(u) => CommittedNowhere(u)'
    BY <2>2 DEF CommittedEverywhere, CommittedNowhere
  <2> QED
    BY <1>0, <1>4, <2>1, <2>2, <2>3, <2>4 DEF RecoveredSoFar
<1>5. ASSUME NEW t \in Tx, Abort(t), holder = Recovery PROVE RecoveredSoFar'
  <2>1. /\ staging' \subseteq staging /\ marker' \subseteq marker /\ marker \subseteq marker' \cup {t}
        /\ \A u \in Tx : u # t => intent'[u] = intent[u]
        /\ intent'[t] \in {intent[t], "absent"} /\ pc[t] = "aborting"
        /\ UNCHANGED <<base, generation, pointer, row, todo, step, published, lost, aborts, holder>>
    BY <1>0, <1>5 DEF Abort, TypeOK
  <2>2. t \in aborts
    BY <1>0, <2>1 DEF TransactionInvariant, ArtifactInvariant, StepsInOrder
  <2>3. \A u \in todo : UnderRecovery(u) => UnderRecovery(u)'
    BY <1>0, <2>1, <2>2 DEF UnderRecovery, TypeOK
  <2>4. \A u \in Tx : intent'[u] # "absent" => /\ intent'[u] = intent[u]
                                               /\ CommittedEverywhere(u) => CommittedEverywhere(u)'
                                               /\ CommittedNowhere(u) => CommittedNowhere(u)'
    BY <2>1, <2>2 DEF CommittedEverywhere, CommittedNowhere
  <2> QED
    BY <1>0, <1>5, <2>1, <2>3, <2>4 DEF RecoveredSoFar
<1>19. ASSUME NEW t \in Tx, StartAbort(t) \/ EndAbort(t), holder = Recovery PROVE RecoveredSoFar'
  <2>1. aborts \subseteq aborts' /\ UNCHANGED <<files, recovery, published, lost, holder>>
    BY <1>19 DEF StartAbort, EndAbort
  <2>2. \A u \in todo : UnderRecovery(u) => UnderRecovery(u)'
    BY <2>1 DEF UnderRecovery
  <2>3. \A u \in Tx : /\ CommittedEverywhere(u) => CommittedEverywhere(u)'
                      /\ CommittedNowhere(u) => CommittedNowhere(u)'
    BY <2>1 DEF CommittedEverywhere, CommittedNowhere
  <2> QED
    BY <1>0, <1>19, <2>1, <2>2, <2>3 DEF RecoveredSoFar
<1>6. ASSUME StartRecovery, holder' = Recovery PROVE RecoveredSoFar'
  <2>1. todo' = Unfinished /\ step' = "pointer" /\ UNCHANGED <<files, published, lost, aborts>>
    BY <1>6 DEF StartRecovery
  <2>2. \A t \in Tx \ (Unfinished \cup lost) : intent[t] # "absent" => CommittedEverywhere(t)
    BY <1>0 DEF Unfinished, FilesAreInPlace, CommittedEverywhere
  <2>3. \A t \in Tx : CommittedEverywhere(t) => CommittedEverywhere(t)'
    BY <2>1 DEF CommittedEverywhere
  <2>4. \A t \in Tx : UnderRecovery(t)'
    BY <2>1 DEF UnderRecovery
  <2>5. Unfinished \subseteq Tx
    BY DEF Unfinished
  <2> QED
    BY <2>1, <2>2, <2>3, <2>4, <2>5 DEF RecoveredSoFar
<1>7. ASSUME NEW t \in Tx, NEW s, At(t, s), holder' = Recovery, todo' = todo, lost' = lost, UnderRecovery(t)',
             \A u \in Tx \ {t} : (CommittedEverywhere(u) => CommittedEverywhere(u)')
                              /\ (CommittedNowhere(u) => CommittedNowhere(u)')
                              /\ intent'[u] = intent[u]
      PROVE  RecoveredSoFar'
  <2>1. t \in todo /\ (\A u \in todo : t <= u) /\ holder = Recovery
    BY <1>7 DEF At
  <2>2. \A u \in todo : (\A v \in todo : u <= v) => u = t
    BY <1>0, <2>1, FirstOfTodo DEF TypeOK
  <2>3. \A u \in todo' : (\A v \in todo' : u <= v) => UnderRecovery(u)'
    BY <1>7, <2>2
  <2>4. \A u \in Tx \ (todo' \cup lost') : intent'[u] # "absent" => CommittedEverywhere(u)' \/ CommittedNowhere(u)'
    BY <1>0, <1>7, <2>1 DEF RecoveredSoFar
  <2> QED
    BY <2>3, <2>4 DEF RecoveredSoFar
<1>8. ASSUME NEW t \in Tx, NEW s, At(t, s), todo' = todo \ {t}, step' = "pointer", lost' = lost,
             CommittedEverywhere(t)' \/ CommittedNowhere(t)' \/ intent'[t] = "absent" \/ t \in lost,
             \A u \in Tx \ {t} : (CommittedEverywhere(u) => CommittedEverywhere(u)')
                              /\ (CommittedNowhere(u) => CommittedNowhere(u)')
                              /\ intent'[u] = intent[u]
      PROVE  RecoveredSoFar'
  <2>1. holder = Recovery
    BY <1>8 DEF At
  <2>2. \A u \in todo' : UnderRecovery(u)'
    BY <1>8 DEF UnderRecovery
  <2>3. \A u \in Tx \ (todo' \cup lost') : intent'[u] # "absent" => CommittedEverywhere(u)' \/ CommittedNowhere(u)'
    BY <1>0, <1>8, <2>1 DEF RecoveredSoFar
  <2> QED
    BY <2>2, <2>3 DEF RecoveredSoFar
<1>9. ASSUME NEW t \in Tx, NEW s, At(t, s) PROVE UnderRecovery(t) /\ step = s
  BY <1>0, <1>9 DEF At, RecoveredSoFar
<1>10. ASSUME NEW t \in Tx, RecoverPointer(t), holder' = Recovery PROVE RecoveredSoFar'
  <2>1. t \in generation /\ published' = published \cup {t} /\ step' = "row" /\ At(t, "pointer")
        /\ UNCHANGED <<staging, intent, generation, row, marker, lost, aborts, todo>>
    BY <1>10 DEF RecoverPointer
  <2>2. \A n \in Namespace : pointer'[n] = IF n = nsOf[t] THEN t ELSE pointer[n]
    BY <1>0, <1>10 DEF RecoverPointer, TypeOK
  <2>3. UnderRecovery(t)'
    BY <2>1 DEF UnderRecovery
  <2>4. \A u \in Tx \ {t} : (CommittedEverywhere(u) => CommittedEverywhere(u)')
                         /\ (CommittedNowhere(u) => CommittedNowhere(u)')
                         /\ intent'[u] = intent[u]
    BY <2>1, <2>2 DEF CommittedEverywhere, CommittedNowhere
  <2> QED
    BY <1>7, <1>10, <2>1, <2>3, <2>4
<1>11. ASSUME NEW t \in Tx, RecoverRow(t), holder' = Recovery PROVE RecoveredSoFar'
  <2>1. row' = row \cup {t} /\ step' = "marker" /\ At(t, "row")
        /\ UNCHANGED <<staging, intent, generation, pointer, marker, published, lost, aborts, todo>>
    BY <1>11 DEF RecoverRow
  <2>2. UnderRecovery(t)'
    BY <1>9, <2>1 DEF UnderRecovery
  <2>3. \A u \in Tx \ {t} : (CommittedEverywhere(u) => CommittedEverywhere(u)')
                         /\ (CommittedNowhere(u) => CommittedNowhere(u)')
                         /\ intent'[u] = intent[u]
    BY <2>1 DEF CommittedEverywhere, CommittedNowhere
  <2> QED
    BY <1>7, <1>11, <2>1, <2>2, <2>3
<1>12. ASSUME NEW t \in Tx, RecoverMarker(t), holder' = Recovery PROVE RecoveredSoFar'
  <2>1. marker' = marker \cup {t} /\ step' = "intent" /\ At(t, "marker")
        /\ UNCHANGED <<staging, intent, generation, pointer, row, published, lost, aborts, todo>>
    BY <1>12 DEF RecoverMarker, Refuse
  <2>2. UnderRecovery(t)'
    BY <1>9, <2>1 DEF UnderRecovery
  <2>3. \A u \in Tx \ {t} : (CommittedEverywhere(u) => CommittedEverywhere(u)')
                         /\ (CommittedNowhere(u) => CommittedNowhere(u)')
                         /\ intent'[u] = intent[u]
    BY <2>1 DEF CommittedEverywhere, CommittedNowhere
  <2> QED
    BY <1>7, <1>12, <2>1, <2>2, <2>3
<1>13. ASSUME NEW t \in Tx, RestorePointer(t), holder' = Recovery PROVE RecoveredSoFar'
  <2>1. t \notin generation /\ step' = "restored" /\ At(t, "pointer")
        /\ UNCHANGED <<staging, intent, generation, row, marker, published, lost, aborts, todo>>
    BY <1>13 DEF RestorePointer, Refuse
  <2>2. /\ pointer[nsOf[t]] = t => base[t] \in generation \cup {None}
        /\ pointer' = [pointer EXCEPT ![nsOf[t]] = IF pointer[nsOf[t]] = t THEN base[t] ELSE pointer[nsOf[t]]]
    BY <1>0, <1>13 DEF RestorePointer, Refuse, TypeOK
  <2>3. \A n \in Namespace : pointer'[n] = IF n = nsOf[t] /\ pointer[n] = t THEN base[t] ELSE pointer[n]
    BY <1>0, <2>2 DEF TypeOK
  <2>6. base[t] # t
    BY <1>0, ArtifactAssumption DEF OneLine
  <2>4. UnderRecovery(t)'
    BY <2>1, <2>3, <2>6 DEF UnderRecovery
  <2>5. \A u \in Tx \ {t} : (CommittedEverywhere(u) => CommittedEverywhere(u)')
                         /\ (CommittedNowhere(u) => CommittedNowhere(u)')
                         /\ intent'[u] = intent[u]
    BY <2>1, <2>2, <2>3 DEF CommittedEverywhere, CommittedNowhere
  <2> QED
    BY <1>7, <1>13, <2>1, <2>4, <2>5
<1>14. ASSUME NEW t \in Tx, RollBackIntent(t), holder' = Recovery PROVE RecoveredSoFar'
  <2>1. intent' = [intent EXCEPT ![t] = "rolled_back"] /\ step' = "staging" /\ At(t, "restored")
        /\ UNCHANGED <<staging, generation, pointer, row, marker, published, lost, aborts, todo>>
    BY <1>14 DEF RollBackIntent, Refuse
  <2>2. \A u \in Tx : intent'[u] = IF u = t THEN "rolled_back" ELSE intent[u]
    BY <1>0, <2>1 DEF TypeOK
  <2>3. UnderRecovery(t)'
    BY <1>9, <2>1, <2>2 DEF UnderRecovery
  <2>4. \A u \in Tx \ {t} : (CommittedEverywhere(u) => CommittedEverywhere(u)')
                         /\ (CommittedNowhere(u) => CommittedNowhere(u)')
                         /\ intent'[u] = intent[u]
    BY <2>1, <2>2 DEF CommittedEverywhere, CommittedNowhere
  <2> QED
    BY <1>7, <1>14, <2>1, <2>3, <2>4
<1>15. ASSUME NEW t \in Tx, RecoverIntent(t), holder' = Recovery PROVE RecoveredSoFar'
  <2>1. /\ intent' = [intent EXCEPT ![t] = "committed"] /\ HasDirectory(t)
        /\ todo' = todo \ {t} /\ step' = "pointer" /\ At(t, "intent")
        /\ UNCHANGED <<staging, generation, pointer, row, marker, published, lost, aborts>>
    BY <1>15 DEF RecoverIntent, Refuse
  <2>2. \A u \in Tx : intent'[u] = IF u = t THEN "committed" ELSE intent[u]
    BY <1>0, <2>1 DEF TypeOK
  <2>3. CommittedEverywhere(t)'
    BY <1>9, <2>1, <2>2 DEF UnderRecovery, CommittedEverywhere
  <2>4. \A u \in Tx \ {t} : (CommittedEverywhere(u) => CommittedEverywhere(u)')
                         /\ (CommittedNowhere(u) => CommittedNowhere(u)')
                         /\ intent'[u] = intent[u]
    BY <2>1, <2>2 DEF CommittedEverywhere, CommittedNowhere
  <2> QED
    BY <1>8, <2>1, <2>3, <2>4
<1>16. ASSUME NEW t \in Tx, ClearStaging(t) PROVE RecoveredSoFar'
  <2>1. staging' = staging \ {t} /\ todo' = todo \ {t} /\ step' = "pointer" /\ At(t, "staging")
        /\ UNCHANGED <<intent, generation, pointer, row, marker, published, lost, aborts>>
    BY <1>16 DEF ClearStaging
  <2>2. /\ t \notin generation \cup row \cup marker \/ t \in lost
        /\ pointer[nsOf[t]] # t /\ intent[t] \in {"rolled_back", "absent"}
    BY <1>0, <1>9, <2>1 DEF UnderRecovery, FilesAreInPlace
  <2>3. CommittedNowhere(t)' \/ intent'[t] = "absent" \/ t \in lost
    BY <2>1, <2>2 DEF CommittedNowhere
  <2>4. \A u \in Tx \ {t} : (CommittedEverywhere(u) => CommittedEverywhere(u)')
                         /\ (CommittedNowhere(u) => CommittedNowhere(u)')
                         /\ intent'[u] = intent[u]
    BY <2>1 DEF CommittedEverywhere, CommittedNowhere
  <2> QED
    BY <1>8, <2>1, <2>3, <2>4
<1>17. CASE UNCHANGED vars
  BY <1>0, <1>17 DEF vars, RecoveredSoFar, UnderRecovery, HasDirectory, CommittedEverywhere, CommittedNowhere
<1>18. \A t \in Tx : Stage(t) \/ StartAbort(t) \/ Abort(t) \/ EndAbort(t) => holder' = holder
  BY DEF Stage, StartAbort, Abort, EndAbort
<1> QED
  BY <1>1, <1>2, <1>3, <1>4, <1>5, <1>6, <1>10, <1>11, <1>12, <1>13, <1>14, <1>15, <1>16, <1>17, <1>18, <1>19
  DEF Next, UnitNext, CommitStep, RecoveryStep

\* The transaction invariant is kept by every step.
LEMMA StepTransactions == TransactionInvariant /\ [Next]_vars => TransactionInvariant'
<1> SUFFICES ASSUME TransactionInvariant, [Next]_vars PROVE TransactionInvariant'
  OBVIOUS
<1>1. ArtifactInvariant /\ FilesAreInPlace /\ RecoveredSoFar
  BY DEF TransactionInvariant
<1>2. ArtifactInvariant' /\ FilesAreInPlace'
  BY <1>1, StepInvariant, StepFiles
<1>3. OneLine' /\ CurrentOrOvertaken' /\ RecoveredSoFar'
  BY StepLine, StepOvertaken, StepRecovered
<1> QED
  BY <1>2, <1>3 DEF TransactionInvariant

\* TransactionInvariant holds in every reachable state: what is on disk tells
\* how far each commit, and each recovery of it, came.
THEOREM TransactionInvariantHolds == Spec => []TransactionInvariant
<1>1. TransactionInvariant /\ UNCHANGED vars => TransactionInvariant'
  BY StepTransactions
<1> QED
  BY InitTransactions, StepTransactions, <1>1, PTL DEF Spec

\* A generation that current.json has left never comes back, but in place of one
\* that a power loss struck or after being struck: no late commit or recovery
\* revives it.
THEOREM SupersededStaysSuperseded == Spec => NeverRepublished
<1> DEFINE Republish == \A n \in Namespace :
                           pointer'[n] \in published /\ pointer'[n] # pointer[n] =>
                               pointer[n] \in lost' \/ pointer'[n] \in lost'
<1>1. ASSUME TransactionInvariant, [Next]_vars PROVE [Republish]_vars
  <2>0. TypeOK
    BY <1>1 DEF TransactionInvariant, ArtifactInvariant
  <2>1. CASE Keeps
    BY <2>1 DEF Keeps
  <2>2. ASSUME NEW t \in Tx, Prepares(t) PROVE Republish
    BY <2>2 DEF Prepares
  <2>3. ASSUME NEW t \in Tx, Publishes(t) PROVE Republish
    BY <2>0, <2>3, ArtifactAssumption DEF Publishes, TypeOK
  <2>4. ASSUME NEW t \in Tx, Withdraws(t) PROVE Republish
    BY <2>0, <2>4, ArtifactAssumption DEF Withdraws, TypeOK
  <2> QED
    BY <1>1, <2>1, <2>2, <2>3, <2>4, PointerKinds
<1>2. Spec => [][Republish]_vars
  BY <1>1, TransactionInvariantHolds, PTL DEF Spec
<1> QED
  BY <1>2 DEF NeverRepublished

\* When recover says "passed", every transaction that has an intent and that no
\* power loss struck is committed in all places or in none.
THEOREM PassedMeansComplete == Spec => RecoveryIsComplete
<1> DEFINE Complete == EndRecovery =>
              \A t \in Tx \ lost : intent[t] # "absent" => CommittedEverywhere(t) \/ CommittedNowhere(t)
<1>1. TransactionInvariant => Complete
  BY DEF TransactionInvariant, RecoveredSoFar, EndRecovery
<1>2. Spec => [][Complete]_vars
  BY <1>1, TransactionInvariantHolds, PTL
<1> QED
  BY <1>2 DEF RecoveryIsComplete

\* Recovery stops at a transaction only when another commit went past it, or
\* when the generation it was based on was lost.
THEOREM RefusedWereOvertaken == Spec => RefusesOnlyOvertaken
<1> DEFINE Refused == \A t \in Tx : RefuseMismatch(t) => Overtaken(t) \/ base[t] \in lost
<1>1. TransactionInvariant => Refused
  BY DEF TransactionInvariant, CurrentOrOvertaken, RefuseMismatch
<1>2. Spec => [][Refused]_vars
  BY <1>1, TransactionInvariantHolds, PTL
<1> QED
  BY <1>2 DEF RefusesOnlyOvertaken
=============================================================================
