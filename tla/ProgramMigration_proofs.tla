----------------------- MODULE ProgramMigration_proofs -----------------------
(***************************************************************************)
(* TLAPS proofs about ProgramMigration: with any number of migrators that  *)
(* import and roll back between the calls, the repository keeps what it    *)
(* promises, and so do the migrations that stand.                          *)
(***************************************************************************)
EXTENDS ProgramMigration, ProgramDocuments_proofs

Acknowledging == {"recorded", "projected", "done"}

\* Between its backup and its import a migrator has the lock, the files are
\* still those it copied, and its id is in no ledger yet.
BackedUp ==
    \A m \in Migrator : stage[m] = "backup" =>
        /\ holder = m
        /\ copy[m] = file
        /\ plan[m] \in backups
        /\ \A r \in migrations : r.id # plan[m]
        /\ \A e \in imported : e.id # plan[m]

\* A migration has its id for itself.
Ledger ==
    /\ \A r \in migrations : r.id \in backups
    /\ \A e \in imported : e.id \in backups
    /\ \A r, s \in migrations : r.id = s.id => r = s

\* No document was imported by two migrations that stand.
Disjoint ==
    \A r, s \in migrations :
        r.status = "applied" /\ s.status = "applied" /\ r # s => ImportedBy(r) \cap ImportedBy(s) = {}

\* Where an import is the first version, every write has a later one.
ImportsFirst ==
    \A r \in migrations : r.status = "applied" => \A d \in ImportedBy(r) :
        /\ \A w \in Writer : pc[w] \in Acknowledging /\ request[w].doc = d => version[w] # 1
        /\ \A i \in DOMAIN pending : pending[i].doc = d => pending[i].version # 1

RepositoryInvariant == HistoryInvariant /\ SoundInvariant /\ Fresh

MigrationInvariant ==
    /\ MigrationTypeOK /\ BackedUp /\ Ledger /\ Disjoint
    /\ ImportsAreKept /\ ImportsFirst /\ RowsHaveOrigin

LEMMA InitMigration == SystemInit => RepositoryInvariant /\ MigrationInvariant
<1> SUFFICES ASSUME SystemInit PROVE RepositoryInvariant /\ MigrationInvariant
  OBVIOUS
<1>1. RepositoryInvariant
  BY InitHistory, InitSound, InitRegister DEF SystemInit, RepositoryInvariant
<1>2. MigrationTypeOK
  BY DEF SystemInit, MigrationInit, MigrationTypeOK, Files, NoFiles
<1>3. BackedUp /\ Ledger /\ Disjoint /\ ImportsAreKept /\ ImportsFirst /\ RowsHaveOrigin
  BY DEF SystemInit, Init, MigrationInit, BackedUp, Ledger, Disjoint, ImportsAreKept, ImportsFirst,
     RowsHaveOrigin
<1> QED
  BY <1>1, <1>2, <1>3 DEF MigrationInvariant

-----------------------------------------------------------------------------
(* Steps of the calls.                                                      *)

\* While a migrator has the lock, no call touches the files or the lock.
LEMMA LockedOut ==
    ASSUME HistoryInvariant, SoundInvariant, NEW m \in Migrator, holder = m, [Next]_vars
    PROVE UNCHANGED <<holder, file>>
<1>0. /\ m # None /\ m \notin Caller
      /\ Writer \subseteq Caller /\ Reader \subseteq Caller
  BY ProgramAssumption DEF Caller
<1>1. \A c \in Caller : pc[c] \notin Inside /\ holder # c
  BY <1>0 DEF SoundInvariant, Excluded
<1>2. ASSUME NEW w \in Writer, WriterNext(w) PROVE UNCHANGED <<holder, file>>
  BY <1>0, <1>1, <1>2 DEF WriterNext, StoreObject, RecordEvent, WriteProjection, FinishWrite, Ready, Inside
<1>3. ASSUME NEW r \in Reader, ReaderNext(r) PROVE UNCHANGED <<holder, file>>
  BY <1>0, <1>1, <1>3 DEF ReaderNext, Ask, Read, RefuseRead, ReadLosesLock, EndRecover, Ready, Inside
<1>4. ASSUME NEW c \in Caller, CallerNext(c) PROVE UNCHANGED <<holder, file>>
  <2>1. ~(RefuseVersion(c) \/ RefuseObject(c) \/ RefuseIndex(c) \/ ReplayProjection(c) \/ ReplayIndex(c))
    BY <1>1 DEF RefuseVersion, RefuseObject, RefuseIndex, ReplayProjection, ReplayIndex, Replaying, Inside
  <2>2. ~Enter(c)
    BY <1>0 DEF Enter
  <2> QED
    BY <1>1, <1>4, <2>1, <2>2 DEF CallerNext, Fail, Leave
<1>5. CASE UNCHANGED vars
  BY <1>5 DEF vars
<1> QED
  BY <1>2, <1>3, <1>4, <1>5 DEF Next

\* A record is the next version of its document; nothing else writes a row.
LEMMA StepRows ==
    ASSUME HistoryInvariant, SoundInvariant, Fresh, [Next]_vars
    PROVE \/ \E w \in Writer : RecordEvent(w)
          \/ /\ UNCHANGED <<document, events, version>>
             /\ pending' \in {pending, << >>}
             /\ \A w \in Writer :
                  /\ pc'[w] \in Acknowledging => pc[w] \in Acknowledging /\ request'[w] = request[w]
                  /\ version[w] > 0 => request'[w] = request[w]
<1> DEFINE Still ==
             /\ UNCHANGED <<document, events, version>>
             /\ pending' \in {pending, << >>}
             /\ \A w \in Writer :
                  /\ pc'[w] \in Acknowledging => pc[w] \in Acknowledging /\ request'[w] = request[w]
                  /\ version[w] > 0 => request'[w] = request[w]
<1>0. /\ pc \in [Caller -> {"idle", "ready", "replay", "reindex", "recorded", "projected", "done", "dead"}]
      /\ request \in [Caller -> [doc : Doc \cup {None}, payload : Payload \cup {None}]]
      /\ version \in [Writer -> Nat]
      /\ Writer \subseteq Caller /\ Reader \subseteq Caller /\ Writer \cap Reader = {}
  BY ProgramAssumption DEF HistoryInvariant, TypeOK, Caller
<1> USE DEF GoTo, database, calls
<1>1. ASSUME NEW w \in Writer, WriterNext(w), ~RecordEvent(w) PROVE Still
  <2>1. ASSUME NEW d \in Doc, NEW p \in Payload, StoreObject(w, d, p) PROVE Still
    BY <2>1, <1>0 DEF StoreObject, Fresh, Acknowledging
  <2>2. CASE WriteProjection(w)
    BY <2>2, <1>0 DEF WriteProjection, Acknowledging
  <2>3. CASE FinishWrite(w)
    <3> DEFINE t == [tx |-> w, doc |-> request[w].doc, version |-> version[w]]
    <3>1. pc[w] = "projected" /\ CommitIndex(t)
      BY <2>3 DEF FinishWrite
    <3>2. pending = << t >> /\ t \in Transaction
      BY <3>1, OwnPending
    <3>3. pending' = << >>
      BY <3>1, <3>2, CommitEmpties
    <3> QED
      BY <2>3, <3>3, <1>0 DEF FinishWrite, Acknowledging
  <2> QED
    BY <1>1, <2>1, <2>2, <2>3 DEF WriterNext
<1>2. ASSUME NEW r \in Reader, ReaderNext(r) PROVE Still
  <2>1. UNCHANGED <<document, events, pending, version>>
    BY <1>2 DEF ReaderNext, Ask, Read, RefuseRead, ReadLosesLock, EndRecover, Raise
  <2>2. (\E l : pc' = [pc EXCEPT ![r] = l]) /\ \A w \in Writer : request'[w] = request[w]
    BY <1>0, <1>2 DEF ReaderNext, Ask, Read, RefuseRead, ReadLosesLock, EndRecover, Raise
  <2> QED
    BY <1>0, <2>1, <2>2
<1>3. ASSUME NEW c \in Caller, CallerNext(c) PROVE Still
  <2>1. CASE ReplayIndex(c)
    <3>1. pc[c] = "reindex" /\ CommitIndex(Head(todo[c])) /\ pc' = [pc EXCEPT ![c] = "replay"]
          /\ UNCHANGED <<document, events, version, request>>
      BY <2>1 DEF ReplayIndex
    <3>2. pending' = << >>
      BY <3>1, ReplayedPending, CommitEmpties
    <3> QED
      BY <3>1, <3>2, <1>0 DEF Acknowledging
  <2>2. CASE ~ReplayIndex(c)
    <3>1. UNCHANGED <<document, events, pending, version, request>>
      BY <1>3, <2>2 DEF CallerNext, Enter, Fail, RefuseVersion, RefuseObject, RefuseIndex, Raise, ReplayProjection
    <3>2. \E l : l \notin Acknowledging /\ pc' = [pc EXCEPT ![c] = l]
      BY <1>3, <2>2 DEF CallerNext, Enter, Fail, RefuseVersion, RefuseObject, RefuseIndex, Raise,
         ReplayProjection, Ended, Acknowledging
    <3> QED
      BY <1>0, <3>1, <3>2
  <2> QED
    BY <2>1, <2>2
<1>4. CASE UNCHANGED vars
  BY <1>4 DEF vars
<1> QED
  BY <1>1, <1>2, <1>3, <1>4 DEF Next

\* A document has a row exactly when it has a history.
LEMMA RowsHaveHistory ==
    ASSUME HistoryInvariant, NEW d \in Doc
    PROVE /\ events[d] \in Seq(Version(Payload))
          /\ document[d] = None <=> events[d] = << >>
          /\ document[d] # None => document[d] \in Version(Payload) /\ document[d].version = Len(events[d])
<1>1. /\ events[d] \in Seq(Version(Payload))
      /\ \A i \in DOMAIN events[d] : events[d][i].version = i
      /\ document[d] = IF events[d] = << >> THEN None ELSE events[d][Len(events[d])]
  BY DEF HistoryInvariant, TypeOK, HistoryIsComplete
<1>2. CASE events[d] = << >>
  BY <1>1, <1>2
<1>3. CASE events[d] # << >>
  <2>1. Len(events[d]) \in Nat \ {0} /\ DOMAIN events[d] = 1 .. Len(events[d])
    BY <1>1, <1>3, EmptySeq, LenProperties
  <2>2. document[d] = events[d][Len(events[d])] /\ document[d].version = Len(events[d])
    BY <1>1, <1>3, <2>1
  <2>3. document[d] \in Version(Payload)
    BY <1>1, <2>1, <2>2, ElementOfSeq
  <2> QED
    BY <1>1, <1>3, <2>2, <2>3, ProgramAssumption DEF Version
<1> QED
  BY <1>2, <1>3

\* A record extends a history that is there, and begins one that is not.
LEMMA RecordExtends ==
    ASSUME RepositoryInvariant, NEW w \in Writer, RecordEvent(w)
    PROVE /\ request[w].doc \in Doc
          /\ version' = [version EXCEPT ![w] = Len(events[request[w].doc]) + 1]
          /\ pc' = [pc EXCEPT ![w] = "recorded"]
          /\ request' = request
          /\ \A d \in Doc : d # request[w].doc => document'[d] = document[d]
          /\ \A d \in Doc : events[d] # << >> => events'[d] # << >> /\ events'[d][1] = events[d][1]
          /\ pending' = << [tx |-> w, doc |-> request[w].doc, version |-> Len(events[request[w].doc]) + 1] >>
<1> DEFINE d == request[w].doc
           new == [version |-> NextVersion(d), payload |-> request[w].payload]
<1>0. /\ document \in [Doc -> Version(Payload) \cup {None}] /\ events \in [Doc -> Seq(Version(Payload))]
      /\ w \in Caller
  BY DEF RepositoryInvariant, HistoryInvariant, TypeOK, Caller
<1>1. /\ pc[w] = "replay" /\ todo[w] = << >> /\ pc' = [pc EXCEPT ![w] = "recorded"] /\ request' = request
      /\ document' = [document EXCEPT ![d] = new] /\ events' = [events EXCEPT ![d] = Append(@, new)]
      /\ pending' = Append(pending, [tx |-> w, doc |-> d, version |-> new.version])
      /\ version' = [version EXCEPT ![w] = new.version]
  BY DEF RecordEvent, Ready, GoTo
<1>2. d \in Doc /\ request[w].payload \in Payload /\ NextVersion(d) = Len(events[d]) + 1
  BY <1>1, NextIsNew DEF RepositoryInvariant, HistoryInvariant, Requested
<1>3. new \in Version(Payload)
  BY <1>0, <1>2, NextVersionType DEF Version, RepositoryInvariant, HistoryInvariant
<1>4. pending = << >>
  BY <1>0, <1>1 DEF RepositoryInvariant, SoundInvariant, ReplaysPending
<1>5. \A o \in Doc : o # d => document'[o] = document[o] /\ events'[o] = events[o]
  BY <1>0, <1>1
<1>6. events[d] # << >> => events'[d] # << >> /\ events'[d][1] = events[d][1]
  <2>1. events[d] \in Seq(Version(Payload)) /\ events'[d] = Append(events[d], new)
    BY <1>0, <1>1, <1>2
  <2>2. /\ Len(events'[d]) = Len(events[d]) + 1
        /\ \A i \in 1 .. Len(events[d]) : events'[d][i] = events[d][i]
    BY <2>1, <1>3, AppendProperties
  <2> QED
    BY <2>1, <2>2, EmptySeq, LenProperties
<1> QED
  BY <1>1, <1>2, <1>4, <1>5, <1>6

\* Calls keep what migrations rely on.
LEMMA StepMigration ==
    ASSUME RepositoryInvariant, MigrationInvariant, [Next]_vars, UNCHANGED migration
    PROVE MigrationInvariant'
<1>0. /\ pc \in [Caller -> {"idle", "ready", "replay", "reindex", "recorded", "projected", "done", "dead"}]
      /\ version \in [Writer -> Nat] /\ Writer \subseteq Caller
      /\ pending \in Seq(Transaction)
  BY DEF RepositoryInvariant, HistoryInvariant, TypeOK, Caller
<1>m. UNCHANGED <<stage, plan, copy, backups, migrations, imported, trouble>>
  BY DEF migration
<1>1. (MigrationTypeOK /\ Ledger /\ Disjoint)'
  BY <1>m DEF MigrationInvariant, MigrationTypeOK, Ledger, Disjoint, ImportedBy
<1>2. BackedUp'
  <2> SUFFICES ASSUME NEW m \in Migrator, stage[m] = "backup"
               PROVE UNCHANGED <<holder, file>>
    BY <1>m DEF MigrationInvariant, BackedUp
  <2> QED
    BY LockedOut DEF MigrationInvariant, BackedUp, RepositoryInvariant
<1>3. \A r \in migrations : ImportedBy(r)' = ImportedBy(r) /\ ImportedBy(r) \subseteq Doc
  BY <1>m DEF ImportedBy
<1>4. CASE \E w \in Writer : RecordEvent(w)
  <2>1. PICK w \in Writer : RecordEvent(w)
    BY <1>4
  <2> DEFINE n == Len(events[request[w].doc]) + 1
             t == [tx |-> w, doc |-> request[w].doc, version |-> n]
  <2>2. /\ request[w].doc \in Doc
        /\ version' = [version EXCEPT ![w] = n]
        /\ pc' = [pc EXCEPT ![w] = "recorded"]
        /\ request' = request
        /\ \A d \in Doc : d # request[w].doc => document'[d] = document[d]
        /\ \A d \in Doc : events[d] # << >> => events'[d] # << >> /\ events'[d][1] = events[d][1]
        /\ pending' = << t >>
    BY <2>1, RecordExtends
  <2>3. n \in Nat \ {0} /\ (events[request[w].doc] # << >> => n # 1)
    <3>1. events[request[w].doc] \in Seq(Version(Payload))
      BY <2>2, RowsHaveHistory DEF RepositoryInvariant
    <3> QED
      BY <3>1, EmptySeq, LenProperties
  <2> HIDE DEF n
  <2>4. ImportsAreKept'
    BY <1>m, <1>3, <2>2 DEF MigrationInvariant, ImportsAreKept
  <2>5. ImportsFirst'
    <3>1. DOMAIN pending' = {1} /\ pending'[1] = t
      BY <2>2
    <3>2. ASSUME NEW r \in migrations, r.status = "applied", NEW d \in ImportedBy(r)
          PROVE /\ \A u \in Writer : pc'[u] \in Acknowledging /\ request'[u].doc = d => version'[u] # 1
                /\ \A i \in DOMAIN pending' : pending'[i].doc = d => pending'[i].version # 1
      <4>1. events[d] # << >>
        BY <3>2 DEF MigrationInvariant, ImportsAreKept
      <4>2. d = request[w].doc => n # 1
        BY <4>1, <2>3
      <4>3. \A u \in Writer : pc'[u] \in Acknowledging /\ request'[u].doc = d => version'[u] # 1
        BY <4>2, <3>2, <2>2, <1>0 DEF MigrationInvariant, ImportsFirst
      <4> QED
        BY <3>1, <4>2, <4>3
    <3> QED
      BY <3>2, <1>m, <1>3 DEF ImportsFirst
  <2>6. RowsHaveOrigin'
    <3>1. \A u \in Writer, d \in Doc : Wrote(u, d) => Wrote(u, d)'
      BY <2>2, <2>3, <1>0 DEF Wrote
    <3>2. Wrote(w, request[w].doc)'
      BY <2>2, <2>3, <1>0 DEF Wrote
    <3> QED
      BY <3>1, <3>2, <2>2, <1>m, <1>3 DEF MigrationInvariant, RowsHaveOrigin
  <2> QED
    BY <1>1, <1>2, <2>4, <2>5, <2>6 DEF MigrationInvariant
<1>5. CASE ~\E w \in Writer : RecordEvent(w)
  <2>1. /\ UNCHANGED <<document, events, version>>
        /\ pending' \in {pending, << >>}
        /\ \A w \in Writer :
             /\ pc'[w] \in Acknowledging => pc[w] \in Acknowledging /\ request'[w] = request[w]
             /\ version[w] > 0 => request'[w] = request[w]
    BY <1>5, StepRows DEF RepositoryInvariant
  <2>2. ImportsAreKept'
    BY <1>m, <1>3, <2>1 DEF MigrationInvariant, ImportsAreKept
  <2>3. ImportsFirst'
    <3>1. \A i \in DOMAIN pending' : i \in DOMAIN pending /\ pending'[i] = pending[i]
      BY <2>1
    <3> QED
      BY <1>m, <1>3, <2>1, <3>1 DEF MigrationInvariant, ImportsFirst
  <2>4. RowsHaveOrigin'
    BY <1>m, <1>3, <2>1 DEF MigrationInvariant, RowsHaveOrigin, Wrote
  <2> QED
    BY <1>1, <1>2, <2>2, <2>3, <2>4 DEF MigrationInvariant
<1> QED
  BY <1>4, <1>5

-----------------------------------------------------------------------------
(* Steps of the migrators.                                                  *)

\* No call is inside while a migrator has the lock, or nobody has it.
LEMMA NobodyInside ==
    ASSUME SoundInvariant, holder \in Migrator \cup {None}
    PROVE \A c \in Caller : pc[c] \notin Inside
BY ProgramAssumption DEF SoundInvariant, Excluded, Caller

\* What the repository needs is indifferent to a lock that no call has.
LEMMA LockChangesHands ==
    ASSUME RepositoryInvariant, holder \in Migrator \cup {None}, holder' \in Migrator \cup {None},
           UNCHANGED <<objects, database, file, todo, pc, calls, refusal>>
    PROVE RepositoryInvariant' /\ UNCHANGED RegisterVars
<1> USE DEF database, calls
<1>1. HistoryInvariant'
  BY DEF RepositoryInvariant, HistoryInvariant, TypeOK, HistoryIsComplete, Requested, Reindexing, Recorded
<1>2. (Excluded /\ ReplaysPending /\ WritesPending)'
  BY NobodyInside DEF RepositoryInvariant, Excluded, ReplaysPending, WritesPending, Inside, Caller
<1>3. (Stored /\ PendingIsLatest /\ ProjectionFollows /\ NeverRefuses)'
  BY DEF RepositoryInvariant, SoundInvariant, Stored, PendingIsLatest, ProjectionFollows, NeverRefuses,
     IsCurrent, Pending
<1>4. Fresh'
  BY DEF RepositoryInvariant, Fresh
<1>5. UNCHANGED RegisterVars
  BY Unseen
<1> QED
  BY <1>1, <1>2, <1>3, <1>4, <1>5 DEF RepositoryInvariant, SoundInvariant

\* An import gives a document without a row the version that its file already holds.
LEMMA ImportKeepsRepository ==
    ASSUME RepositoryInvariant, MigrationInvariant, NEW m \in Migrator, Import(m)
    PROVE RepositoryInvariant' /\ UNCHANGED RegisterVars
<1> DEFINE new == Adopted(m)
           first == [d \in Doc |-> [version |-> 1, payload |-> copy[m][d]]]
<1>1. /\ stage[m] = "backup"
      /\ objects' = objects \cup {copy[m][d] : d \in new}
      /\ document' = [d \in Doc |-> IF d \in new THEN first[d] ELSE document[d]]
      /\ index' = [d \in Doc |-> IF d \in new THEN first[d] ELSE index[d]]
      /\ events' = [d \in Doc |-> IF d \in new THEN Append(events[d], first[d]) ELSE events[d]]
      /\ holder' = IF holder = m THEN None ELSE holder
      /\ UNCHANGED <<pending, file, todo, pc, request, version, answer, refusal>>
  BY DEF Import, calls
<1>2. holder = m /\ holder' = None /\ copy[m] = file
  BY <1>1 DEF MigrationInvariant, BackedUp
<1>3. /\ objects \subseteq Payload /\ document \in [Doc -> Version(Payload) \cup {None}]
      /\ events \in [Doc -> Seq(Version(Payload))] /\ index \in [Doc -> Version(Payload) \cup {None}]
      /\ file \in [Doc -> Payload \cup {None}]
      /\ Writer \subseteq Caller
  BY DEF RepositoryInvariant, HistoryInvariant, TypeOK, Caller
<1>4. ASSUME NEW d \in new
      PROVE /\ d \in Doc /\ document[d] = None /\ file[d] \in Payload
            /\ first[d].version = 1 /\ first[d].payload = file[d] /\ first[d] \in Version(Payload)
            /\ first[d] # None /\ events[d] = << >> /\ Append(events[d], first[d]) = << first[d] >>
  <2>1. d \in Doc /\ document[d] = None /\ file[d] # None
    BY <1>2 DEF Adopted
  <2>2. file[d] \in Payload /\ first[d] = [version |-> 1, payload |-> file[d]]
    BY <1>2, <1>3, <2>1
  <2>3. first[d] \in Version(Payload) /\ first[d] # None
    BY <2>2, ProgramAssumption DEF Version
  <2>4. events[d] = << >>
    BY <2>1, RowsHaveHistory DEF RepositoryInvariant
  <2>5. Append(events[d], first[d]) = << first[d] >>
    BY <2>4
  <2> QED
    BY <2>1, <2>2, <2>3, <2>4, <2>5
<1> HIDE DEF first, new
<1>5. TypeOK'
  <2>1. ASSUME NEW d \in new PROVE Append(events[d], first[d]) \in Seq(Version(Payload))
    BY <1>3, <1>4, AppendProperties
  <2>2. objects' \subseteq Payload
    BY <1>1, <1>2, <1>3, <1>4
  <2>3. /\ document' \in [Doc -> Version(Payload) \cup {None}]
        /\ index' \in [Doc -> Version(Payload) \cup {None}]
        /\ events' \in [Doc -> Seq(Version(Payload))]
    BY <1>1, <1>3, <1>4, <2>1
  <2> QED
    BY <1>1, <1>2, <2>2, <2>3 DEF RepositoryInvariant, HistoryInvariant, TypeOK
<1>6. HistoryIsComplete'
  <2> SUFFICES ASSUME NEW d \in Doc
               PROVE /\ \A i \in DOMAIN events'[d] : events'[d][i].version = i
                     /\ document'[d] = IF events'[d] = << >> THEN None ELSE events'[d][Len(events'[d])]
    BY DEF HistoryIsComplete
  <2>1. CASE d \in new
    <3>1. events'[d] = << first[d] >> /\ document'[d] = first[d] /\ first[d].version = 1
      BY <1>1, <1>4, <2>1
    <3>2. << first[d] >> # << >> /\ Len(<< first[d] >>) = 1 /\ << first[d] >>[1] = first[d]
          /\ DOMAIN << first[d] >> = {1}
      OBVIOUS
    <3> QED
      BY <3>1, <3>2
  <2>2. CASE d \notin new
    BY <1>1, <2>2 DEF RepositoryInvariant, HistoryInvariant, HistoryIsComplete
  <2> QED
    BY <2>1, <2>2
<1>7. (Requested /\ Reindexing)'
  BY <1>1 DEF RepositoryInvariant, HistoryInvariant, Requested, Reindexing
<1>8. Recorded'
  <2> SUFFICES ASSUME NEW w \in Writer, pc[w] \in Acknowledging
               PROVE /\ version[w] \in 1 .. Len(events'[request[w].doc])
                     /\ events'[request[w].doc][version[w]].payload = request[w].payload
    BY <1>1 DEF Recorded, Acknowledging
  <2>1. /\ request[w].doc \in Doc /\ version[w] \in 1 .. Len(events[request[w].doc])
        /\ events[request[w].doc][version[w]].payload = request[w].payload
    BY DEF RepositoryInvariant, HistoryInvariant, Requested, Recorded, Acknowledging
  <2>2. request[w].doc \notin new
    <3> SUFFICES ASSUME events[request[w].doc] = << >> PROVE FALSE
      BY <1>4
    <3>1. Len(events[request[w].doc]) = 0
      BY EmptySeq
    <3> QED
      BY <2>1, <3>1
  <2> QED
    BY <1>1, <2>1, <2>2
<1>9. (Excluded /\ ReplaysPending /\ WritesPending)'
  BY <1>1, <1>2, <1>3, NobodyInside DEF RepositoryInvariant, Excluded, ReplaysPending, WritesPending, Inside
<1>10. Stored'
  <2>1. ASSUME NEW d \in Doc, document'[d] # None PROVE document'[d].payload \in objects'
    <3>1. CASE d \in new
      BY <1>1, <1>2, <1>4, <3>1
    <3>2. CASE d \notin new
      BY <1>1, <2>1, <3>2 DEF RepositoryInvariant, SoundInvariant, Stored
    <3> QED
      BY <3>1, <3>2
  <2>2. \A w \in Writer : pc'[w] # "idle" => request'[w].payload \in objects'
    BY <1>1 DEF RepositoryInvariant, SoundInvariant, Stored
  <2> QED
    BY <2>1, <2>2 DEF Stored
<1>11. PendingIsLatest'
  <2>1. pending \in Seq(Transaction)
    BY DEF RepositoryInvariant, HistoryInvariant, TypeOK
  <2>2. ASSUME NEW i \in DOMAIN pending PROVE IsCurrent(pending[i])'
    <3>1. pending[i] \in Transaction /\ IsCurrent(pending[i])
      BY <2>1, ElementOfSeq, LenProperties DEF RepositoryInvariant, SoundInvariant, PendingIsLatest
    <3>2. pending[i].doc \in Doc /\ pending[i].doc \notin new
      BY <3>1, <1>4 DEF IsCurrent, Transaction
    <3> QED
      BY <1>1, <3>1, <3>2 DEF IsCurrent
  <2> QED
    BY <1>1, <2>2 DEF RepositoryInvariant, SoundInvariant, PendingIsLatest
<1>12. (ProjectionFollows /\ NeverRefuses)'
  <2>1. NeverRefuses'
    BY <1>1 DEF RepositoryInvariant, SoundInvariant, NeverRefuses
  <2>2. ASSUME NEW d \in Doc, document'[d] # None, ~Pending(d)
        PROVE file[d] = document'[d].payload /\ index'[d] = document'[d]
    <3>1. CASE d \in new
      BY <1>1, <1>4, <3>1
    <3>2. CASE d \notin new
      BY <1>1, <2>2, <3>2 DEF RepositoryInvariant, SoundInvariant, ProjectionFollows
    <3> QED
      BY <3>1, <3>2
  <2> QED
    BY <1>1, <2>1, <2>2 DEF ProjectionFollows, Pending
<1>13. Fresh'
  BY <1>1 DEF RepositoryInvariant, Fresh
<1>14. UNCHANGED RegisterVars
  <2>1. ASSUME NEW d \in Doc
        PROVE (IF document'[d] = None THEN file[d] ELSE document'[d].payload)
                = (IF document[d] = None THEN file[d] ELSE document[d].payload)
    <3>1. CASE d \in new
      BY <1>1, <1>4, <3>1
    <3>2. CASE d \notin new
      BY <1>1, <3>2
    <3> QED
      BY <3>1, <3>2
  <2>2. ReadersSee' = ReadersSee
    BY <1>1, <2>1 DEF ReadersSee
  <2> QED
    BY <1>1, <2>2 DEF RegisterVars
<1> QED
  BY <1>5, <1>6, <1>7, <1>8, <1>9, <1>10, <1>11, <1>12, <1>13, <1>14
     DEF RepositoryInvariant, HistoryInvariant, SoundInvariant

\* The documents that a rollback deletes have no write, done or pending.
LEMMA GoneIsUntouched ==
    ASSUME RepositoryInvariant, MigrationInvariant, NEW r \in migrations, r.status = "applied",
           \A d \in ImportedBy(r) : Untouched(r, d)
    PROVE /\ \A d \in ImportedBy(r) :
               /\ d \in Doc /\ document[d] # None /\ ~Pending(d)
               /\ \A w \in Writer : pc[w] \in Acknowledging => request[w].doc # d
          /\ Remaining(ImportedBy(r)) = pending
<1>1. ASSUME NEW d \in ImportedBy(r)
      PROVE d \in Doc /\ document[d] # None /\ document[d].version = 1 /\ Len(events[d]) = 1
  <2>1. d \in Doc /\ events[d] # << >> /\ document[d] = [version |-> 1, payload |-> r.source[d]]
    BY <1>1 DEF MigrationInvariant, ImportsAreKept, ImportedBy, Untouched
  <2>2. /\ document[d] = None <=> events[d] = << >>
        /\ document[d] # None => document[d].version = Len(events[d])
    BY <2>1, RowsHaveHistory DEF RepositoryInvariant
  <2>3. document[d] # None /\ document[d].version = 1
    BY <2>1, <2>2
  <2> QED
    BY <2>1, <2>2, <2>3
<1>2. ASSUME NEW d \in ImportedBy(r), NEW i \in DOMAIN pending PROVE pending[i].doc # d
  <2>1. IsCurrent(pending[i])
    BY DEF RepositoryInvariant, SoundInvariant, PendingIsLatest
  <2>2. pending[i].doc = d => pending[i].version # 1
    BY DEF MigrationInvariant, ImportsFirst
  <2> QED
    BY <1>1, <2>1, <2>2 DEF IsCurrent
<1>3. ASSUME NEW d \in ImportedBy(r), NEW w \in Writer, pc[w] \in Acknowledging, request[w].doc = d
      PROVE FALSE
  <2>1. version[w] \in 1 .. Len(events[d])
    BY <1>3 DEF RepositoryInvariant, HistoryInvariant, Recorded, Acknowledging
  <2>2. version[w] # 1
    BY <1>3 DEF MigrationInvariant, ImportsFirst
  <2>3. Len(events[d]) = 1
    BY <1>1
  <2> QED
    BY <2>1, <2>2, <2>3
<1>4. Remaining(ImportedBy(r)) = pending
  BY <1>2 DEF Remaining
<1> QED
  BY <1>1, <1>2, <1>3, <1>4 DEF Pending

\* A rollback leaves the documents it deletes to their files, which hold what the rows held.
LEMMA RollBackKeepsRepository ==
    ASSUME RepositoryInvariant, MigrationInvariant, NEW m \in Migrator, NEW r \in migrations, RollBack(m, r)
    PROVE RepositoryInvariant' /\ UNCHANGED RegisterVars
<1> DEFINE gone == ImportedBy(r)
<1>1. /\ holder = None /\ r.status = "applied"
      /\ \A d \in gone : Untouched(r, d)
      /\ document' = [d \in Doc |-> IF d \in gone THEN None ELSE document[d]]
      /\ index' = [d \in Doc |-> IF d \in gone THEN None ELSE index[d]]
      /\ events' = [d \in Doc |-> IF d \in gone THEN << >> ELSE events[d]]
      /\ pending' = Remaining(gone)
      /\ UNCHANGED <<objects, file, holder, todo, pc, request, version, answer, refusal>>
  BY DEF RollBack, calls
<1>2. /\ \A d \in gone : /\ d \in Doc /\ document[d] # None /\ ~Pending(d)
                         /\ \A w \in Writer : pc[w] \in Acknowledging => request[w].doc # d
      /\ pending' = pending
  BY <1>1, GoneIsUntouched
<1> HIDE DEF gone
<1>3. /\ document \in [Doc -> Version(Payload) \cup {None}]
      /\ events \in [Doc -> Seq(Version(Payload))] /\ index \in [Doc -> Version(Payload) \cup {None}]
      /\ Writer \subseteq Caller
  BY DEF RepositoryInvariant, HistoryInvariant, TypeOK, Caller
<1>4. TypeOK'
  <2>1. << >> \in Seq(Version(Payload))
    OBVIOUS
  <2>2. /\ document' \in [Doc -> Version(Payload) \cup {None}]
        /\ index' \in [Doc -> Version(Payload) \cup {None}]
        /\ events' \in [Doc -> Seq(Version(Payload))]
    BY <1>1, <1>3, <2>1
  <2> QED
    BY <1>1, <1>2, <2>2 DEF RepositoryInvariant, HistoryInvariant, TypeOK
<1>5. HistoryIsComplete'
  <2> SUFFICES ASSUME NEW d \in Doc
               PROVE /\ \A i \in DOMAIN events'[d] : events'[d][i].version = i
                     /\ document'[d] = IF events'[d] = << >> THEN None ELSE events'[d][Len(events'[d])]
    BY DEF HistoryIsComplete
  <2>1. CASE d \in gone
    <3>1. events'[d] = << >> /\ document'[d] = None
      BY <1>1, <2>1
    <3>2. DOMAIN events'[d] = {}
      BY <3>1, EmptySeq
    <3> QED
      BY <3>1, <3>2
  <2>2. CASE d \notin gone
    BY <1>1, <2>2 DEF RepositoryInvariant, HistoryInvariant, HistoryIsComplete
  <2> QED
    BY <2>1, <2>2
<1>6. (Requested /\ Reindexing)'
  BY <1>1 DEF RepositoryInvariant, HistoryInvariant, Requested, Reindexing
<1>7. Recorded'
  <2> SUFFICES ASSUME NEW w \in Writer, pc[w] \in Acknowledging
               PROVE /\ version[w] \in 1 .. Len(events'[request[w].doc])
                     /\ events'[request[w].doc][version[w]].payload = request[w].payload
    BY <1>1 DEF Recorded, Acknowledging
  <2>1. /\ request[w].doc \in Doc /\ version[w] \in 1 .. Len(events[request[w].doc])
        /\ events[request[w].doc][version[w]].payload = request[w].payload
    BY DEF RepositoryInvariant, HistoryInvariant, Requested, Recorded, Acknowledging
  <2>2. request[w].doc \notin gone
    BY <1>2
  <2> QED
    BY <1>1, <2>1, <2>2
<1>8. (Excluded /\ ReplaysPending /\ WritesPending)'
  BY <1>1, <1>3, NobodyInside DEF RepositoryInvariant, Excluded, ReplaysPending, WritesPending, Inside
<1>9. Stored'
  <2>1. ASSUME NEW d \in Doc, document'[d] # None PROVE document'[d].payload \in objects
    BY <1>1, <2>1 DEF RepositoryInvariant, SoundInvariant, Stored
  <2>2. \A w \in Writer : pc'[w] # "idle" => request'[w].payload \in objects'
    BY <1>1 DEF RepositoryInvariant, SoundInvariant, Stored
  <2> QED
    BY <1>1, <2>1, <2>2 DEF Stored
<1>10. PendingIsLatest'
  <2>1. pending \in Seq(Transaction)
    BY DEF RepositoryInvariant, HistoryInvariant, TypeOK
  <2>2. ASSUME NEW i \in DOMAIN pending PROVE IsCurrent(pending[i])'
    <3>1. pending[i] \in Transaction /\ IsCurrent(pending[i])
      BY <2>1, ElementOfSeq, LenProperties DEF RepositoryInvariant, SoundInvariant, PendingIsLatest
    <3>2. pending[i].doc \in Doc /\ pending[i].doc \notin gone
      BY <3>1, <1>2 DEF Pending, Transaction
    <3> QED
      BY <1>1, <1>2, <3>1, <3>2 DEF IsCurrent
  <2> QED
    BY <1>2, <2>2 DEF RepositoryInvariant, SoundInvariant, PendingIsLatest
<1>11. (ProjectionFollows /\ NeverRefuses)'
  BY <1>1, <1>2 DEF RepositoryInvariant, SoundInvariant, ProjectionFollows, NeverRefuses, Pending
<1>12. Fresh'
  BY <1>1 DEF RepositoryInvariant, Fresh
<1>13. UNCHANGED RegisterVars
  <2>1. ASSUME NEW d \in Doc
        PROVE (IF document'[d] = None THEN file[d] ELSE document'[d].payload)
                = (IF document[d] = None THEN file[d] ELSE document[d].payload)
    <3>1. CASE d \in gone
      BY <1>1, <1>2, <3>1 DEF RepositoryInvariant, SoundInvariant, ProjectionFollows
    <3>2. CASE d \notin gone
      BY <1>1, <3>2
    <3> QED
      BY <3>1, <3>2
  <2>2. ReadersSee' = ReadersSee
    BY <1>1, <2>1 DEF ReadersSee
  <2> QED
    BY <1>1, <2>2 DEF RegisterVars
<1> QED
  BY <1>4, <1>5, <1>6, <1>7, <1>8, <1>9, <1>10, <1>11, <1>12, <1>13
     DEF RepositoryInvariant, HistoryInvariant, SoundInvariant

\* No step of a migrator puts the repository in a state that it later refuses, or is seen by a reader.
LEMMA MigratorKeepsRepository ==
    ASSUME RepositoryInvariant, MigrationInvariant, NEW m \in Migrator, MigratorNext(m)
    PROVE RepositoryInvariant' /\ UNCHANGED RegisterVars
<1>1. CASE UNCHANGED vars
  <2>1. RepositoryInvariant'
    <3>1. [Next]_vars
      BY <1>1
    <3> QED
      BY <3>1, NextKeepsHistory, StepSound, StepFresh DEF RepositoryInvariant
  <2>2. UNCHANGED RegisterVars
    BY <1>1, Unseen DEF vars, database
  <2> QED
    BY <2>1, <2>2
<1>2. CASE BackUp(m)
  BY <1>2, LockChangesHands DEF BackUp
<1>3. CASE Import(m)
  BY <1>3, ImportKeepsRepository
<1>4. CASE FailMigration(m)
  <2>1. CASE holder = m
    BY <1>4, <2>1, LockChangesHands DEF FailMigration
  <2>2. CASE holder # m
    <3>1. UNCHANGED vars
      BY <1>4, <2>2 DEF FailMigration, vars
    <3> QED
      BY <1>1, <3>1
  <2> QED
    BY <2>1, <2>2
<1>5. CASE \E r \in migrations : RollBack(m, r)
  BY <1>5, RollBackKeepsRepository
<1>6. CASE PlanMigration(m) \/ AlreadyApplied(m) \/ RefuseBackup(m) \/ \E r \in migrations : RefuseRollBack(m, r)
  <2>1. UNCHANGED vars
    BY <1>6 DEF PlanMigration, AlreadyApplied, RefuseBackup, RefuseRollBack
  <2> QED
    BY <1>1, <2>1
<1> QED
  BY <1>2, <1>3, <1>4, <1>5, <1>6 DEF MigratorNext

\* A step that leaves the ledgers, the rows and the calls alone leaves what they say.
LEMMA LedgersStand ==
    ASSUME MigrationInvariant,
           UNCHANGED <<document, events, pending, pc, request, version, migrations, imported>>
    PROVE (Disjoint /\ ImportsAreKept /\ ImportsFirst /\ RowsHaveOrigin)'
BY DEF MigrationInvariant, Disjoint, ImportsAreKept, ImportsFirst, RowsHaveOrigin, ImportedBy, Wrote

\* An import is of documents without a past, under an id of its own.
LEMMA ImportKeepsMigration ==
    ASSUME RepositoryInvariant, MigrationInvariant, NEW m \in Migrator, Import(m)
    PROVE MigrationInvariant'
<1> DEFINE new == Adopted(m)
           first == [d \in Doc |-> [version |-> 1, payload |-> copy[m][d]]]
<1>0. PICK row : row = [id |-> plan[m], source |-> copy[m], status |-> "applied"]
  OBVIOUS
<1>1. /\ stage[m] = "backup"
      /\ document' = [d \in Doc |-> IF d \in new THEN first[d] ELSE document[d]]
      /\ events' = [d \in Doc |-> IF d \in new THEN Append(events[d], first[d]) ELSE events[d]]
      /\ imported' = imported \cup {[id |-> plan[m], doc |-> d] : d \in new}
      /\ migrations' = migrations \cup {row}
      /\ stage' = [stage EXCEPT ![m] = "idle"]
      /\ UNCHANGED <<pending, pc, request, version, plan, copy, backups, trouble>>
  BY <1>0 DEF Import, SetStage, calls
<1>2. /\ holder = m /\ plan[m] \in backups
      /\ \A r \in migrations : r.id # plan[m]
      /\ \A e \in imported : e.id # plan[m]
  BY <1>1 DEF MigrationInvariant, BackedUp
<1>3. plan \in [Migrator -> Files] /\ copy \in [Migrator -> Files] /\ new \subseteq Doc
      /\ stage \in [Migrator -> {"idle", "planned", "backup"}]
  BY DEF MigrationInvariant, MigrationTypeOK, Adopted
<1>4. ASSUME NEW d \in new
      PROVE /\ d \in Doc /\ document[d] = None /\ events[d] = << >>
            /\ events'[d] # << >> /\ events'[d][1] = [version |-> 1, payload |-> copy[m][d]]
  <2>1. d \in Doc /\ document[d] = None
    BY DEF Adopted
  <2>2. events[d] = << >>
    BY <2>1, RowsHaveHistory DEF RepositoryInvariant
  <2>3. first[d] = [version |-> 1, payload |-> copy[m][d]]
    BY <2>1
  <2> HIDE DEF first, new
  <2>4. events'[d] = Append(events[d], first[d])
    BY <1>1, <2>1
  <2>5. events'[d] = << first[d] >>
    BY <2>2, <2>4
  <2> QED
    BY <2>1, <2>2, <2>3, <2>5
<1>r. row.id = plan[m] /\ row.source = copy[m] /\ row.status = "applied"
      /\ row \in [id : Files, source : Files, status : {"applied", "rolled_back"}]
  BY <1>0, <1>3
<1> HIDE DEF new, first
<1>5. ImportedBy(row)' = new
  BY <1>1, <1>2, <1>3, <1>r DEF ImportedBy
<1>6. \A r \in migrations : ImportedBy(r)' = ImportedBy(r)
  BY <1>1, <1>2 DEF ImportedBy
<1>7. \A r \in migrations : r.status = "applied" => ImportedBy(r) \cap new = {}
  BY <1>4 DEF MigrationInvariant, ImportsAreKept
<1>8. MigrationTypeOK'
  <2>1. {[id |-> plan[m], doc |-> d] : d \in new} \subseteq [id : Files, doc : Doc]
    BY <1>3
  <2>2. imported' \subseteq [id : Files, doc : Doc]
    BY <1>1, <2>1 DEF MigrationInvariant, MigrationTypeOK
  <2> QED
    BY <1>1, <1>3, <1>r, <2>2 DEF MigrationInvariant, MigrationTypeOK
<1>9. BackedUp'
  <2>1. \A o \in Migrator : stage'[o] # "backup"
    BY <1>1, <1>2, <1>3 DEF MigrationInvariant, BackedUp
  <2> QED
    BY <2>1 DEF BackedUp
<1>10. Ledger'
  BY <1>1, <1>2, <1>r DEF MigrationInvariant, Ledger
<1>11. Disjoint'
  BY <1>1, <1>5, <1>6, <1>7 DEF MigrationInvariant, Disjoint
<1>12. ImportsAreKept'
  <2>1. ASSUME NEW r \in migrations, r.status = "applied", NEW d \in ImportedBy(r)
        PROVE events'[d] # << >> /\ events'[d][1] = [version |-> 1, payload |-> r.source[d]]
    <3>1. d \in Doc /\ d \notin new
      BY <2>1, <1>7 DEF ImportedBy
    <3> QED
      BY <1>1, <2>1, <3>1 DEF MigrationInvariant, ImportsAreKept
  <2>2. ASSUME NEW r \in migrations', r.status = "applied", NEW d \in ImportedBy(r)'
        PROVE events'[d] # << >> /\ events'[d][1] = [version |-> 1, payload |-> r.source[d]]
    <3>1. CASE r \in migrations
      BY <2>1, <2>2, <3>1, <1>6
    <3>2. CASE r = row
      BY <2>2, <3>2, <1>4, <1>5, <1>r
    <3> QED
      BY <3>1, <3>2, <1>1
  <2> QED
    BY <2>2 DEF ImportsAreKept
<1>13. ImportsFirst'
  <2>1. ASSUME NEW d \in new, NEW w \in Writer, pc[w] \in Acknowledging, request[w].doc = d PROVE FALSE
    <3>1. version[w] \in 1 .. Len(events[d])
      BY <2>1 DEF RepositoryInvariant, HistoryInvariant, Recorded, Acknowledging
    <3>2. Len(events[d]) = 0
      BY <1>4, EmptySeq
    <3> QED
      BY <3>1, <3>2
  <2>2. ASSUME NEW d \in new, NEW i \in DOMAIN pending PROVE pending[i].doc # d
    BY <1>4 DEF RepositoryInvariant, SoundInvariant, PendingIsLatest, IsCurrent
  <2>3. ASSUME NEW r \in migrations', r.status = "applied", NEW d \in ImportedBy(r)'
        PROVE /\ \A w \in Writer : pc[w] \in Acknowledging /\ request[w].doc = d => version[w] # 1
              /\ \A i \in DOMAIN pending : pending[i].doc = d => pending[i].version # 1
    <3>1. CASE r \in migrations
      BY <2>3, <3>1, <1>6 DEF MigrationInvariant, ImportsFirst
    <3>2. CASE r = row
      BY <2>1, <2>2, <2>3, <3>2, <1>5
    <3> QED
      BY <3>1, <3>2, <1>1
  <2> QED
    BY <1>1, <2>3 DEF ImportsFirst
<1>14. RowsHaveOrigin'
  <2>1. ASSUME NEW d \in Doc, document'[d] # None
        PROVE \/ \E w \in Writer : Wrote(w, d)
              \/ \E r \in migrations' : r.status = "applied" /\ d \in ImportedBy(r)'
    <3>1. CASE d \in new
      BY <1>1, <1>5, <1>r, <3>1
    <3>2. CASE d \notin new
      BY <1>1, <1>6, <2>1, <3>2 DEF MigrationInvariant, RowsHaveOrigin
    <3> QED
      BY <3>1, <3>2
  <2> QED
    BY <1>1, <2>1 DEF RowsHaveOrigin, Wrote
<1> QED
  BY <1>8, <1>9, <1>10, <1>11, <1>12, <1>13, <1>14 DEF MigrationInvariant

\* A rollback takes back its own imports and no other's.
LEMMA RollBackKeepsMigration ==
    ASSUME RepositoryInvariant, MigrationInvariant, NEW m \in Migrator, NEW r \in migrations, RollBack(m, r)
    PROVE MigrationInvariant'
<1> DEFINE gone == ImportedBy(r)
           back == [r EXCEPT !.status = "rolled_back"]
<1>1. /\ stage[m] = "idle" /\ holder = None /\ r.status = "applied"
      /\ document' = [d \in Doc |-> IF d \in gone THEN None ELSE document[d]]
      /\ events' = [d \in Doc |-> IF d \in gone THEN << >> ELSE events[d]]
      /\ pending' = Remaining(gone)
      /\ migrations' = (migrations \ {r}) \cup {back}
      /\ UNCHANGED <<pc, request, version, stage, plan, copy, backups, imported, trouble>>
  BY DEF RollBack, calls
<1>2. pending' = pending
  BY <1>1, GoneIsUntouched DEF RollBack
<1>3. r \in [id : Files, source : Files, status : {"applied", "rolled_back"}]
  BY DEF MigrationInvariant, MigrationTypeOK
<1>4. /\ back.id = r.id /\ back.status = "rolled_back"
      /\ back \in [id : Files, source : Files, status : {"applied", "rolled_back"}]
  BY <1>3
<1> HIDE DEF gone, back
<1>5. ASSUME NEW s \in migrations', s.status = "applied"
      PROVE s \in migrations /\ s # r /\ ImportedBy(s)' = ImportedBy(s) /\ ImportedBy(s) \subseteq Doc
  BY <1>1, <1>4, <1>5 DEF ImportedBy
<1>6. ASSUME NEW s \in migrations', s.status = "applied"
      PROVE ImportedBy(s) \cap gone = {}
  BY <1>1, <1>5, <1>6 DEF MigrationInvariant, Disjoint, gone
<1>7. MigrationTypeOK'
  BY <1>1, <1>4 DEF MigrationInvariant, MigrationTypeOK
<1>8. BackedUp'
  <2>1. \A o \in Migrator : stage'[o] # "backup"
    BY <1>1, ProgramAssumption DEF MigrationInvariant, BackedUp
  <2> QED
    BY <2>1 DEF BackedUp
<1>9. Ledger'
  BY <1>1, <1>4 DEF MigrationInvariant, Ledger
<1>10. Disjoint'
  BY <1>5 DEF MigrationInvariant, Disjoint
<1>11. ImportsAreKept'
  <2> SUFFICES ASSUME NEW s \in migrations', s.status = "applied", NEW d \in ImportedBy(s)'
               PROVE events'[d] # << >> /\ events'[d][1] = [version |-> 1, payload |-> s.source[d]]
    BY DEF ImportsAreKept
  <2>1. s \in migrations /\ d \in ImportedBy(s) /\ d \in Doc /\ d \notin gone
    BY <1>5, <1>6
  <2> QED
    BY <1>1, <2>1 DEF MigrationInvariant, ImportsAreKept
<1>12. ImportsFirst'
  BY <1>1, <1>2, <1>5 DEF MigrationInvariant, ImportsFirst
<1>13. RowsHaveOrigin'
  <2>1. ASSUME NEW d \in Doc, document'[d] # None
        PROVE \/ \E w \in Writer : Wrote(w, d)
              \/ \E s \in migrations' : s.status = "applied" /\ d \in ImportedBy(s)'
    <3>1. d \notin gone /\ document[d] # None
      BY <1>1, <2>1
    <3>2. CASE \E w \in Writer : Wrote(w, d)
      BY <3>2
    <3>3. CASE \E s \in migrations : s.status = "applied" /\ d \in ImportedBy(s)
      <4>1. PICK s \in migrations : s.status = "applied" /\ d \in ImportedBy(s)
        BY <3>3
      <4>2. s # r
        BY <3>1, <4>1 DEF gone
      <4> QED
        BY <1>1, <1>5, <4>1, <4>2
    <3> QED
      BY <3>1, <3>2, <3>3 DEF MigrationInvariant, RowsHaveOrigin
  <2> QED
    BY <1>1, <2>1 DEF RowsHaveOrigin, Wrote
<1> QED
  BY <1>7, <1>8, <1>9, <1>10, <1>11, <1>12, <1>13 DEF MigrationInvariant

\* Every step of a migrator keeps what migrations rely on.
LEMMA MigratorKeepsMigration ==
    ASSUME RepositoryInvariant, MigrationInvariant, NEW m \in Migrator, MigratorNext(m)
    PROVE MigrationInvariant'
<1>0. /\ stage \in [Migrator -> {"idle", "planned", "backup"}] /\ m # None
      /\ plan \in [Migrator -> Files] /\ copy \in [Migrator -> Files] /\ file \in Files
  BY ProgramAssumption DEF MigrationInvariant, MigrationTypeOK, RepositoryInvariant, HistoryInvariant, TypeOK, Files
<1>1. CASE PlanMigration(m)
  <2>1. /\ stage[m] = "idle" /\ plan' = [plan EXCEPT ![m] = file] /\ stage' = [stage EXCEPT ![m] = "planned"]
        /\ UNCHANGED <<document, events, pending, file, holder, pc, request, version,
                       copy, backups, migrations, imported, trouble>>
    BY <1>1 DEF PlanMigration, SetStage, vars, database, calls
  <2>2. (MigrationTypeOK /\ Ledger)'
    BY <1>0, <2>1 DEF MigrationInvariant, MigrationTypeOK, Ledger
  <2>3. BackedUp'
    BY <1>0, <2>1 DEF MigrationInvariant, BackedUp
  <2> QED
    BY <2>1, <2>2, <2>3, LedgersStand DEF MigrationInvariant
<1>2. CASE AlreadyApplied(m) \/ RefuseBackup(m) \/ FailMigration(m)
  <2>1. /\ stage' = [stage EXCEPT ![m] = "idle"]
        /\ holder' = holder \/ (holder = m /\ holder' = None)
        /\ trouble' \in {trouble, "backup exists"}
        /\ UNCHANGED <<document, events, pending, file, pc, request, version,
                       plan, copy, backups, migrations, imported>>
    BY <1>2 DEF AlreadyApplied, RefuseBackup, FailMigration, SetStage, vars, database, calls
  <2>2. (MigrationTypeOK /\ Ledger)'
    BY <1>0, <2>1 DEF MigrationInvariant, MigrationTypeOK, Ledger
  <2>3. BackedUp'
    BY <1>0, <2>1 DEF MigrationInvariant, BackedUp
  <2> QED
    BY <2>1, <2>2, <2>3, LedgersStand DEF MigrationInvariant
<1>3. CASE BackUp(m)
  <2>1. /\ holder = None /\ plan[m] \notin backups /\ holder' = m
        /\ backups' = backups \cup {plan[m]} /\ copy' = [copy EXCEPT ![m] = file]
        /\ stage' = [stage EXCEPT ![m] = "backup"]
        /\ UNCHANGED <<document, events, pending, file, pc, request, version,
                       plan, migrations, imported, trouble>>
    BY <1>3 DEF BackUp, SetStage, database, calls
  <2>2. (MigrationTypeOK /\ Ledger)'
    <3>1. MigrationTypeOK'
      BY <1>0, <2>1 DEF MigrationInvariant, MigrationTypeOK
    <3>2. Ledger'
      BY <2>1 DEF MigrationInvariant, Ledger
    <3> QED
      BY <3>1, <3>2
  <2>3. BackedUp'
    <3>1. \A o \in Migrator : stage[o] # "backup"
      BY <2>1, ProgramAssumption DEF MigrationInvariant, BackedUp
    <3>2. (\A r \in migrations : r.id # plan[m]) /\ (\A e \in imported : e.id # plan[m])
      BY <2>1 DEF MigrationInvariant, Ledger
    <3> QED
      BY <1>0, <2>1, <3>1, <3>2 DEF BackedUp
  <2> QED
    BY <2>1, <2>2, <2>3, LedgersStand DEF MigrationInvariant
<1>4. CASE \E r \in migrations : RefuseRollBack(m, r)
  <2>1. /\ trouble' = "document changed"
        /\ UNCHANGED <<document, events, pending, file, holder, pc, request, version,
                       stage, plan, copy, backups, migrations, imported>>
    BY <1>4 DEF RefuseRollBack, vars, database, calls
  <2>2. (MigrationTypeOK /\ Ledger /\ BackedUp)'
    BY <2>1 DEF MigrationInvariant, MigrationTypeOK, Ledger, BackedUp
  <2> QED
    BY <2>1, <2>2, LedgersStand DEF MigrationInvariant
<1> QED
  BY <1>1, <1>2, <1>3, <1>4, ImportKeepsMigration, RollBackKeepsMigration DEF MigratorNext

-----------------------------------------------------------------------------
(* Theorems.                                                                *)

LEMMA StepSystem ==
    RepositoryInvariant /\ MigrationInvariant /\ [SystemNext]_systemVars
        => RepositoryInvariant' /\ MigrationInvariant' /\ [Register!Next]_RegisterVars
<1> SUFFICES ASSUME RepositoryInvariant, MigrationInvariant, [SystemNext]_systemVars
             PROVE RepositoryInvariant' /\ MigrationInvariant' /\ [Register!Next]_RegisterVars
  OBVIOUS
<1>1. CASE [Next]_vars /\ UNCHANGED migration
  <2>1. RepositoryInvariant'
    BY <1>1, NextKeepsHistory, StepSound, StepFresh DEF RepositoryInvariant
  <2>2. [Register!Next]_RegisterVars
    BY <1>1, StepRegister DEF RepositoryInvariant
  <2> QED
    BY <1>1, <2>1, <2>2, StepMigration
<1>2. CASE \E m \in Migrator : MigratorNext(m)
  BY <1>2, MigratorKeepsRepository, MigratorKeepsMigration
<1> QED
  BY <1>1, <1>2 DEF SystemNext, systemVars

\* What the calls and what the migrations rely on, together.
THEOREM SystemHolds == SystemSpec => [](RepositoryInvariant /\ MigrationInvariant)
BY InitMigration, StepSystem, PTL DEF SystemSpec

\* With any number of migrators that import, stop and roll back between any number of
\* calls, histories stand, files follow rows and no call is refused.
THEOREM RepositoryHolds == SystemSpec => []RepositoryIsSound
<1>1. RepositoryInvariant /\ MigrationInvariant => RepositoryIsSound
  BY Acknowledges DEF RepositoryInvariant, HistoryInvariant, SoundInvariant, MigrationInvariant,
     RepositoryIsSound, HistoriesStand
<1> QED
  BY <1>1, SystemHolds, PTL

\* What a standing migration imported stays the root of its history, and a rollback leaves no
\* row behind that nobody wrote.
THEOREM ImportsHold == SystemSpec => []ImportsAreSound
<1>1. MigrationInvariant => ImportsAreSound
  BY DEF MigrationInvariant, ImportsAreSound
<1> QED
  BY <1>1, SystemHolds, PTL

\* Readers never see a migration: neither its import nor its rollback changes what they read.
THEOREM MigrationRefines == SystemSpec => ImplementsRegister
<1>1. SystemInit => Register!Init
  BY InitRegister DEF SystemInit
<1>2. RepositoryInvariant /\ MigrationInvariant /\ [SystemNext]_systemVars
        => [Register!Next]_<<ReadersSee, request, {w \in Writer : version[w] > 0}, answer>>
  BY StepSystem DEF RegisterVars
<1> QED
  BY <1>1, <1>2, SystemHolds, PTL DEF SystemSpec, ImplementsRegister, Register!Spec
=============================================================================
