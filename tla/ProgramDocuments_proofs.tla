----------------------- MODULE ProgramDocuments_proofs -----------------------
(***************************************************************************)
(* TLAPS proofs about ProgramDocuments and ProgramDisturbances, for any    *)
(* number of documents, payloads, writers and readers: the histories, the  *)
(* order of calls under the lock, the steps of the register, and what of   *)
(* them survives a lock that is taken away or a file that is damaged.  The *)
(* theorems of ProgramMigration_proofs rest on these lemmas too.           *)
(***************************************************************************)
EXTENDS ProgramDisturbances, SequenceTheorems, TLAPS

\* A writer that has called has a document and a payload, and a version once recorded.
Requested == \A w \in Writer : pc[w] # "idle" => request[w].doc \in Doc /\ request[w].payload \in Payload

\* Inside a replay the row being replayed is there.
Reindexing == \A c \in Caller : pc[c] = "reindex" => todo[c] # << >>

\* From the moment it is recorded a version is in its document's history.
Recorded ==
    \A w \in Writer : pc[w] \in {"recorded", "projected", "done"} =>
        /\ version[w] \in 1 .. Len(events[request[w].doc])
        /\ events[request[w].doc][version[w]].payload = request[w].payload

HistoryInvariant == TypeOK /\ HistoryIsComplete /\ Requested /\ Reindexing /\ Recorded

LEMMA InitHistory == Init => HistoryInvariant
<1> SUFFICES ASSUME Init PROVE HistoryInvariant
  OBVIOUS
<1> USE ProgramAssumption DEF Init, Caller
<1>1. TypeOK
  BY DEF TypeOK
<1>2. HistoryIsComplete /\ Requested /\ Reindexing /\ Recorded
  BY DEF HistoryIsComplete, Requested, Reindexing, Recorded
<1> QED
  BY <1>1, <1>2 DEF HistoryInvariant

\* Every step of a call, and its failure, keeps the types.
\* A call that ends, with or without an error, keeps the types of what it touches.
LEMMA EndType ==
    ASSUME TypeOK, NEW c \in Caller, Leave(c) PROVE
    /\ holder' \in Caller \cup Migrator \cup {None}
    /\ todo' \in [Caller -> Seq(Transaction)]
<1>1. todo \in [Caller -> Seq(Transaction)] /\ << >> \in Seq(Transaction)
  BY EmptySeq DEF TypeOK
<1> QED
  BY <1>1 DEF TypeOK, Leave

LEMMA RaiseType ==
    ASSUME TypeOK, NEW c \in Caller, NEW why \in {"version mismatch", "object missing",
           "projection differs", "version disappeared", "lock lost"}, Raise(c, why)
    PROVE TypeOK'
<1>1. Leave(c) /\ Ended(c) \in {"dead", "idle"}
  BY DEF Raise, Ended
<1> QED
  BY <1>1, EndType DEF Raise, TypeOK, GoTo, database, calls

\* The rows of a version and of its transaction.
LEMMA NextVersionType == ASSUME TypeOK, NEW d \in Doc PROVE NextVersion(d) \in Nat \ {0}
<1>1. CASE document[d] = None
  BY <1>1 DEF NextVersion
<1>2. CASE document[d] # None
  <2>1. document[d] \in Version(Payload)
    BY <1>2 DEF TypeOK
  <2>2. document[d].version \in Nat
    BY <2>1 DEF Version
  <2> QED
    BY <1>2, <2>2 DEF NextVersion
<1> QED
  BY <1>1, <1>2

LEMMA CommitType ==
    ASSUME TypeOK, NEW t \in Transaction, CommitIndex(t)
    PROVE /\ index' \in [Doc -> Version(Payload) \cup {None}]
          /\ pending' \in Seq(Transaction)
<1>1. t.doc \in Doc
  BY DEF Transaction
<1>2. index' \in [Doc -> Version(Payload) \cup {None}]
  BY <1>1 DEF CommitIndex, TypeOK
<1>3. ASSUME NEW i \in DOMAIN pending,
             pending' = SubSeq(pending, 1, i - 1) \o SubSeq(pending, i + 1, Len(pending))
      PROVE pending' \in Seq(Transaction)
  <2>p. pending \in Seq(Transaction)
    BY DEF TypeOK
  <2>1. pending \in Seq(Transaction) /\ i \in 1 .. Len(pending) /\ Len(pending) \in Nat
    BY <2>p, LenProperties
  <2>2. SubSeq(pending, 1, i - 1) \in Seq(Transaction)
    BY <2>1
  <2>3. SubSeq(pending, i + 1, Len(pending)) \in Seq(Transaction)
    BY <2>1
  <2> QED
    BY <2>2, <2>3, <1>3
<1>4. ASSUME pending' = pending PROVE pending' \in Seq(Transaction)
  <2>1. pending \in Seq(Transaction)
    BY DEF TypeOK
  <2> QED
    BY <2>1, <1>4
<1>5. \/ \E i \in DOMAIN pending :
            pending' = SubSeq(pending, 1, i - 1) \o SubSeq(pending, i + 1, Len(pending))
      \/ pending' = pending
  BY DEF CommitIndex
<1> QED
  BY <1>2, <1>3, <1>4, <1>5

\* Every step of a call, and its failure, keeps the types.
LEMMA StepType == HistoryInvariant /\ [Next]_vars => TypeOK'
<1> SUFFICES ASSUME HistoryInvariant, [Next]_vars PROVE TypeOK'
  OBVIOUS
<1> USE DEF HistoryInvariant, GoTo, database, calls
<1>w. Writer \subseteq Caller /\ Reader \subseteq Caller
  BY DEF Caller
<1>1. ASSUME NEW w \in Writer, WriterNext(w) PROVE TypeOK'
  <2>1. ASSUME NEW d \in Doc, NEW p \in Payload, StoreObject(w, d, p) PROVE TypeOK'
    BY <2>1, <1>w DEF StoreObject, TypeOK
  <2>r. ASSUME pc[w] # "idle" PROVE request[w].doc \in Doc /\ request[w].payload \in Payload
    BY <2>r DEF Requested
  <2>2. CASE RecordEvent(w)
    <3> DEFINE d == request[w].doc
               new == [version |-> NextVersion(d), payload |-> request[w].payload]
    <3>1. d \in Doc /\ request[w].payload \in Payload
      BY <2>2, <2>r DEF RecordEvent, Ready
    <3>2. new.version = NextVersion(d) /\ NextVersion(d) \in Nat \ {0} /\ new \in Version(Payload)
      BY <3>1, NextVersionType DEF Version
    <3>3. [tx |-> w, doc |-> d, version |-> new.version] \in Transaction
      BY <3>1, <3>2 DEF Transaction
    <3>4. pending' \in Seq(Transaction)
      <4>1. pending \in Seq(Transaction)
        BY DEF TypeOK
      <4>2. pending' = Append(pending, [tx |-> w, doc |-> d, version |-> new.version])
        BY <2>2 DEF RecordEvent
      <4> QED
        BY <4>1, <4>2, <3>3, AppendProperties
    <3>5. Append(events[d], new) \in Seq(Version(Payload))
      <4>1. events[d] \in Seq(Version(Payload))
        BY <3>1 DEF TypeOK
      <4> HIDE DEF new
      <4> QED
        BY <4>1, <3>2, AppendProperties
    <3>6. events' \in [Doc -> Seq(Version(Payload))]
      BY <2>2, <3>1, <3>5 DEF RecordEvent, TypeOK
    <3>7. document' \in [Doc -> Version(Payload) \cup {None}]
      BY <2>2, <3>1, <3>2 DEF RecordEvent, TypeOK
    <3>8. version' \in [Writer -> Nat]
      BY <2>2, <3>2 DEF RecordEvent, TypeOK
    <3> QED
      BY <2>2, <3>4, <3>6, <3>7, <3>8, <1>w DEF RecordEvent, TypeOK
  <2>3. CASE WriteProjection(w)
    <3>1. request[w].doc \in Doc /\ request[w].payload \in Payload
      BY <2>3, <2>r DEF WriteProjection
    <3> QED
      BY <2>3, <3>1, <1>w DEF WriteProjection, TypeOK
  <2>4. CASE FinishWrite(w)
    <3> DEFINE t == [tx |-> w, doc |-> request[w].doc, version |-> version[w]]
    <3>1. t \in Transaction
      <4>1. request[w].doc \in Doc
        BY <2>4, <2>r DEF FinishWrite
      <4>2. version[w] \in Nat \ {0}
        <5>1. version[w] \in 1 .. Len(events[request[w].doc])
          BY <2>4 DEF FinishWrite, Recorded
        <5>2. version[w] \in Nat
          BY DEF TypeOK
        <5> QED
          BY <5>1, <5>2
      <4> QED
        BY <4>1, <4>2 DEF Transaction
    <3>2. CommitIndex(t) /\ Leave(w)
      BY <2>4 DEF FinishWrite
    <3>3. index' \in [Doc -> Version(Payload) \cup {None}] /\ pending' \in Seq(Transaction)
      BY <3>1, <3>2, CommitType
    <3>4. /\ holder' \in Caller \cup Migrator \cup {None}
          /\ todo' \in [Caller -> Seq(Transaction)]
      BY <3>2, <1>w, EndType
    <3> QED
      BY <2>4, <3>3, <3>4, <1>w DEF FinishWrite, TypeOK
  <2> QED
    BY <1>1, <2>1, <2>2, <2>3, <2>4 DEF WriterNext
<1>2. ASSUME NEW r \in Reader, ReaderNext(r) PROVE TypeOK'
  <2>1. ASSUME NEW d \in Doc \cup {None}, Ask(r, d) PROVE TypeOK'
    BY <2>1, <1>w DEF Ask, TypeOK
  <2>2. CASE Read(r)
    <3>1. /\ holder' \in Caller \cup Migrator \cup {None}
          /\ todo' \in [Caller -> Seq(Transaction)]
      BY <2>2, <1>w, EndType DEF Read
    <3>2. request[r].doc \in Doc /\ file[request[r].doc] \in Payload
      BY <2>2, <1>w DEF Read, TypeOK
    <3> QED
      BY <2>2, <3>1, <3>2, <1>w DEF Read, TypeOK
  <2>3. CASE RefuseRead(r)
    BY <2>3, <1>w, RaiseType DEF RefuseRead
  <2>4. CASE ReadLosesLock(r)
    BY <2>4, <1>w, RaiseType DEF ReadLosesLock
  <2>5. CASE EndRecover(r)
    <3>1. /\ holder' \in Caller \cup Migrator \cup {None}
          /\ todo' \in [Caller -> Seq(Transaction)]
      BY <2>5, <1>w, EndType DEF EndRecover
    <3> QED
      BY <2>5, <3>1, <1>w DEF EndRecover, TypeOK
  <2> QED
    BY <1>2, <2>1, <2>2, <2>3, <2>4, <2>5 DEF ReaderNext
<1>3. ASSUME NEW c \in Caller, CallerNext(c) PROVE TypeOK'
  <2>1. CASE Enter(c)
    BY <2>1 DEF Enter, TypeOK
  <2>2. CASE Fail(c)
    <3>1. /\ holder' \in Caller \cup Migrator \cup {None}
          /\ todo' \in [Caller -> Seq(Transaction)]
      BY <2>2, EndType DEF Fail
    <3>2. Ended(c) \in {"dead", "idle"}
      BY DEF Ended
    <3> QED
      BY <2>2, <3>1, <3>2 DEF Fail, TypeOK
  <2>3. CASE RefuseVersion(c) \/ RefuseObject(c) \/ RefuseIndex(c)
    BY <2>3, RaiseType DEF RefuseVersion, RefuseObject, RefuseIndex
  <2>t. ASSUME todo[c] # << >>
        PROVE Head(todo[c]) \in Transaction /\ Tail(todo[c]) \in Seq(Transaction)
    <3>1. todo[c] \in Seq(Transaction)
      BY DEF TypeOK
    <3> QED
      BY <3>1, <2>t, HeadTailProperties
  <2>4. CASE ReplayProjection(c)
    <3> DEFINE d == Head(todo[c]).doc
    <3>1. d \in Doc
      BY <2>4, <2>t DEF ReplayProjection, Replaying, Transaction
    <3>2. document[d] \in Version(Payload)
      BY <2>4, <3>1 DEF ReplayProjection, IsCurrent, TypeOK
    <3>3. file' = [file EXCEPT ![d] = document[d].payload] /\ document[d].payload \in Payload
      BY <2>4, <3>2 DEF ReplayProjection, Version
    <3> QED
      BY <2>4, <3>1, <3>3 DEF ReplayProjection, TypeOK
  <2>5. CASE ReplayIndex(c)
    <3>1. Head(todo[c]) \in Transaction /\ Tail(todo[c]) \in Seq(Transaction)
      BY <2>5, <2>t DEF ReplayIndex, Reindexing
    <3>2. index' \in [Doc -> Version(Payload) \cup {None}] /\ pending' \in Seq(Transaction)
      BY <2>5, <3>1, CommitType DEF ReplayIndex
    <3> QED
      BY <2>5, <3>1, <3>2 DEF ReplayIndex, TypeOK
  <2> QED
    BY <1>3, <2>1, <2>2, <2>3, <2>4, <2>5 DEF CallerNext
<1>4. CASE UNCHANGED vars
  BY <1>4 DEF vars, TypeOK
<1> QED
  BY <1>1, <1>2, <1>3, <1>4 DEF Next

-----------------------------------------------------------------------------
\* The next version of a document is the next position of its history.
LEMMA NextIsNew ==
    ASSUME HistoryInvariant, NEW d \in Doc PROVE NextVersion(d) = Len(events[d]) + 1
<1>1. /\ events[d] \in Seq(Version(Payload))
      /\ \A i \in DOMAIN events[d] : events[d][i].version = i
      /\ document[d] = IF events[d] = << >> THEN None ELSE events[d][Len(events[d])]
  BY DEF HistoryInvariant, TypeOK, HistoryIsComplete
<1>2. CASE events[d] = << >>
  <2>1. Len(events[d]) = 0
    BY <1>2, EmptySeq
  <2> QED
    BY <1>1, <1>2, <2>1 DEF NextVersion
<1>3. CASE events[d] # << >>
  <2>1. Len(events[d]) \in Nat \ {0} /\ DOMAIN events[d] = 1 .. Len(events[d])
    BY <1>1, <1>3, EmptySeq, LenProperties
  <2>2. document[d] = events[d][Len(events[d])] /\ document[d].version = Len(events[d])
    BY <1>1, <1>3, <2>1
  <2>3. document[d] \in Version(Payload)
    BY <1>1, <2>1, <2>2, ElementOfSeq
  <2>4. document[d] # None
    BY <2>3, ProgramAssumption DEF Version
  <2> QED
    BY <2>2, <2>4 DEF NextVersion
<1> QED
  BY <1>2, <1>3

\* What the invariant says besides the types.
Histories == HistoryIsComplete /\ Requested /\ Reindexing /\ Recorded

\* A step that records nothing and moves one call on keeps the invariant.
LEMMA MoveKeepsHistory ==
    ASSUME HistoryInvariant, NEW c \in Caller, NEW l,
           UNCHANGED <<document, events, request, version>>,
           pc' = [pc EXCEPT ![c] = l],
           pc[c] # "idle",
           \A o \in Caller \ {c} : todo'[o] = todo[o],
           l = "reindex" => todo'[c] # << >>,
           l \in {"recorded", "projected", "done"} => pc[c] \in {"recorded", "projected"}
    PROVE Histories'
<1>0. pc \in [Caller -> {"idle", "ready", "replay", "reindex", "recorded", "projected", "done", "dead"}]
  BY DEF HistoryInvariant, TypeOK
<1>w. Writer \subseteq Caller
  BY DEF Caller
<1>1. HistoryIsComplete'
  BY DEF HistoryInvariant, HistoryIsComplete
<1>2. Requested'
  BY <1>0, <1>w DEF HistoryInvariant, Requested
<1>3. Reindexing'
  BY <1>0 DEF HistoryInvariant, Reindexing
<1>4. Recorded'
  BY <1>0, <1>w DEF HistoryInvariant, Recorded
<1> QED
  BY <1>1, <1>2, <1>3, <1>4 DEF Histories

\* Recording a version extends one history by one entry and disturbs no other.
LEMMA RecordKeepsHistory ==
    ASSUME HistoryInvariant, NEW w \in Writer, RecordEvent(w) PROVE Histories'
<1> DEFINE d == request[w].doc
           new == [version |-> NextVersion(d), payload |-> request[w].payload]
<1>0. /\ pc \in [Caller -> {"idle", "ready", "replay", "reindex", "recorded", "projected", "done", "dead"}]
      /\ version \in [Writer -> Nat] /\ w \in Caller /\ Writer \subseteq Caller
      /\ document \in [Doc -> Version(Payload) \cup {None}]
      /\ events \in [Doc -> Seq(Version(Payload))]
  BY DEF HistoryInvariant, TypeOK, Caller
<1>1. /\ pc[w] = "replay" /\ pc' = [pc EXCEPT ![w] = "recorded"]
      /\ document' = [document EXCEPT ![d] = new]
      /\ events' = [events EXCEPT ![d] = Append(events[d], new)]
      /\ version' = [version EXCEPT ![w] = new.version]
      /\ todo' = todo /\ request' = request
  BY DEF RecordEvent, Ready, GoTo
<1>2. d \in Doc /\ request[w].payload \in Payload
  BY <1>0, <1>1 DEF HistoryInvariant, Requested
<1>3. new.version = Len(events[d]) + 1 /\ new.payload = request[w].payload /\ new \in Version(Payload)
  BY <1>2, NextIsNew, NextVersionType DEF HistoryInvariant, Version
<1> HIDE DEF d, new
<1>4. /\ Len(events[d]) \in Nat /\ DOMAIN events[d] = 1 .. Len(events[d])
      /\ events'[d] = Append(events[d], new)
      /\ events'[d] \in Seq(Version(Payload)) /\ events'[d] # << >>
      /\ Len(events'[d]) = Len(events[d]) + 1
      /\ \A i \in 1 .. Len(events[d]) : events'[d][i] = events[d][i]
      /\ events'[d][Len(events[d]) + 1] = new
  <2>1. events[d] \in Seq(Version(Payload)) /\ events'[d] = Append(events[d], new)
    BY <1>0, <1>1, <1>2
  <2> QED
    BY <2>1, <1>3, AppendProperties, LenProperties
<1>5. DOMAIN events'[d] = 1 .. Len(events[d]) + 1
  BY <1>4, LenProperties
<1>6. HistoryIsComplete'
  <2>1. ASSUME NEW e \in Doc
        PROVE /\ \A i \in DOMAIN events'[e] : events'[e][i].version = i
              /\ document'[e] = IF events'[e] = << >> THEN None ELSE events'[e][Len(events'[e])]
    <3>1. CASE e # d
      <4>1. events'[e] = events[e] /\ document'[e] = document[e]
        BY <3>1, <1>0, <1>1
      <4> QED
        BY <4>1 DEF HistoryInvariant, HistoryIsComplete
    <3>2. CASE e = d
      <4>1. document'[d] = new
        BY <1>0, <1>1, <1>2
      <4>2. ASSUME NEW i \in DOMAIN events'[d] PROVE events'[d][i].version = i
        <5>1. CASE i = Len(events[d]) + 1
          BY <5>1, <1>3, <1>4
        <5>2. CASE i \in 1 .. Len(events[d])
          BY <5>2, <1>2, <1>4 DEF HistoryInvariant, HistoryIsComplete
        <5> QED
          BY <5>1, <5>2, <1>4, <1>5
      <4> QED
        BY <3>2, <4>1, <4>2, <1>4
    <3> QED
      BY <3>1, <3>2
  <2> QED
    BY <2>1 DEF HistoryIsComplete
<1>7. Requested'
  BY <1>0, <1>1 DEF HistoryInvariant, Requested
<1>8. Reindexing'
  BY <1>0, <1>1 DEF HistoryInvariant, Reindexing
<1>9. Recorded'
  <2>1. ASSUME NEW u \in Writer, pc'[u] \in {"recorded", "projected", "done"}
        PROVE /\ version'[u] \in 1 .. Len(events'[request'[u].doc])
              /\ events'[request'[u].doc][version'[u]].payload = request'[u].payload
    <3>1. CASE u = w
      <4>1. version'[w] = Len(events[d]) + 1 /\ request'[w].doc = d /\ request' = request
        BY <1>0, <1>1, <1>3 DEF d
      <4> QED
        BY <3>1, <4>1, <1>3, <1>4
    <3>2. CASE u # w
      <4> DEFINE e == request[u].doc
      <4>1. /\ version'[u] = version[u] /\ request' = request
            /\ version[u] \in 1 .. Len(events[e]) /\ events[e][version[u]].payload = request[u].payload
            /\ e \in Doc
        BY <2>1, <3>2, <1>0, <1>1 DEF HistoryInvariant, Recorded, Requested
      <4>2. CASE e = d
        BY <4>1, <4>2, <1>4
      <4>3. CASE e # d
        <5>1. events'[e] = events[e]
          BY <4>1, <4>3, <1>0, <1>1
        <5> QED
          BY <4>1, <5>1
      <4> QED
        BY <4>2, <4>3
    <3> QED
      BY <3>1, <3>2
  <2> QED
    BY <2>1 DEF Recorded
<1> QED
  BY <1>6, <1>7, <1>8, <1>9 DEF Histories

\* Every step of a call, and its failure, keeps the histories.
LEMMA StepHistories == HistoryInvariant /\ [Next]_vars => Histories'
<1> SUFFICES ASSUME HistoryInvariant, [Next]_vars PROVE Histories'
  OBVIOUS
<1> USE DEF database, calls
<1>0. /\ pc \in [Caller -> {"idle", "ready", "replay", "reindex", "recorded", "projected", "done", "dead"}]
      /\ todo \in [Caller -> Seq(Transaction)]
      /\ request \in [Caller -> [doc : Doc \cup {None}, payload : Payload \cup {None}]]
  BY DEF HistoryInvariant, TypeOK
<1>w. Writer \subseteq Caller /\ Reader \subseteq Caller /\ Writer \cap Reader = {}
  BY ProgramAssumption DEF Caller
<1>e. ASSUME NEW c \in Caller PROVE Ended(c) \in {"dead", "idle"}
  BY DEF Ended
<1>r. ASSUME NEW c \in Caller, NEW why, Raise(c, why), pc[c] # "idle" PROVE Histories'
  BY <1>0, <1>e, <1>r, MoveKeepsHistory DEF Raise, Leave, GoTo
<1>1. ASSUME NEW w \in Writer, WriterNext(w) PROVE Histories'
  <2>1. ASSUME NEW d \in Doc, NEW p \in Payload, StoreObject(w, d, p) PROVE Histories'
    <3>1. /\ pc[w] = "idle" /\ pc' = [pc EXCEPT ![w] = "ready"]
          /\ request' = [request EXCEPT ![w] = [doc |-> d, payload |-> p]]
          /\ UNCHANGED <<document, events, todo, version>>
      BY <2>1 DEF StoreObject, GoTo
    <3>2. HistoryIsComplete'
      BY <3>1 DEF HistoryInvariant, HistoryIsComplete
    <3>3. Requested'
      BY <3>1, <1>0, <1>w DEF HistoryInvariant, Requested
    <3>4. Reindexing'
      BY <3>1, <1>0 DEF HistoryInvariant, Reindexing
    <3>5. Recorded'
      BY <3>1, <1>0, <1>w DEF HistoryInvariant, Recorded
    <3> QED
      BY <3>2, <3>3, <3>4, <3>5 DEF Histories
  <2>2. CASE RecordEvent(w)
    BY <2>2, RecordKeepsHistory
  <2>3. CASE WriteProjection(w)
    BY <2>3, <1>w, MoveKeepsHistory DEF WriteProjection, GoTo
  <2>4. CASE FinishWrite(w)
    <3>1. \A o \in Caller \ {w} : todo'[o] = todo[o]
      BY <2>4, <1>0 DEF FinishWrite, Leave
    <3> QED
      BY <2>4, <3>1, <1>w, MoveKeepsHistory DEF FinishWrite, GoTo
  <2> QED
    BY <1>1, <2>1, <2>2, <2>3, <2>4 DEF WriterNext
<1>2. ASSUME NEW r \in Reader, ReaderNext(r) PROVE Histories'
  <2>1. ASSUME NEW d \in Doc \cup {None}, Ask(r, d) PROVE Histories'
    <3>1. /\ pc' = [pc EXCEPT ![r] = "ready"]
          /\ request' = [request EXCEPT ![r] = [doc |-> d, payload |-> None]]
          /\ UNCHANGED <<document, events, todo, version>>
      BY <2>1 DEF Ask, GoTo
    <3>2. \A w \in Writer : pc'[w] = pc[w] /\ request'[w] = request[w]
      BY <3>1, <1>0, <1>w
    <3>3. HistoryIsComplete'
      BY <3>1 DEF HistoryInvariant, HistoryIsComplete
    <3>4. Requested'
      BY <3>2 DEF HistoryInvariant, Requested
    <3>5. Reindexing'
      BY <3>1, <1>0 DEF HistoryInvariant, Reindexing
    <3>6. Recorded'
      BY <3>1, <3>2 DEF HistoryInvariant, Recorded
    <3> QED
      BY <3>3, <3>4, <3>5, <3>6 DEF Histories
  <2>2. CASE Read(r) \/ EndRecover(r)
    <3>1. \A o \in Caller \ {r} : todo'[o] = todo[o]
      BY <2>2, <1>0 DEF Read, EndRecover, Leave
    <3>2. pc[r] = "replay" /\ pc' = [pc EXCEPT ![r] = "idle"]
          /\ UNCHANGED <<document, events, request, version>>
      BY <2>2 DEF Read, EndRecover, Ready, GoTo
    <3> QED
      BY <3>1, <3>2, <1>w, MoveKeepsHistory
  <2>3. CASE RefuseRead(r) \/ ReadLosesLock(r)
    BY <2>3, <1>r, <1>w DEF RefuseRead, ReadLosesLock, Ready
  <2> QED
    BY <1>2, <2>1, <2>2, <2>3 DEF ReaderNext
<1>3. ASSUME NEW c \in Caller, CallerNext(c) PROVE Histories'
  <2>1. CASE Enter(c)
    <3>1. \A o \in Caller \ {c} : todo'[o] = todo[o]
      BY <2>1, <1>0 DEF Enter
    <3> QED
      BY <2>1, <3>1, MoveKeepsHistory DEF Enter, GoTo
  <2>2. CASE Fail(c)
    <3>1. \A o \in Caller \ {c} : todo'[o] = todo[o]
      BY <2>2, <1>0 DEF Fail, Leave
    <3> QED
      BY <2>2, <3>1, <1>e, MoveKeepsHistory DEF Fail, GoTo
  <2>3. CASE RefuseVersion(c) \/ RefuseObject(c) \/ RefuseIndex(c)
    BY <2>3, <1>r DEF RefuseVersion, RefuseObject, RefuseIndex, Replaying
  <2>4. CASE ReplayProjection(c)
    BY <2>4, MoveKeepsHistory DEF ReplayProjection, Replaying, GoTo
  <2>5. CASE ReplayIndex(c)
    <3>1. \A o \in Caller \ {c} : todo'[o] = todo[o]
      BY <2>5, <1>0 DEF ReplayIndex
    <3> QED
      BY <2>5, <3>1, MoveKeepsHistory DEF ReplayIndex, GoTo
  <2> QED
    BY <1>3, <2>1, <2>2, <2>3, <2>4, <2>5 DEF CallerNext
<1>4. CASE UNCHANGED vars
  <2>1. UNCHANGED <<document, events, request, version, pc, todo>>
    BY <1>4 DEF vars
  <2> QED
    BY <2>1 DEF HistoryInvariant, Histories, HistoryIsComplete, Requested, Reindexing, Recorded
<1> QED
  BY <1>1, <1>2, <1>3, <1>4 DEF Next

LEMMA NextKeepsHistory == HistoryInvariant /\ [Next]_vars => HistoryInvariant'
BY StepType, StepHistories DEF HistoryInvariant, Histories

\* A version that was recorded and returned is at its place.
LEMMA Acknowledges == HistoryInvariant => AcknowledgedInHistory
<1> SUFFICES ASSUME HistoryInvariant, NEW w \in Writer, pc[w] = "done"
             PROVE /\ version[w] \in DOMAIN events[request[w].doc]
                   /\ events[request[w].doc][version[w]].payload = request[w].payload
  BY DEF AcknowledgedInHistory
<1>1. request[w].doc \in Doc
  BY DEF HistoryInvariant, Requested
<1>2. events[request[w].doc] \in Seq(Version(Payload))
  BY <1>1 DEF HistoryInvariant, TypeOK
<1> QED
  BY <1>2, LenProperties DEF HistoryInvariant, Recorded

-----------------------------------------------------------------------------
(* Undisturbed: one call is inside the lock, and what is pending is its own  *)
(* work or the work it replays.                                             *)

Inside == {"replay", "reindex", "recorded", "projected"}

Excluded == \A c \in Caller : pc[c] \in Inside => holder = c

\* Every payload that a row names, or that a writer is about to record, has its object.
Stored ==
    /\ \A d \in Doc : document[d] # None => document[d].payload \in objects
    /\ \A w \in Writer : pc[w] # "idle" => request[w].payload \in objects

\* What a call replays is all that is pending.
ReplaysPending ==
    \A c \in Caller : pc[c] \in {"replay", "reindex"} =>
        /\ todo[c] = pending
        /\ pc[c] = "reindex" => file[pending[1].doc] = document[pending[1].doc].payload

\* Between its record and its commit a write is the one that is pending.
WritesPending ==
    \A w \in Writer : pc[w] \in {"recorded", "projected"} =>
        /\ pending = << [tx |-> w, doc |-> request[w].doc, version |-> version[w]] >>
        /\ document[request[w].doc] = [version |-> version[w], payload |-> request[w].payload]
        /\ pc[w] = "projected" => file[request[w].doc] = request[w].payload

SoundInvariant ==
    /\ Excluded /\ Stored /\ ReplaysPending /\ WritesPending
    /\ PendingIsLatest /\ ProjectionFollows /\ NeverRefuses

LEMMA InitSound == Init => SoundInvariant
<1> SUFFICES ASSUME Init PROVE SoundInvariant
  OBVIOUS
<1> USE ProgramAssumption DEF Init, Caller
<1>1. Excluded /\ Stored /\ ReplaysPending /\ WritesPending
  BY DEF Excluded, Stored, ReplaysPending, WritesPending, Inside
<1>2. PendingIsLatest /\ ProjectionFollows /\ NeverRefuses
  <2>1. pending = << >> /\ Len(pending) = 0 /\ DOMAIN pending = {}
    BY EmptySeq
  <2> QED
    BY <2>1 DEF PendingIsLatest, ProjectionFollows, NeverRefuses
<1> QED
  BY <1>1, <1>2 DEF SoundInvariant

\* One pending row: what its parts are.
LEMMA OnePending ==
    ASSUME pending \in Seq(Transaction), PendingIsLatest, pending # << >>
    PROVE /\ DOMAIN pending = {1} /\ pending[1] \in Transaction /\ pending = << pending[1] >>
          /\ Head(pending) = pending[1] /\ Tail(pending) = << >> /\ IsCurrent(pending[1])
<1>1. Len(pending) = 1 /\ DOMAIN pending = 1 .. 1
  <2>1. Len(pending) \in Nat /\ DOMAIN pending = 1 .. Len(pending) /\ Len(pending) # 0
    BY LenProperties, EmptySeq
  <2>2. Len(pending) <= 1
    BY DEF PendingIsLatest
  <2> QED
    BY <2>1, <2>2
<1>2. pending[1] \in Transaction /\ IsCurrent(pending[1])
  BY <1>1, ElementOfSeq DEF PendingIsLatest
<1>3. pending = << pending[1] >> /\ Head(pending) = pending[1]
  BY <1>1
<1>4. Len(Tail(pending)) = 0 /\ Tail(pending) \in Seq(Transaction)
  BY <1>1, HeadTailProperties
<1>5. Tail(pending) = << >>
  BY <1>4, EmptySeq
<1> QED
  BY <1>1, <1>2, <1>3, <1>5

\* Committing the one pending row leaves none.
LEMMA CommitEmpties ==
    ASSUME NEW t \in Transaction, pending = << t >>, CommitIndex(t)
    PROVE pending' = << >> /\ index' = [index EXCEPT ![t.doc] = document[t.doc]]
<1>0. pending \in Seq(Transaction) /\ pending[1] = t /\ Len(pending) = 1
  OBVIOUS
<1>1. DOMAIN pending = {1} /\ pending[1] = t /\ Len(pending) = 1
  BY <1>0, LenProperties
<1>2. pending' = SubSeq(pending, 1, 0) \o SubSeq(pending, 2, 1)
  BY <1>1 DEF CommitIndex
<1>3. SubSeq(pending, 1, 0) = << >> /\ SubSeq(pending, 2, 1) = << >>
  BY SubSeqEmpty
<1>4. << >> \o << >> = << >>
  BY EmptySeq, ConcatEmptySeq
<1> QED
  BY <1>2, <1>3, <1>4 DEF CommitIndex

\* A call that ends without touching rows and files leaves everything as it should be.
LEMMA EndKeepsSound ==
    ASSUME HistoryInvariant, SoundInvariant, NEW c \in Caller, NEW l, l \notin Inside,
           pc' = [pc EXCEPT ![c] = l], pc[c] # "idle", Leave(c),
           UNCHANGED <<objects, document, index, pending, file, request, version, refusal>>
    PROVE SoundInvariant'
<1>0. /\ pc \in [Caller -> {"idle", "ready", "replay", "reindex", "recorded", "projected", "done", "dead"}]
      /\ todo \in [Caller -> Seq(Transaction)] /\ Writer \subseteq Caller
  BY DEF HistoryInvariant, TypeOK, Caller
<1>1. Excluded'
  BY <1>0 DEF SoundInvariant, Excluded, Leave
<1>2. Stored'
  BY <1>0 DEF SoundInvariant, Stored
<1>3. ReplaysPending'
  BY <1>0 DEF SoundInvariant, ReplaysPending, Leave, Inside
<1>4. WritesPending'
  BY <1>0 DEF SoundInvariant, WritesPending, Inside
<1>5. (PendingIsLatest /\ ProjectionFollows /\ NeverRefuses)'
  BY DEF SoundInvariant, PendingIsLatest, ProjectionFollows, NeverRefuses, IsCurrent, Pending
<1> QED
  BY <1>1, <1>2, <1>3, <1>4, <1>5 DEF SoundInvariant

\* The lock keeps the others outside while one call takes a step inside.
LEMMA OthersOutside ==
    ASSUME HistoryInvariant, SoundInvariant, NEW c \in Caller, NEW l, pc[c] \in Inside,
           pc' = [pc EXCEPT ![c] = l]
    PROVE holder = c /\ pc'[c] = l /\ \A o \in Caller \ {c} : pc[o] \notin Inside /\ pc'[o] = pc[o]
BY DEF HistoryInvariant, TypeOK, SoundInvariant, Excluded

LEMMA EnterKeepsSound ==
    ASSUME HistoryInvariant, SoundInvariant, NEW c \in Caller, Enter(c) PROVE SoundInvariant'
<1>0. /\ pc \in [Caller -> {"idle", "ready", "replay", "reindex", "recorded", "projected", "done", "dead"}]
      /\ todo \in [Caller -> Seq(Transaction)] /\ Writer \subseteq Caller
      /\ pc[c] = "ready" /\ holder = None /\ holder' = c
      /\ todo' = [todo EXCEPT ![c] = pending] /\ pc' = [pc EXCEPT ![c] = "replay"]
      /\ UNCHANGED <<objects, document, index, pending, file, request, version, refusal>>
  BY DEF HistoryInvariant, TypeOK, Caller, Enter, GoTo, database, calls
<1>1. \A o \in Caller : pc[o] \notin Inside
  BY ProgramAssumption, <1>0 DEF SoundInvariant, Excluded, Caller
<1>2. Excluded' /\ ReplaysPending' /\ WritesPending'
  BY <1>0, <1>1 DEF Excluded, ReplaysPending, WritesPending, Inside
<1>3. Stored'
  BY <1>0 DEF SoundInvariant, Stored
<1>4. (PendingIsLatest /\ ProjectionFollows /\ NeverRefuses)'
  BY <1>0 DEF SoundInvariant, PendingIsLatest, ProjectionFollows, NeverRefuses, IsCurrent, Pending
<1> QED
  BY <1>2, <1>3, <1>4 DEF SoundInvariant

\* A write records its version only after everything pending is replayed.
LEMMA RecordKeepsSound ==
    ASSUME HistoryInvariant, SoundInvariant, NEW w \in Writer, RecordEvent(w) PROVE SoundInvariant'
<1> DEFINE d == request[w].doc
           n == NextVersion(d)
           new == [version |-> n, payload |-> request[w].payload]
           t == [tx |-> w, doc |-> d, version |-> n]
<1>0. /\ pc \in [Caller -> {"idle", "ready", "replay", "reindex", "recorded", "projected", "done", "dead"}]
      /\ version \in [Writer -> Nat] /\ document \in [Doc -> Version(Payload) \cup {None}]
      /\ pending \in Seq(Transaction) /\ w \in Caller /\ Writer \subseteq Caller
  BY DEF HistoryInvariant, TypeOK, Caller
<1>1. /\ pc[w] = "replay" /\ todo[w] = << >> /\ pc' = [pc EXCEPT ![w] = "recorded"]
      /\ document' = [document EXCEPT ![d] = new] /\ pending' = Append(pending, t)
      /\ version' = [version EXCEPT ![w] = n]
      /\ UNCHANGED <<objects, index, file, holder, todo, request, refusal>>
  BY DEF RecordEvent, Ready, GoTo
<1>2. d \in Doc /\ request[w].payload \in Payload /\ n \in Nat \ {0}
  BY <1>0, <1>1, NextVersionType DEF HistoryInvariant, Requested
<1>3. holder = w /\ pc'[w] = "recorded" /\ \A o \in Caller \ {w} : pc[o] \notin Inside /\ pc'[o] = pc[o]
  BY <1>0, <1>1, OthersOutside DEF Inside
<1>4. pending = << >>
  BY <1>0, <1>1 DEF SoundInvariant, ReplaysPending
<1>5. pending' = << t >>
  BY <1>1, <1>4
<1>6. Len(pending') = 1 /\ pending'[1] = t /\ DOMAIN pending' = {1}
  <2>1. t \in Transaction
    BY <1>2 DEF Transaction
  <2>2. pending' \in Seq(Transaction) /\ Len(pending') = 1 /\ pending'[1] = t
    BY <2>1, <1>5
  <2> QED
    BY <2>2, LenProperties
<1>7. document'[d] = new /\ \A e \in Doc \ {d} : document'[e] = document[e]
  BY <1>0, <1>1, <1>2
<1>8. new # None
  BY <1>2, ProgramAssumption
<1>9. t.doc = d /\ t.version = n /\ new.version = n /\ new.payload = request[w].payload
  OBVIOUS
<1>10. version'[w] = n
  BY <1>0, <1>1
<1> HIDE DEF d, n, new, t
<1>11. Excluded' /\ ReplaysPending'
  BY <1>1, <1>3 DEF SoundInvariant, Excluded, ReplaysPending, Inside
<1>12. WritesPending'
  BY <1>0, <1>1, <1>3, <1>5, <1>7, <1>10 DEF WritesPending, Inside, d, new, t
<1>13. Stored'
  BY <1>0, <1>1, <1>2, <1>3, <1>7, <1>9 DEF SoundInvariant, Stored
<1>14. PendingIsLatest'
  BY <1>6, <1>7, <1>8, <1>9 DEF PendingIsLatest, IsCurrent
<1>15. ProjectionFollows'
  <2>1. ASSUME NEW e \in Doc, ~Pending(e)' PROVE e # d
    BY <2>1, <1>6, <1>9 DEF Pending
  <2>2. \A e \in Doc : ~Pending(e)
    BY <1>4, EmptySeq DEF Pending
  <2> QED
    BY <2>1, <2>2, <1>1, <1>7 DEF SoundInvariant, ProjectionFollows
<1> QED
  BY <1>1, <1>11, <1>12, <1>13, <1>14, <1>15 DEF SoundInvariant, NeverRefuses

\* The row that a writer has recorded and not yet committed.
LEMMA OwnPending ==
    ASSUME HistoryInvariant, SoundInvariant, NEW w \in Writer, pc[w] \in {"recorded", "projected"}
    PROVE \E t \in Transaction :
            /\ t = [tx |-> w, doc |-> request[w].doc, version |-> version[w]]
            /\ pending = << t >> /\ t.doc = request[w].doc /\ IsCurrent(t) /\ request[w].doc \in Doc
            /\ document[request[w].doc].payload = request[w].payload
            /\ \A e \in Doc : e # request[w].doc => ~Pending(e)
<1> DEFINE t == [tx |-> w, doc |-> request[w].doc, version |-> version[w]]
<1>1. pending = << t >> /\ document[request[w].doc] = [version |-> version[w], payload |-> request[w].payload]
  BY DEF SoundInvariant, WritesPending
<1>2. pending \in Seq(Transaction) /\ request[w].doc \in Doc
  BY DEF HistoryInvariant, TypeOK, Requested
<1>3. pending # << >> /\ pending[1] = t
  BY <1>1
<1>4. t \in Transaction /\ IsCurrent(t) /\ DOMAIN pending = {1}
  BY <1>2, <1>3, OnePending DEF SoundInvariant
<1> QED
  BY <1>1, <1>2, <1>3, <1>4 DEF Pending

LEMMA ProjectKeepsSound ==
    ASSUME HistoryInvariant, SoundInvariant, NEW w \in Writer, WriteProjection(w) PROVE SoundInvariant'
<1> DEFINE d == request[w].doc
<1>0. /\ pc \in [Caller -> {"idle", "ready", "replay", "reindex", "recorded", "projected", "done", "dead"}]
      /\ file \in [Doc -> Payload \cup {None}] /\ w \in Caller /\ Writer \subseteq Caller
  BY DEF HistoryInvariant, TypeOK, Caller
<1>1. /\ pc[w] = "recorded" /\ pc' = [pc EXCEPT ![w] = "projected"]
      /\ file' = [file EXCEPT ![d] = request[w].payload]
      /\ UNCHANGED <<objects, document, index, pending, holder, todo, request, version, refusal>>
  BY DEF WriteProjection, GoTo, database, calls
<1>2. holder = w /\ pc'[w] = "projected" /\ \A o \in Caller \ {w} : pc[o] \notin Inside /\ pc'[o] = pc[o]
  BY <1>0, <1>1, OthersOutside DEF Inside
<1>3. d \in Doc /\ document[d].payload = request[w].payload /\ \A e \in Doc : e # d => ~Pending(e)
  BY <1>1, OwnPending
<1>4. file'[d] = request[w].payload /\ \A e \in Doc \ {d} : file'[e] = file[e]
  BY <1>0, <1>1, <1>3
<1>5. Excluded' /\ Stored' /\ ReplaysPending'
  BY <1>0, <1>1, <1>2 DEF SoundInvariant, Excluded, Stored, ReplaysPending, Inside
<1>6. WritesPending'
  BY <1>0, <1>1, <1>2, <1>4 DEF SoundInvariant, WritesPending, Inside
<1>7. ProjectionFollows'
  BY <1>1, <1>3, <1>4, OwnPending DEF SoundInvariant, ProjectionFollows, Pending, WritesPending
<1>8. PendingIsLatest' /\ NeverRefuses'
  BY <1>1 DEF SoundInvariant, PendingIsLatest, NeverRefuses, IsCurrent
<1> QED
  BY <1>5, <1>6, <1>7, <1>8 DEF SoundInvariant

LEMMA FinishKeepsSound ==
    ASSUME HistoryInvariant, SoundInvariant, NEW w \in Writer, FinishWrite(w) PROVE SoundInvariant'
<1> DEFINE d == request[w].doc
<1>0. /\ pc \in [Caller -> {"idle", "ready", "replay", "reindex", "recorded", "projected", "done", "dead"}]
      /\ index \in [Doc -> Version(Payload) \cup {None}] /\ w \in Caller /\ Writer \subseteq Caller
      /\ todo \in [Caller -> Seq(Transaction)]
  BY DEF HistoryInvariant, TypeOK, Caller
<1>1. /\ pc[w] = "projected" /\ CommitIndex([tx |-> w, doc |-> d, version |-> version[w]])
      /\ Leave(w) /\ pc' = [pc EXCEPT ![w] = IF holder = w THEN "done" ELSE "dead"]
      /\ refusal' = IF holder = w THEN refusal ELSE "lock lost"
      /\ UNCHANGED <<objects, document, file, request, version>>
  BY DEF FinishWrite, GoTo, calls
<1>2. holder = w /\ pc'[w] = "done" /\ \A o \in Caller \ {w} : pc[o] \notin Inside /\ pc'[o] = pc[o]
  <2>1. holder = w
    BY <1>0, <1>1 DEF SoundInvariant, Excluded, Inside
  <2>2. pc' = [pc EXCEPT ![w] = "done"] /\ pc[w] \in Inside
    BY <1>1, <2>1 DEF Inside
  <2> QED
    BY <1>0, <2>1, <2>2, OthersOutside
<1>3. PICK t \in Transaction :
            /\ t = [tx |-> w, doc |-> d, version |-> version[w]]
            /\ pending = << t >> /\ t.doc = d /\ d \in Doc
            /\ document[d].payload = request[w].payload
            /\ \A e \in Doc : e # d => ~Pending(e)
  BY <1>1, OwnPending
<1>4. pending' = << >> /\ index' = [index EXCEPT ![d] = document[d]]
  BY <1>1, <1>3, CommitEmpties
<1>5. file[d] = request[w].payload
  BY <1>1 DEF SoundInvariant, WritesPending
<1>6. Excluded' /\ Stored' /\ ReplaysPending' /\ WritesPending'
  BY <1>0, <1>1, <1>2 DEF SoundInvariant, Excluded, Stored, ReplaysPending, WritesPending, Inside
<1>7. PendingIsLatest'
  BY <1>4, EmptySeq DEF PendingIsLatest
<1>8. ProjectionFollows'
  BY <1>0, <1>1, <1>3, <1>4, <1>5 DEF SoundInvariant, ProjectionFollows
<1>9. NeverRefuses'
  BY <1>1, <1>2 DEF SoundInvariant, NeverRefuses
<1> QED
  BY <1>6, <1>7, <1>8, <1>9 DEF SoundInvariant

\* The row a call replays.
LEMMA ReplayedPending ==
    ASSUME HistoryInvariant, SoundInvariant, NEW c \in Caller,
           Replaying(c) \/ pc[c] = "reindex"
    PROVE \E t \in Transaction :
            /\ t = Head(todo[c]) /\ t = pending[1] /\ pending = << t >> /\ Tail(todo[c]) = << >>
            /\ t.doc \in Doc /\ IsCurrent(t) /\ document[t.doc].payload \in objects
            /\ \A e \in Doc : e # t.doc => ~Pending(e)
<1>1. todo[c] = pending /\ todo[c] # << >> /\ pending \in Seq(Transaction)
  BY DEF HistoryInvariant, TypeOK, SoundInvariant, ReplaysPending, Reindexing, Replaying
<1> DEFINE t == pending[1]
<1>2. /\ DOMAIN pending = {1} /\ t \in Transaction /\ pending = << t >>
      /\ Head(pending) = t /\ Tail(pending) = << >> /\ IsCurrent(t)
  BY <1>1, OnePending DEF SoundInvariant
<1>3. t.doc \in Doc
  BY <1>2 DEF Transaction
<1>4. document[t.doc].payload \in objects
  BY <1>2, <1>3 DEF IsCurrent, SoundInvariant, Stored
<1> QED
  BY <1>1, <1>2, <1>3, <1>4 DEF Pending

LEMMA ReplayProjectionKeepsSound ==
    ASSUME HistoryInvariant, SoundInvariant, NEW c \in Caller, ReplayProjection(c) PROVE SoundInvariant'
<1>0. /\ pc \in [Caller -> {"idle", "ready", "replay", "reindex", "recorded", "projected", "done", "dead"}]
      /\ file \in [Doc -> Payload \cup {None}] /\ Writer \subseteq Caller
  BY DEF HistoryInvariant, TypeOK, Caller
<1>1. PICK t \in Transaction :
            /\ t = Head(todo[c]) /\ t = pending[1] /\ pending = << t >>
            /\ t.doc \in Doc /\ \A e \in Doc : e # t.doc => ~Pending(e)
  BY ReplayedPending DEF ReplayProjection
<1>2. /\ pc[c] = "replay" /\ pc' = [pc EXCEPT ![c] = "reindex"]
      /\ file' = [file EXCEPT ![t.doc] = document[t.doc].payload]
      /\ UNCHANGED <<objects, document, index, pending, holder, todo, request, version, refusal>>
  BY <1>1 DEF ReplayProjection, Replaying, GoTo, database, calls
<1>3. holder = c /\ pc'[c] = "reindex" /\ \A o \in Caller \ {c} : pc[o] \notin Inside /\ pc'[o] = pc[o]
  BY <1>0, <1>2, OthersOutside DEF Inside
<1>4. file'[t.doc] = document[t.doc].payload /\ \A e \in Doc \ {t.doc} : file'[e] = file[e]
  BY <1>0, <1>1, <1>2
<1>5. Excluded' /\ Stored' /\ WritesPending'
  BY <1>0, <1>2, <1>3 DEF SoundInvariant, Excluded, Stored, WritesPending, Inside
<1>6. ReplaysPending'
  BY <1>1, <1>2, <1>3, <1>4 DEF SoundInvariant, ReplaysPending, Inside
<1>7. ProjectionFollows'
  BY <1>1, <1>2, <1>4 DEF SoundInvariant, ProjectionFollows, Pending
<1>8. PendingIsLatest' /\ NeverRefuses'
  BY <1>2 DEF SoundInvariant, PendingIsLatest, NeverRefuses, IsCurrent
<1> QED
  BY <1>5, <1>6, <1>7, <1>8 DEF SoundInvariant

LEMMA ReplayIndexKeepsSound ==
    ASSUME HistoryInvariant, SoundInvariant, NEW c \in Caller, ReplayIndex(c) PROVE SoundInvariant'
<1>0. /\ pc \in [Caller -> {"idle", "ready", "replay", "reindex", "recorded", "projected", "done", "dead"}]
      /\ index \in [Doc -> Version(Payload) \cup {None}] /\ Writer \subseteq Caller
      /\ todo \in [Caller -> Seq(Transaction)]
  BY DEF HistoryInvariant, TypeOK, Caller
<1>1. PICK t \in Transaction :
            /\ t = Head(todo[c]) /\ t = pending[1] /\ pending = << t >> /\ Tail(todo[c]) = << >>
            /\ t.doc \in Doc /\ \A e \in Doc : e # t.doc => ~Pending(e)
  BY ReplayedPending DEF ReplayIndex
<1>2. /\ pc[c] = "reindex" /\ pc' = [pc EXCEPT ![c] = "replay"] /\ CommitIndex(t)
      /\ todo' = [todo EXCEPT ![c] = << >>]
      /\ UNCHANGED <<objects, document, file, holder, request, version, refusal>>
  BY <1>1 DEF ReplayIndex, GoTo, calls
<1>3. holder = c /\ pc'[c] = "replay" /\ \A o \in Caller \ {c} : pc[o] \notin Inside /\ pc'[o] = pc[o]
  BY <1>0, <1>2, OthersOutside DEF Inside
<1>4. pending' = << >> /\ index' = [index EXCEPT ![t.doc] = document[t.doc]]
  BY <1>1, <1>2, CommitEmpties
<1>5. file[t.doc] = document[t.doc].payload
  BY <1>1, <1>2 DEF SoundInvariant, ReplaysPending
<1>6. Excluded' /\ Stored' /\ WritesPending'
  BY <1>0, <1>2, <1>3 DEF SoundInvariant, Excluded, Stored, WritesPending, Inside
<1>7. ReplaysPending'
  BY <1>0, <1>2, <1>3, <1>4 DEF ReplaysPending, Inside
<1>8. PendingIsLatest'
  BY <1>4, EmptySeq DEF PendingIsLatest
<1>9. ProjectionFollows'
  BY <1>0, <1>1, <1>2, <1>4, <1>5 DEF SoundInvariant, ProjectionFollows
<1> QED
  BY <1>2, <1>6, <1>7, <1>8, <1>9 DEF SoundInvariant, NeverRefuses

\* None of the repository's checks fails on what the repository wrote.
LEMMA NoRefusal ==
    ASSUME HistoryInvariant, SoundInvariant, NEW c \in Caller
    PROVE /\ ~RefuseVersion(c) /\ ~RefuseObject(c) /\ ~RefuseIndex(c)
          /\ c \in Reader => ~RefuseRead(c) /\ ~ReadLosesLock(c)
<1>1. ~RefuseVersion(c)
  BY ReplayedPending DEF RefuseVersion
<1>2. ~RefuseObject(c)
  BY ReplayedPending DEF RefuseObject
<1>3. ~RefuseIndex(c)
  <2>1. ~(pc[c] = "reindex" /\ ~IsCurrent(Head(todo[c])))
    BY ReplayedPending
  <2>2. ~(/\ c \in Writer /\ pc[c] = "projected"
          /\ ~IsCurrent([tx |-> c, doc |-> request[c].doc, version |-> version[c]]))
    BY OwnPending
  <2> QED
    BY <2>1, <2>2 DEF RefuseIndex
<1>4. ASSUME c \in Reader, Ready(c) PROVE holder = c /\ ~RefuseRead(c)
  <2>1. holder = c /\ todo[c] = pending /\ pending = << >> /\ request[c].doc \in Doc \cup {None}
    BY <1>4 DEF Ready, SoundInvariant, Excluded, ReplaysPending, Inside, HistoryInvariant, TypeOK
  <2>2. \A d \in Doc : ~Pending(d)
    BY <2>1, EmptySeq DEF Pending
  <2>3. \A d \in Doc : document[d] # None =>
            document[d].payload \in objects /\ file[d] = document[d].payload
    BY <2>2 DEF SoundInvariant, ProjectionFollows, Stored
  <2> QED
    BY <2>1, <2>3 DEF RefuseRead
<1>5. ASSUME c \in Reader PROVE ~RefuseRead(c) /\ ~ReadLosesLock(c)
  BY <1>4, <1>5 DEF RefuseRead, ReadLosesLock
<1> QED
  BY <1>1, <1>2, <1>3, <1>5

LEMMA StepSound == HistoryInvariant /\ SoundInvariant /\ [Next]_vars => SoundInvariant'
<1> SUFFICES ASSUME HistoryInvariant, SoundInvariant, [Next]_vars PROVE SoundInvariant'
  OBVIOUS
<1>0. /\ pc \in [Caller -> {"idle", "ready", "replay", "reindex", "recorded", "projected", "done", "dead"}]
      /\ request \in [Caller -> [doc : Doc \cup {None}, payload : Payload \cup {None}]]
  BY DEF HistoryInvariant, TypeOK
<1>w. Writer \subseteq Caller /\ Reader \subseteq Caller /\ Writer \cap Reader = {}
  BY ProgramAssumption DEF Caller
<1>1. ASSUME NEW w \in Writer, WriterNext(w) PROVE SoundInvariant'
  <2>1. ASSUME NEW d \in Doc, NEW p \in Payload, StoreObject(w, d, p) PROVE SoundInvariant'
    <3>1. /\ pc[w] = "idle" /\ pc' = [pc EXCEPT ![w] = "ready"] /\ objects' = objects \cup {p}
          /\ request' = [request EXCEPT ![w] = [doc |-> d, payload |-> p]]
          /\ UNCHANGED <<document, index, pending, file, holder, todo, version, refusal>>
      BY <2>1 DEF StoreObject, GoTo, database
    <3>2. Excluded' /\ ReplaysPending'
      BY <3>1, <1>0 DEF SoundInvariant, Excluded, ReplaysPending, Inside
    <3>3. Stored'
      BY <3>1, <1>0, <1>w DEF SoundInvariant, Stored
    <3>4. WritesPending'
      BY <3>1, <1>0, <1>w DEF SoundInvariant, WritesPending
    <3>5. (PendingIsLatest /\ ProjectionFollows /\ NeverRefuses)'
      BY <3>1 DEF SoundInvariant, PendingIsLatest, ProjectionFollows, NeverRefuses, IsCurrent, Pending
    <3> QED
      BY <3>2, <3>3, <3>4, <3>5 DEF SoundInvariant
  <2> QED
    BY <1>1, <2>1, RecordKeepsSound, ProjectKeepsSound, FinishKeepsSound DEF WriterNext
<1>2. ASSUME NEW r \in Reader, ReaderNext(r) PROVE SoundInvariant'
  <2>1. ASSUME NEW d \in Doc \cup {None}, Ask(r, d) PROVE SoundInvariant'
    <3>1. /\ pc[r] = "idle" /\ pc' = [pc EXCEPT ![r] = "ready"]
          /\ request' = [request EXCEPT ![r] = [doc |-> d, payload |-> None]]
          /\ UNCHANGED <<objects, document, index, pending, file, holder, todo, version, refusal>>
      BY <2>1 DEF Ask, GoTo, database
    <3>2. Excluded' /\ ReplaysPending'
      BY <3>1, <1>0 DEF SoundInvariant, Excluded, ReplaysPending, Inside
    <3>3. Stored' /\ WritesPending'
      BY <3>1, <1>0, <1>w DEF SoundInvariant, Stored, WritesPending
    <3>4. (PendingIsLatest /\ ProjectionFollows /\ NeverRefuses)'
      BY <3>1 DEF SoundInvariant, PendingIsLatest, ProjectionFollows, NeverRefuses, IsCurrent, Pending
    <3> QED
      BY <3>2, <3>3, <3>4 DEF SoundInvariant
  <2>2. CASE Read(r) \/ EndRecover(r)
    <3>1. /\ pc[r] # "idle" /\ pc' = [pc EXCEPT ![r] = "idle"] /\ Leave(r)
          /\ UNCHANGED <<objects, document, index, pending, file, request, version, refusal>>
      BY <2>2 DEF Read, EndRecover, Ready, GoTo, database, calls
    <3> QED
      BY <3>1, <1>w, EndKeepsSound DEF Inside
  <2> QED
    BY <1>2, <1>w, <2>1, <2>2, NoRefusal DEF ReaderNext
<1>3. ASSUME NEW c \in Caller, CallerNext(c) PROVE SoundInvariant'
  <2>1. CASE Fail(c)
    <3>1. /\ pc[c] # "idle" /\ pc' = [pc EXCEPT ![c] = Ended(c)] /\ Leave(c)
          /\ Ended(c) \notin Inside
          /\ UNCHANGED <<objects, document, index, pending, file, request, version, refusal>>
      BY <2>1 DEF Fail, GoTo, Ended, Inside, database, calls
    <3> QED
      BY <3>1, EndKeepsSound
  <2> QED
    BY <1>3, <2>1, EnterKeepsSound, NoRefusal, ReplayProjectionKeepsSound, ReplayIndexKeepsSound
       DEF CallerNext
<1>4. CASE UNCHANGED vars
  BY <1>4 DEF vars, database, calls, SoundInvariant, Excluded, Stored, ReplaysPending, WritesPending,
       PendingIsLatest, ProjectionFollows, NeverRefuses, IsCurrent, Pending
<1> QED
  BY <1>1, <1>2, <1>3, <1>4 DEF Next

-----------------------------------------------------------------------------
(* The steps of the repository are steps of the register.                   *)

\* A writer has a version only from the step that records it.
Fresh == \A w \in Writer : pc[w] \in {"idle", "ready", "replay", "reindex"} => version[w] = 0

LEMMA StepFresh == HistoryInvariant /\ Fresh /\ [Next]_vars => Fresh'
<1> SUFFICES ASSUME HistoryInvariant, Fresh, [Next]_vars PROVE Fresh'
  OBVIOUS
<1>0. /\ pc \in [Caller -> {"idle", "ready", "replay", "reindex", "recorded", "projected", "done", "dead"}]
      /\ version \in [Writer -> Nat] /\ Writer \subseteq Caller /\ Reader \subseteq Caller
      /\ Writer \cap Reader = {}
  BY ProgramAssumption DEF HistoryInvariant, TypeOK, Caller
<1> USE DEF GoTo, database, calls
<1>1. ASSUME NEW w \in Writer, WriterNext(w) PROVE Fresh'
  <2>1. ASSUME NEW d \in Doc, NEW p \in Payload, StoreObject(w, d, p) PROVE Fresh'
    BY <2>1, <1>0 DEF StoreObject, Fresh
  <2>2. CASE RecordEvent(w)
    <3>1. pc' = [pc EXCEPT ![w] = "recorded"] /\ \A u \in Writer \ {w} : version'[u] = version[u]
      BY <2>2, <1>0 DEF RecordEvent
    <3> QED
      BY <3>1, <1>0 DEF Fresh
  <2>3. CASE WriteProjection(w) \/ FinishWrite(w)
    BY <2>3, <1>0 DEF WriteProjection, FinishWrite, Fresh
  <2> QED
    BY <1>1, <2>1, <2>2, <2>3 DEF WriterNext
<1>2. ASSUME NEW r \in Reader, ReaderNext(r) PROVE Fresh'
  <2>1. version' = version /\ \E l : pc' = [pc EXCEPT ![r] = l]
    BY <1>2 DEF ReaderNext, Ask, Read, RefuseRead, ReadLosesLock, EndRecover, Raise
  <2> QED
    BY <2>1, <1>0 DEF Fresh
<1>3. ASSUME NEW c \in Caller, CallerNext(c) PROVE Fresh'
  <2>1. CASE Enter(c)
    BY <2>1, <1>0 DEF Enter, Fresh
  <2>2. CASE ReplayProjection(c) \/ ReplayIndex(c)
    BY <2>2, <1>0 DEF ReplayProjection, ReplayIndex, Replaying, Fresh
  <2>3. CASE Fail(c) \/ RefuseVersion(c) \/ RefuseObject(c) \/ RefuseIndex(c)
    <3>1. version' = version /\ pc' = [pc EXCEPT ![c] = Ended(c)]
      BY <2>3 DEF Fail, RefuseVersion, RefuseObject, RefuseIndex, Raise
    <3> QED
      BY <3>1, <1>0 DEF Ended, Fresh
  <2> QED
    BY <1>3, <2>1, <2>2, <2>3 DEF CallerNext
<1>4. CASE UNCHANGED vars
  BY <1>4 DEF vars, Fresh
<1> QED
  BY <1>1, <1>2, <1>3, <1>4 DEF Next

\* A recorded document has a row, so that its file is not what readers see.
LEMMA RecordedRow ==
    ASSUME HistoryInvariant, NEW w \in Writer, pc[w] \in {"recorded", "projected"}
    PROVE request[w].doc \in Doc /\ document[request[w].doc] # None
<1> DEFINE d == request[w].doc
<1>1. d \in Doc /\ version[w] \in 1 .. Len(events[d])
  BY DEF HistoryInvariant, Requested, Recorded
<1>2. events[d] \in Seq(Version(Payload)) /\ document[d] = IF events[d] = << >> THEN None ELSE events[d][Len(events[d])]
  BY <1>1 DEF HistoryInvariant, TypeOK, HistoryIsComplete
<1>3. Len(events[d]) \in Nat \ {0} /\ events[d] # << >>
  BY <1>1, <1>2, LenProperties, EmptySeq
<1>4. document[d] \in Version(Payload)
  BY <1>2, <1>3, ElementOfSeq
<1> QED
  BY <1>1, <1>4, ProgramAssumption DEF Version

RegisterVars == <<ReadersSee, request, {w \in Writer : version[w] > 0}, answer>>

\* A step that changes no row, call or answer, and files only behind a row, is invisible.
LEMMA Unseen ==
    ASSUME UNCHANGED <<document, calls>>, \A d \in Doc : document[d] = None => file'[d] = file[d]
    PROVE UNCHANGED RegisterVars
<1>1. ReadersSee' = ReadersSee
  BY DEF ReadersSee
<1> QED
  BY <1>1 DEF calls, RegisterVars

LEMMA StepRegister ==
    HistoryInvariant /\ Fresh /\ [Next]_vars => [Register!Next]_RegisterVars
<1> SUFFICES ASSUME HistoryInvariant, Fresh, [Next]_vars
             PROVE Register!Next \/ UNCHANGED RegisterVars
  OBVIOUS
<1>0. /\ pc \in [Caller -> {"idle", "ready", "replay", "reindex", "recorded", "projected", "done", "dead"}]
      /\ version \in [Writer -> Nat] /\ Writer \subseteq Caller /\ Reader \subseteq Caller
      /\ document \in [Doc -> Version(Payload) \cup {None}]
      /\ file \in [Doc -> Payload \cup {None}]
      /\ request \in [Caller -> [doc : Doc \cup {None}, payload : Payload \cup {None}]]
      /\ Writer \cap Reader = {}
  BY ProgramAssumption DEF HistoryInvariant, TypeOK, Caller
<1>1. ASSUME NEW w \in Writer, WriterNext(w) PROVE Register!Next \/ UNCHANGED RegisterVars
  <2>1. ASSUME NEW d \in Doc, NEW p \in Payload, StoreObject(w, d, p) PROVE Register!Next
    <3>1. w \notin {u \in Writer : version[u] > 0}
      BY <2>1, <1>0 DEF StoreObject, Fresh
    <3>2. UNCHANGED <<ReadersSee, {u \in Writer : version[u] > 0}, answer>>
      BY <2>1 DEF StoreObject, ReadersSee, database
    <3>3. Register!Call(w, d, p)
      BY <2>1, <3>1, <3>2 DEF StoreObject, Register!Call
    <3> QED
      BY <3>3, <1>0 DEF Register!Next
  <2>2. CASE RecordEvent(w)
    <3> DEFINE d == request[w].doc
               new == [version |-> NextVersion(d), payload |-> request[w].payload]
    <3>1. /\ pc[w] = "replay" /\ document' = [document EXCEPT ![d] = new]
          /\ version' = [version EXCEPT ![w] = new.version]
          /\ UNCHANGED <<file, request, answer>>
      BY <2>2 DEF RecordEvent, Ready
    <3>2. d \in Doc /\ request[w].payload \in Payload /\ NextVersion(d) \in Nat \ {0}
      BY <1>0, <3>1, NextVersionType DEF HistoryInvariant, Requested
    <3>3. new # None /\ new.payload = request[w].payload /\ new.version = NextVersion(d)
      BY <3>2, ProgramAssumption
    <3> HIDE DEF new
    <3>4. ReadersSee' = [ReadersSee EXCEPT ![d] = request[w].payload]
      BY <3>1, <3>2, <3>3, <1>0 DEF ReadersSee
    <3>5. version[w] = 0 /\ version'[w] > 0 /\ \A u \in Writer \ {w} : version'[u] = version[u]
      BY <3>1, <3>2, <3>3, <1>0 DEF Fresh
    <3>6. /\ w \notin {u \in Writer : version[u] > 0}
          /\ {u \in Writer : version[u] > 0}' = {u \in Writer : version[u] > 0} \cup {w}
      BY <3>5
    <3>7. Register!Write(w)
      BY <3>1, <3>2, <3>4, <3>6 DEF Register!Write
    <3> QED
      BY <3>7 DEF Register!Next
  <2>3. CASE WriteProjection(w)
    <3>1. UNCHANGED <<document, calls>> /\ file' = [file EXCEPT ![request[w].doc] = request[w].payload]
      BY <2>3 DEF WriteProjection, database
    <3>2. document[request[w].doc] # None
      BY <2>3, RecordedRow DEF WriteProjection
    <3> QED
      BY <3>1, <3>2, <1>0, Unseen
  <2>4. CASE FinishWrite(w)
    BY <2>4, Unseen DEF FinishWrite
  <2> QED
    BY <1>1, <2>1, <2>2, <2>3, <2>4 DEF WriterNext
<1>2. ASSUME NEW r \in Reader, ReaderNext(r) PROVE Register!Next \/ UNCHANGED RegisterVars
  <2>1. ASSUME NEW d \in Doc \cup {None}, Ask(r, d) PROVE Register!Next
    <3>1. r \notin {u \in Writer : version[u] > 0}
      BY <1>0
    <3>2. UNCHANGED <<ReadersSee, {u \in Writer : version[u] > 0}, answer>>
      BY <2>1 DEF Ask, ReadersSee, database
    <3>3. Register!Call(r, d, None)
      BY <2>1, <3>1, <3>2 DEF Ask, Register!Call
    <3> QED
      BY <3>3 DEF Register!Next
  <2>2. CASE Read(r)
    <3> DEFINE d == request[r].doc
    <3>1. /\ d \in Doc /\ (document[d] # None => file[d] = document[d].payload)
          /\ answer' = [answer EXCEPT ![r] = file[d]]
          /\ UNCHANGED <<document, file, request, version>>
      BY <2>2, <1>0 DEF Read, database
    <3>2. ReadersSee[d] = file[d] /\ ReadersSee' = ReadersSee
      BY <3>1 DEF ReadersSee
    <3>3. Register!Read(r)
      BY <3>1, <3>2 DEF Register!Read
    <3> QED
      BY <3>3 DEF Register!Next
  <2>3. CASE RefuseRead(r) \/ ReadLosesLock(r) \/ EndRecover(r)
    BY <2>3, Unseen DEF RefuseRead, ReadLosesLock, EndRecover, Raise, database
  <2> QED
    BY <1>2, <2>1, <2>2, <2>3 DEF ReaderNext
<1>3. ASSUME NEW c \in Caller, CallerNext(c) PROVE UNCHANGED RegisterVars
  <2>1. CASE ReplayProjection(c)
    <3>1. /\ UNCHANGED <<document, calls>>
          /\ file' = [file EXCEPT ![Head(todo[c]).doc] = document[Head(todo[c]).doc].payload]
          /\ document[Head(todo[c]).doc] # None
      BY <2>1 DEF ReplayProjection, IsCurrent, database
    <3> QED
      BY <3>1, <1>0, Unseen
  <2>2. CASE ~ReplayProjection(c)
    BY <1>3, <2>2, Unseen DEF CallerNext, Enter, Fail, RefuseVersion, RefuseObject, RefuseIndex, Raise,
         ReplayIndex, database
  <2> QED
    BY <2>1, <2>2
<1>4. CASE UNCHANGED vars
  BY <1>4, Unseen DEF vars, database
<1> QED
  BY <1>1, <1>2, <1>3, <1>4 DEF Next

LEMMA InitRegister == Init => Fresh /\ Register!Init
<1> SUFFICES ASSUME Init PROVE Fresh /\ Register!Init
  OBVIOUS
<1>1. Fresh /\ {w \in Writer : version[w] > 0} = {}
  BY DEF Init, Fresh
<1>2. ReadersSee = file /\ file \in [Doc -> Payload \cup {None}]
  BY DEF Init, ReadersSee
<1> QED
  BY <1>1, <1>2 DEF Init, Register!Init, Caller

-----------------------------------------------------------------------------
(* Whatever happens to the lock and the files, and until then               *)

\* A disturbance changes neither rows nor calls, and files only behind a row.
LEMMA DisturbanceKeeps ==
    ASSUME HistoryInvariant, Disturbance
    PROVE /\ HistoryInvariant'
          /\ UNCHANGED <<document, version, pc, calls>>
          /\ \A d \in Doc : document[d] = None => file'[d] = file[d]
<1>1. UNCHANGED <<document, events, request, version, pc, todo, calls>>
  BY DEF Disturbance, StealLock, DamageObject, EditFile, database, calls
<1>2. TypeOK'
  <2> USE DEF database, calls
  <2>1. CASE StealLock
    BY <2>1 DEF StealLock, HistoryInvariant, TypeOK
  <2>2. ASSUME NEW p \in Payload, DamageObject(p) PROVE TypeOK'
    BY <2>2 DEF DamageObject, HistoryInvariant, TypeOK
  <2>3. ASSUME NEW d \in Doc, NEW p \in Payload \cup {None}, EditFile(d, p) PROVE TypeOK'
    BY <2>3 DEF EditFile, HistoryInvariant, TypeOK
  <2> QED
    BY <2>1, <2>2, <2>3 DEF Disturbance
<1>3. (HistoryIsComplete /\ Requested /\ Reindexing /\ Recorded)'
  BY <1>1 DEF HistoryInvariant, HistoryIsComplete, Requested, Reindexing, Recorded
<1>4. \A d \in Doc : document[d] = None => file'[d] = file[d]
  BY DEF Disturbance, StealLock, DamageObject, EditFile, HistoryInvariant, TypeOK
<1> QED
  BY <1>1, <1>2, <1>3, <1>4 DEF HistoryInvariant

\* What holds whatever happens to the lock and the files.
THEOREM HistoryHolds == DisturbedSpec => []HistoryInvariant
<1>1. DisturbedInit => HistoryInvariant
  BY InitHistory DEF DisturbedInit
<1>2. HistoryInvariant /\ [DisturbedNext]_<<vars, disturbed>> => HistoryInvariant'
  BY NextKeepsHistory, DisturbanceKeeps DEF DisturbedNext
<1> QED
  BY <1>1, <1>2, PTL DEF DisturbedSpec

\* The types of rows, files and calls.
THEOREM TypeCorrect == DisturbedSpec => []TypeOK
<1>1. HistoryInvariant => TypeOK
  BY DEF HistoryInvariant
<1> QED
  BY <1>1, HistoryHolds, PTL

\* Every history is the versions 1, 2, ... without gap or branch, its row is the newest, and
\* no write that returned ever leaves it, for any number of writers that run through each
\* other without a lock.
THEOREM HistoriesHold == DisturbedSpec => []HistoriesStand
<1>1. HistoryInvariant => HistoriesStand
  BY Acknowledges DEF HistoryInvariant, HistoriesStand
<1> QED
  BY <1>1, HistoryHolds, PTL

\* Until something outside disturbs it, the repository keeps its promises: one pending
\* transaction at most, files and index behind no row, no call refused, whoever stops where.
THEOREM Undisturbed == DisturbedSpec => []SoundUndisturbed
<1> DEFINE Inv == disturbed = TRUE \/ SoundInvariant
<1>1. DisturbedInit => Inv
  BY InitSound DEF DisturbedInit
<1>2. HistoryInvariant /\ Inv /\ [DisturbedNext]_<<vars, disturbed>> => Inv'
  <2> SUFFICES ASSUME HistoryInvariant, Inv, [DisturbedNext]_<<vars, disturbed>> PROVE Inv'
    OBVIOUS
  <2>1. CASE disturbed = TRUE
    BY <2>1 DEF DisturbedNext
  <2>2. CASE SoundInvariant
    BY <2>2, StepSound DEF DisturbedNext
  <2> QED
    BY <2>1, <2>2
<1>3. Inv => SoundUndisturbed
  BY DEF SoundUndisturbed, SoundInvariant
<1> QED
  BY <1>1, <1>2, <1>3, HistoryHolds, PTL DEF DisturbedSpec

\* Writes take effect at one moment and reads answer what was written last, for any number
\* of documents, writers and readers, whatever is damaged or taken from them.
THEOREM Refinement == DisturbedSpec => ImplementsRegister
<1>1. DisturbedInit => Fresh /\ Register!Init
  BY InitRegister DEF DisturbedInit
<1>2. HistoryInvariant /\ Fresh /\ [DisturbedNext]_<<vars, disturbed>> => Fresh'
  BY StepFresh, DisturbanceKeeps DEF DisturbedNext, Fresh
<1>3. HistoryInvariant /\ Fresh /\ [DisturbedNext]_<<vars, disturbed>>
        => [Register!Next]_<<ReadersSee, request, {w \in Writer : version[w] > 0}, answer>>
  BY StepRegister, DisturbanceKeeps, Unseen DEF DisturbedNext, RegisterVars
<1> QED
  BY <1>1, <1>2, <1>3, HistoryHolds, PTL DEF DisturbedSpec, ImplementsRegister, Register!Spec
=============================================================================
