-------------------------- MODULE ProgramDocuments --------------------------
(***************************************************************************)
(* ProgramStateRepository of song_agent/platform/persistence/program.py.   *)
(* A write stores the payload as a content-addressed authority object,     *)
(* then, under the workspace lock, records a new version in the database,  *)
(* replaces the projection file and commits the index.  It can stop after  *)
(* any of these steps; whoever next takes the lock replays what is pending *)
(* before doing its own work.  The lock is the one of ExclusiveLock.       *)
(***************************************************************************)
EXTENDS Naturals, Sequences

CONSTANTS Doc,      \* relative paths of documents
          Payload,  \* JSON contents
          Writer,   \* calls of write_projection
          Reader,   \* callers of read_projection and recover_pending
          Migrator, \* processes that migrate or roll back (see ProgramMigration)
          None

ASSUME ProgramAssumption ==
    /\ None \notin Payload \cup Doc \cup Writer \cup Reader \cup Migrator
    /\ None \notin [version : Nat \ {0}, payload : Payload]
    /\ Writer \cap Reader = {} /\ Migrator \cap (Writer \cup Reader) = {}

VARIABLES
    objects,   \* payloads stored under state/program-authority/objects
    document,  \* rows of program_documents
    events,    \* rows of program_document_events, per document in insertion order
    index,     \* rows of program_document_index
    pending,   \* rows of program_projection_transactions not committed, by created_at
    file,      \* the projection files
    holder,    \* who has the workspace lock
    todo,      \* per caller: the pending rows it has still to replay
    pc,        \* per caller: where its call is
    request,   \* per caller: the document and the payload of its call
    version,   \* per writer: the version it recorded
    answer,    \* per reader: what its last read returned
    refusal    \* the last error the repository raised by itself

database == <<document, events, index, pending>>
calls == <<request, version, answer>>
vars == <<objects, database, file, holder, todo, pc, calls, refusal>>

Caller == Writer \cup Reader

Version(p) == [version : Nat \ {0}, payload : p]
Transaction == [tx : Writer, doc : Doc, version : Nat \ {0}]

TypeOK ==
    /\ objects \subseteq Payload
    /\ document \in [Doc -> Version(Payload) \cup {None}]
    /\ events \in [Doc -> Seq(Version(Payload))]
    /\ index \in [Doc -> Version(Payload) \cup {None}]
    /\ pending \in Seq(Transaction)
    /\ file \in [Doc -> Payload \cup {None}]
    /\ holder \in Caller \cup Migrator \cup {None}
    /\ todo \in [Caller -> Seq(Transaction)]
    /\ pc \in [Caller -> {"idle", "ready", "replay", "reindex", "recorded", "projected", "done", "dead"}]
    /\ request \in [Caller -> [doc : Doc \cup {None}, payload : Payload \cup {None}]]
    /\ version \in [Writer -> Nat]
    /\ answer \in [Reader -> Payload \cup {None}]
    /\ refusal \in {"none", "version mismatch", "object missing", "projection differs",
                   "version disappeared", "lock lost"}

\* The files may be older than the database: a workspace before its migration.
Init ==
    /\ objects = {}
    /\ document = [d \in Doc |-> None] /\ index = [d \in Doc |-> None]
    /\ events = [d \in Doc |-> << >>]
    /\ pending = << >> /\ todo = [c \in Caller |-> << >>]
    /\ file \in [Doc -> Payload \cup {None}]
    /\ holder = None
    /\ pc = [c \in Caller |-> "idle"]
    /\ request = [c \in Caller |-> [doc |-> None, payload |-> None]]
    /\ version = [w \in Writer |-> 0]
    /\ answer = [r \in Reader |-> None]
    /\ refusal = "none"

GoTo(c, l) == pc' = [pc EXCEPT ![c] = l]

-----------------------------------------------------------------------------
(* Calls                                                                    *)

\* write_projection: the authority object is written before the lock is taken.
StoreObject(w, d, p) ==
    /\ pc[w] = "idle"
    /\ objects' = objects \cup {p}
    /\ request' = [request EXCEPT ![w] = [doc |-> d, payload |-> p]]
    /\ GoTo(w, "ready")
    /\ UNCHANGED <<database, file, holder, todo, version, answer, refusal>>

\* read_projection of document d, or recover_pending for d = None.
Ask(r, d) ==
    /\ pc[r] = "idle"
    /\ request' = [request EXCEPT ![r] = [doc |-> d, payload |-> None]]
    /\ GoTo(r, "ready")
    /\ UNCHANGED <<objects, database, file, holder, todo, version, answer, refusal>>

\* Mutant of Enter: the call does not look for pending transactions.
EnterWithoutReplay(c) ==
    /\ pc[c] = "ready"
    /\ holder = None
    /\ holder' = c
    /\ todo' = [todo EXCEPT ![c] = << >>]
    /\ GoTo(c, "replay")
    /\ UNCHANGED <<objects, database, file, calls, refusal>>

\* The lock is taken and the pending transactions are listed.
Enter(c) ==
    /\ pc[c] = "ready"
    /\ holder = None
    /\ holder' = c
    /\ todo' = [todo EXCEPT ![c] = pending]
    /\ GoTo(c, "replay")
    /\ UNCHANGED <<objects, database, file, calls, refusal>>

\* A call ends, with or without an error; it releases the lock if it has it.
Leave(c) ==
    /\ holder' = IF holder = c THEN None ELSE holder
    /\ todo' = [todo EXCEPT ![c] = << >>]

Ended(c) == IF c \in Writer THEN "dead" ELSE "idle"

Raise(c, why) ==
    /\ refusal' = why
    /\ GoTo(c, Ended(c))
    /\ Leave(c)
    /\ UNCHANGED <<objects, database, file, calls>>

-----------------------------------------------------------------------------
(* _recover_pending_locked and _commit_index                                *)

Replaying(c) == pc[c] = "replay" /\ todo[c] # << >>
Ready(c) == pc[c] = "replay" /\ todo[c] = << >>

IsCurrent(t) == document[t.doc] # None /\ document[t.doc].version = t.version

RefuseVersion(c) ==
    /\ Replaying(c)
    /\ ~IsCurrent(Head(todo[c]))
    /\ Raise(c, "version mismatch")

RefuseObject(c) ==
    /\ Replaying(c)
    /\ IsCurrent(Head(todo[c]))
    /\ document[Head(todo[c]).doc].payload \notin objects
    /\ Raise(c, "object missing")

\* The projection is written again from the authority object.
ReplayProjection(c) ==
    /\ Replaying(c)
    /\ IsCurrent(Head(todo[c]))
    /\ LET d == Head(todo[c]).doc IN
         /\ document[d].payload \in objects
         /\ file' = [file EXCEPT ![d] = document[d].payload]
    /\ GoTo(c, "reindex")
    /\ UNCHANGED <<objects, database, holder, todo, calls, refusal>>

\* One database transaction: the index row, and the status committed.
CommitIndex(t) ==
    /\ IsCurrent(t)
    /\ index' = [index EXCEPT ![t.doc] = document[t.doc]]
    /\ \/ \E i \in DOMAIN pending :
            /\ pending[i].tx = t.tx
            /\ pending' = SubSeq(pending, 1, i - 1) \o SubSeq(pending, i + 1, Len(pending))
       \/ (\A i \in DOMAIN pending : pending[i].tx # t.tx) /\ pending' = pending

ReplayIndex(c) ==
    /\ pc[c] = "reindex"
    /\ CommitIndex(Head(todo[c]))
    /\ todo' = [todo EXCEPT ![c] = Tail(@)]
    /\ GoTo(c, "replay")
    /\ UNCHANGED <<objects, document, events, file, holder, calls, refusal>>

\* The version that c set out to commit is no longer the one of the row.
RefuseIndex(c) ==
    /\ \/ pc[c] = "reindex" /\ ~IsCurrent(Head(todo[c]))
       \/ /\ c \in Writer /\ pc[c] = "projected"
          /\ ~IsCurrent([tx |-> c, doc |-> request[c].doc, version |-> version[c]])
    /\ Raise(c, "version disappeared")

-----------------------------------------------------------------------------
(* write_projection                                                         *)

\* Mutant of NextVersion: the version is computed from the index.
NextVersionFromIndex(d) == IF index[d] = None THEN 1 ELSE index[d].version + 1

NextVersion(d) == IF document[d] = None THEN 1 ELSE document[d].version + 1

\* One database transaction: the document row, its event, the pending row.
RecordEvent(w) ==
    /\ Ready(w)
    /\ LET d == request[w].doc
           new == [version |-> NextVersion(d), payload |-> request[w].payload]
       IN  /\ document' = [document EXCEPT ![d] = new]
           /\ events' = [events EXCEPT ![d] = Append(@, new)]
           /\ pending' = Append(pending, [tx |-> w, doc |-> d, version |-> new.version])
           /\ version' = [version EXCEPT ![w] = new.version]
    /\ GoTo(w, "recorded")
    /\ UNCHANGED <<objects, index, file, holder, todo, request, answer, refusal>>

\* The file is replaced, and the row becomes projection_written: still pending.
WriteProjection(w) ==
    /\ pc[w] = "recorded"
    /\ file' = [file EXCEPT ![request[w].doc] = request[w].payload]
    /\ GoTo(w, "projected")
    /\ UNCHANGED <<objects, database, holder, todo, calls, refusal>>

\* The index is committed; the path is returned unless the release finds that
\* the lock is no longer the writer's.
FinishWrite(w) ==
    /\ pc[w] = "projected"
    /\ CommitIndex([tx |-> w, doc |-> request[w].doc, version |-> version[w]])
    /\ GoTo(w, IF holder = w THEN "done" ELSE "dead")
    /\ refusal' = IF holder = w THEN refusal ELSE "lock lost"
    /\ Leave(w)
    /\ UNCHANGED <<objects, document, events, file, calls>>

-----------------------------------------------------------------------------
(* read_projection and recover_pending                                      *)

\* Mutant of Read: the file is not compared with the authority object.
ReadUnchecked(r) ==
    /\ Ready(r)
    /\ holder = r
    /\ LET d == request[r].doc IN
         /\ d # None
         /\ file[d] # None
         /\ answer' = [answer EXCEPT ![r] = file[d]]
    /\ GoTo(r, "idle")
    /\ Leave(r)
    /\ UNCHANGED <<objects, database, file, request, version, refusal>>

\* A document without a row is read from its file; with one, the file must
\* hold what the authority object holds; the release must find r's own lock.
Read(r) ==
    /\ Ready(r)
    /\ holder = r
    /\ LET d == request[r].doc IN
         /\ d # None
         /\ file[d] # None
         /\ document[d] # None => document[d].payload \in objects /\ file[d] = document[d].payload
         /\ answer' = [answer EXCEPT ![r] = file[d]]
    /\ GoTo(r, "idle")
    /\ Leave(r)
    /\ UNCHANGED <<objects, database, file, request, version, refusal>>

RefuseRead(r) ==
    /\ Ready(r)
    /\ LET d == request[r].doc IN
         /\ d # None
         /\ document[d] # None
         /\ \/ document[d].payload \notin objects /\ Raise(r, "object missing")
            \/ /\ document[d].payload \in objects /\ file[d] # document[d].payload
               /\ Raise(r, "projection differs")

ReadLosesLock(r) == Ready(r) /\ holder # r /\ Raise(r, "lock lost")

\* The document has neither a row nor a file.
NotFound(d) == d # None /\ document[d] = None /\ file[d] = None

\* recover_pending returns, or the read raises FileNotFoundError.
EndRecover(r) ==
    /\ Ready(r)
    /\ holder = r
    /\ request[r].doc = None \/ NotFound(request[r].doc)
    /\ GoTo(r, "idle")
    /\ Leave(r)
    /\ UNCHANGED <<objects, database, file, calls, refusal>>

-----------------------------------------------------------------------------
\* A write raises, or the process of a call dies, before any of its steps.
Fail(c) ==
    /\ pc[c] \notin {"idle", "done", "dead"}
    /\ GoTo(c, Ended(c))
    /\ Leave(c)
    /\ UNCHANGED <<objects, database, file, calls, refusal>>

WriterNext(w) ==
    \/ \E d \in Doc, p \in Payload : StoreObject(w, d, p)
    \/ RecordEvent(w) \/ WriteProjection(w) \/ FinishWrite(w)

ReaderNext(r) ==
    \/ \E d \in Doc \cup {None} : Ask(r, d)
    \/ Read(r) \/ RefuseRead(r) \/ ReadLosesLock(r) \/ EndRecover(r)

CallerNext(c) ==
    \/ Enter(c) \/ Fail(c)
    \/ RefuseVersion(c) \/ RefuseObject(c) \/ RefuseIndex(c)
    \/ ReplayProjection(c) \/ ReplayIndex(c)

Next ==
    \/ \E w \in Writer : WriterNext(w)
    \/ \E r \in Reader : ReaderNext(r)
    \/ \E c \in Caller : CallerNext(c)

Spec == Init /\ [][Next]_vars

-----------------------------------------------------------------------------
(* Properties                                                               *)

Pending(d) == \E i \in DOMAIN pending : pending[i].doc = d

\* At most one transaction is pending, and it is the newest of its document:
\* a crash never leaves two, whose replay would refuse every later call.
PendingIsLatest == Len(pending) <= 1 /\ \A i \in DOMAIN pending : IsCurrent(pending[i])

\* The file and the index agree with the authority, or a replay is due.
ProjectionFollows ==
    \A d \in Doc : document[d] # None /\ ~Pending(d) =>
        file[d] = document[d].payload /\ index[d] = document[d]

\* The events of a document are its versions 1, 2, ..., without gap or branch,
\* and its row is the newest of them.
HistoryIsComplete ==
    \A d \in Doc :
        /\ \A i \in DOMAIN events[d] : events[d][i].version = i
        /\ document[d] = IF events[d] = << >> THEN None ELSE events[d][Len(events[d])]

\* A write that has returned is in its document's history for good.
AcknowledgedInHistory ==
    \A w \in Writer : pc[w] = "done" =>
        LET history == events[request[w].doc]
        IN  version[w] \in DOMAIN history /\ history[version[w]].payload = request[w].payload

\* What was acknowledged is there, in one unbroken history per document.
HistoriesStand == HistoryIsComplete /\ AcknowledgedInHistory

\* The repository's own checks never fail on what the repository wrote.
NeverRefuses == refusal = "none"

\* What a read returns: the recorded version, also before it is projected.
ReadersSee ==
    [d \in Doc |-> IF document[d] = None THEN file[d] ELSE document[d].payload]

\* The repository is an atomic register per document for its callers, through
\* crashes of any of them.
Register == INSTANCE DocumentRegister WITH
    value <- ReadersSee, written <- {w \in Writer : version[w] > 0}
ImplementsRegister == Register!Spec
=============================================================================
