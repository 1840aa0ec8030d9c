-------------------------- MODULE BatchRender_proofs --------------------------
(***************************************************************************)
(* What is proved of a batch, its jobs and its renderings, for any number  *)
(* of clients, items and kinds of rendering and any max_concurrency.       *)
(* The invariants are about all the documents there are: the one that is   *)
(* stored, and those that some actor has read and changed and has yet to   *)
(* save.  A step either saves such a document (Saves), or reads the stored *)
(* one and changes it (Keeps), or only goes on (Goes), or is one of a job  *)
(* (JobEnds) or of a restart (Restarts).                                   *)
(***************************************************************************)
EXTENDS BatchRender, FiniteSetTheorems, SequenceTheorems, TLAPS

-----------------------------------------------------------------------------
(* Documents: their types, and what an EXCEPT does to them                  *)

LEMMA DocumentIsSome == ASSUME NEW d \in Document PROVE d # None
  BY DocumentAssumption

LEMMA DocumentParts ==
  ASSUME NEW d \in Document
  PROVE  /\ d.status \in {"draft", "running", "paused", "completed", "completed_with_errors"}
         /\ d.items \in [Item -> BatchItem]
         /\ \A i \in Item : d.items[i] \in BatchItem
  BY DEF Document

LEMMA ItemParts ==
  ASSUME NEW m \in BatchItem
  PROVE  /\ m.status \in {"queued", "running", "completed", "failed"}
         /\ m.job \in Nat /\ m.version \in Nat
         /\ m.render \in [Kind -> RenderStatus]
  BY DEF BatchItem

LEMMA WithItems ==
  ASSUME NEW d \in Document, NEW f \in [Item -> BatchItem]
  PROVE  /\ [d EXCEPT !.items = f] \in Document
         /\ [d EXCEPT !.items = f].items = f
         /\ [d EXCEPT !.items = f].status = d.status
  BY DEF Document

LEMMA WithStatus ==
  ASSUME NEW d \in Document,
         NEW s \in {"draft", "running", "paused", "completed", "completed_with_errors"}
  PROVE  /\ [d EXCEPT !.status = s] \in Document
         /\ [d EXCEPT !.status = s].status = s
         /\ [d EXCEPT !.status = s].items = d.items
  BY DEF Document

LEMMA ItemWithStatus ==
  ASSUME NEW m \in BatchItem, NEW s \in {"queued", "running", "completed", "failed"}
  PROVE  LET n == [m EXCEPT !.status = s]
         IN  n \in BatchItem /\ n.status = s /\ n.job = m.job /\ n.version = m.version /\ n.render = m.render
  BY DEF BatchItem

LEMMA ItemWithRender ==
  ASSUME NEW m \in BatchItem, NEW r \in [Kind -> RenderStatus]
  PROVE  LET n == [m EXCEPT !.render = r]
         IN  n \in BatchItem /\ n.status = m.status /\ n.job = m.job /\ n.version = m.version /\ n.render = r
  BY DEF BatchItem

\* Requeued, and what it makes of an item.
LEMMA RequeuedItem ==
  ASSUME NEW m \in BatchItem
  PROVE  /\ Requeued(m) \in BatchItem
         /\ m.status # "failed" => Requeued(m) = m
         /\ m.status = "failed" =>
              /\ Requeued(m).status = "queued" /\ Requeued(m).job = 0
              /\ Requeued(m).version = m.version /\ Requeued(m).render = NotStarted
  BY DEF BatchItem, Requeued, NotStarted, RenderStatus

LEMMA RetriedDocument ==
  ASSUME NEW d \in Document
  PROVE  /\ Changed("retry", d) \in Document /\ Changed("retry", d).status = "running"
         /\ \A i \in Item : Changed("retry", d).items[i] = Requeued(d.items[i])
<1> DEFINE f == [i \in Item |-> Requeued(d.items[i])]
<1>1. f \in [Item -> BatchItem]
  BY DocumentParts, RequeuedItem
<1>2. Changed("retry", d) = [status |-> "running", items |-> f]
  BY DEF Changed
<1> QED
  BY <1>1, <1>2 DEF Document

LEMMA ChangedDocument ==
  ASSUME NEW d \in Document, NEW o \in {"launch", "resume", "pause", "hide"}
  PROVE  /\ Changed(o, d) \in Document /\ Changed(o, d).items = d.items
         /\ Changed(o, d).status = CASE o \in {"launch", "resume"} -> "running"
                                     [] o = "pause" -> "paused"
                                     [] o = "hide" -> d.status
<1>1. CASE o \in {"launch", "resume"}
  <2>1. Changed(o, d) = [d EXCEPT !.status = "running"]
    BY <1>1 DEF Changed
  <2>2. /\ Changed(o, d) \in Document /\ Changed(o, d).items = d.items
        /\ Changed(o, d).status = "running"
    BY <2>1 DEF Document
  <2> QED
    BY <1>1, <2>2
<1>2. CASE o = "pause"
  <2>1. Changed(o, d) = [d EXCEPT !.status = "paused"]
    BY <1>2 DEF Changed
  <2>2. /\ Changed(o, d) \in Document /\ Changed(o, d).items = d.items
        /\ Changed(o, d).status = "paused"
    BY <2>1 DEF Document
  <2> QED
    BY <1>2, <2>2
<1>3. CASE o = "hide"
  <2>1. Changed(o, d) = d
    BY <1>3 DEF Changed
  <2> QED
    BY <1>3, <2>1
<1> QED
  BY <1>1, <1>2, <1>3

\* Followed changes the status of an item that is running, to that of its job.
LEMMA FollowedItem ==
  ASSUME NEW m \in BatchItem, NEW st
  PROVE  LET n == Followed(m, st)
         IN  /\ n \in BatchItem /\ n.job = m.job /\ n.version = m.version /\ n.render = m.render
             /\ m.status # "running" => n = m
             /\ m.status = "running" =>
                  \/ n = m /\ st[m.job] = "running"
                  \/ n.status = "completed" /\ st[m.job] = "completed"
                  \/ n.status = "failed" /\ st[m.job] \notin {"running", "completed"}
  BY ItemWithStatus DEF Followed

\* A sync follows each item, and archives it if its turn has come.
LEMMA SyncedDocument ==
  ASSUME NEW d \in Document, NEW st
  PROVE  LET w == Synced(d, st)
             f == [i \in Item |-> Followed(d.items[i], st)]
         IN  /\ w \in Document /\ w.status = d.status
             /\ \A i \in Item : w.items[i] = IF i \in Archivable(f, st)
                                             THEN [f[i] EXCEPT !.version = f[i].job] ELSE f[i]
<1> DEFINE f == [i \in Item |-> Followed(d.items[i], st)]
           g == [i \in Item |-> IF i \in Archivable(f, st) THEN [f[i] EXCEPT !.version = f[i].job] ELSE f[i]]
<1>1. f \in [Item -> BatchItem]
  BY DocumentParts, FollowedItem
<1>2. ASSUME NEW i \in Item PROVE [f[i] EXCEPT !.version = f[i].job] \in BatchItem
  <2>1. f[i] \in BatchItem
    BY <1>1
  <2> HIDE DEF f
  <2> QED
    BY <2>1 DEF BatchItem
<1>3. g \in [Item -> BatchItem]
  BY <1>1, <1>2
<1>4. Synced(d, st) = [d EXCEPT !.items = g]
  BY DEF Synced
<1> HIDE DEF g
<1>5. Synced(d, st) \in Document /\ Synced(d, st).status = d.status /\ Synced(d, st).items = g
  BY <1>3, <1>4, WithItems
<1> QED
  BY <1>5 DEF g

\* The same item by item, which is all that the proofs need of it.
LEMMA SyncedItem ==
  ASSUME NEW d \in Document, NEW st, NEW i \in Item
  PROVE  LET m == d.items[i]
             n == Synced(d, st).items[i]
         IN  /\ n \in BatchItem /\ n.job = m.job /\ n.render = m.render
             /\ m.status # "running" => n.status = m.status
             /\ m.status = "running" =>
                  \/ n.status = "running" /\ st[m.job] = "running"
                  \/ n.status = "completed" /\ st[m.job] = "completed"
                  \/ n.status = "failed" /\ st[m.job] \notin {"running", "completed"}
             /\ \/ n.version = m.version
                \/ n.version = m.job /\ n.status = "completed" /\ st[m.job] = "completed"
<1> DEFINE f == [k \in Item |-> Followed(d.items[k], st)]
<1>1. d.items[i] \in BatchItem
  BY DocumentParts
<1>2. f[i] = Followed(d.items[i], st)
  OBVIOUS
<1>3. Synced(d, st).items[i] = IF i \in Archivable(f, st) THEN [f[i] EXCEPT !.version = f[i].job] ELSE f[i]
  BY SyncedDocument
<1>4. i \in Archivable(f, st) => f[i].status = "completed" /\ f[i].version = 0 /\ i \in Grouped /\ st[f[i].job] = "completed"
  <2>1. SUFFICES ASSUME i \in Archivable(f, st)
                 PROVE  f[i].status = "completed" /\ f[i].version = 0 /\ i \in Grouped /\ st[f[i].job] = "completed"
    OBVIOUS
  <2>2. i <= i
    BY BatchAssumption DEF Item
  <2> QED
    BY <2>1, <2>2 DEF Archivable
<1>5. Synced(d, st).items[i] \in BatchItem
  BY SyncedDocument, DocumentParts
<1> DEFINE m == d.items[i]
           n == Synced(d, st).items[i]
           h == Followed(m, st)
<1>6. n = IF i \in Archivable(f, st) THEN [h EXCEPT !.version = h.job] ELSE h
  BY <1>2, <1>3
<1>7. i \in Archivable(f, st) => h.status = "completed" /\ st[h.job] = "completed"
  BY <1>2, <1>4
<1>8. /\ h \in BatchItem /\ h.job = m.job /\ h.version = m.version /\ h.render = m.render
      /\ m.status # "running" => h = m
      /\ m.status = "running" =>
           \/ h = m /\ st[m.job] = "running"
           \/ h.status = "completed" /\ st[m.job] = "completed"
           \/ h.status = "failed" /\ st[m.job] \notin {"running", "completed"}
  BY <1>1, FollowedItem
<1> HIDE DEF n, h, f
<1>9. CASE i \in Archivable(f, st)
  <2>1. n = [h EXCEPT !.version = h.job]
    BY <1>6, <1>9
  <2>2. n.status = h.status /\ n.job = h.job /\ n.render = h.render /\ n.version = h.job
    BY <1>8, <2>1 DEF BatchItem
  <2> QED
    BY <1>5, <1>7, <1>8, <1>9, <2>2 DEF n
<1>10. CASE i \notin Archivable(f, st)
  BY <1>5, <1>6, <1>8, <1>10 DEF n
<1> QED
  BY <1>9, <1>10

LEMMA FinishedDocument ==
  ASSUME NEW d \in Document
  PROVE  /\ Finished(d) \in Document /\ Finished(d).items = d.items
         /\ Finished(d).status = IF In(d, "failed") # {} THEN "completed_with_errors" ELSE "completed"
<1> DEFINE s == IF In(d, "failed") # {} THEN "completed_with_errors" ELSE "completed"
<1>1. Finished(d) = [d EXCEPT !.status = s]
  BY DEF Finished
<1>2. s \in {"draft", "running", "paused", "completed", "completed_with_errors"}
  OBVIOUS
<1> HIDE DEF s
<1>3. Finished(d) \in Document /\ Finished(d).items = d.items /\ Finished(d).status = s
  BY <1>1, <1>2 DEF Document
<1> QED
  BY <1>3 DEF s

LEMMA HaltedDocument ==
  ASSUME NEW d \in Document
  PROVE  /\ Halted(d) \in Document /\ Halted(d).status = d.status
         /\ \A i \in Item :
              LET m == d.items[i]
                  n == Halted(d).items[i]
              IN  /\ n.status = m.status /\ n.job = m.job /\ n.version = m.version
                  /\ n.render = Interrupted(m.render)
<1> DEFINE f == [i \in Item |-> [d.items[i] EXCEPT !.render = Interrupted(@)]]
<1>1. ASSUME NEW i \in Item
      PROVE  LET m == d.items[i]
             IN  /\ f[i] \in BatchItem /\ f[i].status = m.status /\ f[i].job = m.job
                 /\ f[i].version = m.version /\ f[i].render = Interrupted(m.render)
  <2>1. d.items[i] \in BatchItem
    BY DocumentParts
  <2>2. Interrupted(d.items[i].render) \in [Kind -> RenderStatus]
    BY <2>1, ItemParts DEF Interrupted, RenderStatus
  <2>3. f[i] = [d.items[i] EXCEPT !.render = Interrupted(d.items[i].render)]
    OBVIOUS
  <2> QED
    BY <2>1, <2>2, <2>3, ItemWithRender
<1>2. f \in [Item -> BatchItem]
  BY <1>1
<1>3. Halted(d) = [d EXCEPT !.items = f]
  BY DEF Halted
<1> HIDE DEF f
<1>4. Halted(d) \in Document /\ Halted(d).status = d.status /\ Halted(d).items = f
  BY <1>2, <1>3, WithItems
<1> QED
  BY <1>1, <1>4

\* What a restart makes of a document: it leaves no rendering under way, and
\* either finishes the batch or pauses it, unless it was not running.
LEMMA RecoveredDocument ==
  ASSUME NEW d \in Document, NEW st
  PROVE  LET w == Recovered(d, st)
         IN  /\ w \in Document /\ w.status # "running"
             /\ \/ d.status \notin {"running", "paused"} /\ w = Halted(d)
                \/ /\ d.status \in {"running", "paused"} /\ w.items = Synced(Halted(d), st).items
                   /\ \/ w.status = "paused"
                      \/ Unfinished(w) = {} /\ w.status = IF In(w, "failed") # {} THEN "completed_with_errors" ELSE "completed"
<1> DEFINE r == Halted(d)
           s == Synced(r, st)
<1>1. d # None
  BY DocumentIsSome
<1>2. r \in Document /\ r.status = d.status
  BY HaltedDocument
<1>3. s \in Document /\ s.status = r.status
  BY <1>2, SyncedDocument
<1>4. Recovered(d, st) = CASE d = None -> d
                           [] d # None /\ d.status \notin {"running", "paused"} -> r
                           [] OTHER -> IF Unfinished(s) = {} THEN Finished(s) ELSE [s EXCEPT !.status = "paused"]
  BY DEF Recovered
<1> HIDE DEF r, s
<1>5. CASE d.status \notin {"running", "paused"}
  <2>1. Recovered(d, st) = r
    BY <1>1, <1>4, <1>5
  <2> QED
    BY <1>2, <1>5, <2>1 DEF r
<1>6. CASE d.status \in {"running", "paused"} /\ Unfinished(s) = {}
  <2>1. Recovered(d, st) = Finished(s)
    BY <1>1, <1>4, <1>6
  <2>2. /\ Finished(s) \in Document /\ Finished(s).items = s.items
        /\ Finished(s).status = IF In(s, "failed") # {} THEN "completed_with_errors" ELSE "completed"
    BY <1>3, FinishedDocument
  <2>3. Unfinished(Finished(s)) = {} /\ In(Finished(s), "failed") = In(s, "failed")
    BY <1>6, <2>2 DEF Unfinished, In
  <2>4. Finished(s).status # "running"
    BY <2>2
  <2> QED
    BY <1>6, <2>1, <2>2, <2>3, <2>4 DEF s, r
<1>7. CASE d.status \in {"running", "paused"} /\ Unfinished(s) # {}
  <2>1. Recovered(d, st) = [s EXCEPT !.status = "paused"]
    BY <1>1, <1>4, <1>7
  <2>2. /\ Recovered(d, st) \in Document /\ Recovered(d, st).status = "paused"
        /\ Recovered(d, st).items = s.items
    BY <1>3, <2>1 DEF Document
  <2> QED
    BY <1>7, <2>2 DEF s, r
<1> QED
  BY <1>5, <1>6, <1>7

\* The same item by item.
LEMMA RecoveredItem ==
  ASSUME NEW d \in Document, NEW st, NEW i \in Item
  PROVE  LET m == d.items[i]
             n == Recovered(d, st).items[i]
         IN  /\ n \in BatchItem /\ n.job = m.job /\ n.render = Interrupted(m.render)
             /\ m.status # "running" => n.status = m.status
             /\ m.status = "running" =>
                  \/ n.status = "running" /\ (d.status \in {"running", "paused"} => st[m.job] = "running")
                  \/ n.status = "completed" /\ st[m.job] = "completed"
                  \/ n.status = "failed" /\ st[m.job] \notin {"running", "completed"}
             /\ \/ n.version = m.version
                \/ n.version = m.job /\ n.status = "completed" /\ st[m.job] = "completed"
<1> DEFINE m == d.items[i]
           r == Halted(d)
           w == Recovered(d, st)
<1>1. /\ r \in Document /\ r.status = d.status
      /\ r.items[i].status = m.status /\ r.items[i].job = m.job /\ r.items[i].version = m.version
      /\ r.items[i].render = Interrupted(m.render)
  BY HaltedDocument
<1>2. /\ w \in Document
      /\ \/ d.status \notin {"running", "paused"} /\ w = r
         \/ d.status \in {"running", "paused"} /\ w.items = Synced(r, st).items
  BY RecoveredDocument
<1>3. m \in BatchItem /\ w.items[i] \in BatchItem
  BY <1>2, DocumentParts
<1>4. CASE w = r /\ d.status \notin {"running", "paused"}
  <2> HIDE DEF m, r, w
  <2> QED
    BY <1>1, <1>3, <1>4 DEF m, w
<1>5. CASE w.items = Synced(r, st).items
  <2>1. LET n == Synced(r, st).items[i]
            h == r.items[i]
        IN  /\ n \in BatchItem /\ n.job = h.job /\ n.render = h.render
            /\ h.status # "running" => n.status = h.status
            /\ h.status = "running" =>
                 \/ n.status = "running" /\ st[h.job] = "running"
                 \/ n.status = "completed" /\ st[h.job] = "completed"
                 \/ n.status = "failed" /\ st[h.job] \notin {"running", "completed"}
            /\ \/ n.version = h.version
               \/ n.version = h.job /\ n.status = "completed" /\ st[h.job] = "completed"
    BY <1>1, SyncedItem
  <2> HIDE DEF m, r, w
  <2> QED
    BY <1>1, <1>5, <2>1 DEF m, w
<1> QED
  BY <1>2, <1>4, <1>5

LEMMA RenderedDocument ==
  ASSUME NEW d \in Document, NEW k \in Kind, NEW f \in [Item -> RenderStatus]
  PROVE  LET w == WithRender(d, k, f)
         IN  /\ w \in Document /\ w.status = d.status
             /\ \A i \in Item :
                  /\ w.items[i].status = d.items[i].status /\ w.items[i].job = d.items[i].job
                  /\ w.items[i].version = d.items[i].version
                  /\ \A l \in Kind : w.items[i].render[l] = IF l = k THEN f[i] ELSE d.items[i].render[l]
<1> DEFINE g == [i \in Item |-> [d.items[i] EXCEPT !.render[k] = f[i]]]
<1>1. ASSUME NEW i \in Item
      PROVE  LET m == d.items[i]
             IN  /\ g[i] \in BatchItem /\ g[i].status = m.status /\ g[i].job = m.job
                 /\ g[i].version = m.version
                 /\ \A l \in Kind : g[i].render[l] = IF l = k THEN f[i] ELSE m.render[l]
  <2> DEFINE r == [d.items[i].render EXCEPT ![k] = f[i]]
  <2>1. d.items[i] \in BatchItem
    BY DocumentParts
  <2>2. r \in [Kind -> RenderStatus] /\ \A l \in Kind : r[l] = IF l = k THEN f[i] ELSE d.items[i].render[l]
    BY <2>1, ItemParts
  <2>3. g[i] = [d.items[i] EXCEPT !.render = r]
    BY <2>1 DEF BatchItem
  <2> HIDE DEF g, r
  <2>4. /\ g[i] \in BatchItem /\ g[i].status = d.items[i].status /\ g[i].job = d.items[i].job
        /\ g[i].version = d.items[i].version /\ g[i].render = r
    BY <2>1, <2>2, <2>3 DEF BatchItem
  <2> QED
    BY <2>2, <2>4
<1>2. g \in [Item -> BatchItem]
  BY <1>1
<1>3. WithRender(d, k, f) = [d EXCEPT !.items = g]
  BY DEF WithRender
<1> HIDE DEF g
<1>4. /\ WithRender(d, k, f) \in Document /\ WithRender(d, k, f).status = d.status
      /\ WithRender(d, k, f).items = g
  BY <1>2, <1>3, WithItems
<1> QED
  BY <1>1, <1>4

LEMMA QueuedType ==
  ASSUME NEW d \in Document, NEW k \in Kind, NEW f \in BOOLEAN
  PROVE  Queued(d, k, f) \in [Item -> RenderStatus]
<1>1. \A i \in Item : d.items[i].render[k] \in RenderStatus
  BY DocumentParts, ItemParts
<1> QED
  BY <1>1 DEF Queued, RenderStatus

\* The document in which the rendering of kind k of item i came to s.
LEMMA OneRendered ==
  ASSUME NEW d \in Document, NEW k \in Kind, NEW i \in Item, NEW s \in RenderStatus
  PROVE  LET w == [d EXCEPT !.items[i].render[k] = s]
         IN  /\ w \in Document /\ w.status = d.status
             /\ \A j \in Item :
                  /\ w.items[j].status = d.items[j].status /\ w.items[j].job = d.items[j].job
                  /\ w.items[j].version = d.items[j].version
                  /\ \A l \in Kind : w.items[j].render[l] = IF l = k /\ j = i THEN s ELSE d.items[j].render[l]
<1> DEFINE f == [j \in Item |-> IF j = i THEN s ELSE d.items[j].render[k]]
           w == [d EXCEPT !.items[i].render[k] = s]
           m == d.items[i]
           n == [m EXCEPT !.render = [m.render EXCEPT ![k] = s]]
           g == [d.items EXCEPT ![i] = n]
<1>1. m \in BatchItem /\ d.items \in [Item -> BatchItem]
  BY DocumentParts
<1>2. [m.render EXCEPT ![k] = s] \in [Kind -> RenderStatus]
  BY <1>1, ItemParts
<1>3. /\ n \in BatchItem /\ n.status = m.status /\ n.job = m.job /\ n.version = m.version
      /\ n.render = [m.render EXCEPT ![k] = s]
  BY <1>1, <1>2, ItemWithRender
<1>4. w = [d EXCEPT !.items = g]
  BY <1>1 DEF Document, BatchItem
<1> HIDE DEF n
<1>5. g \in [Item -> BatchItem] /\ \A j \in Item : g[j] = IF j = i THEN n ELSE d.items[j]
  BY <1>1, <1>3
<1> HIDE DEF g, m, w, f
<1>6. w \in Document /\ w.status = d.status /\ w.items = g
  BY <1>4, <1>5, WithItems
<1>7. \A l \in Kind : n.render[l] = IF l = k THEN s ELSE m.render[l]
  BY <1>1, <1>3, ItemParts
<1> SUFFICES ASSUME NEW j \in Item
             PROVE  /\ w.items[j].status = d.items[j].status /\ w.items[j].job = d.items[j].job
                    /\ w.items[j].version = d.items[j].version
                    /\ \A l \in Kind : w.items[j].render[l] = IF l = k /\ j = i THEN s ELSE d.items[j].render[l]
  BY <1>6 DEF w
<1>8. CASE j = i
  BY <1>3, <1>5, <1>6, <1>7, <1>8 DEF m
<1>9. CASE j # i
  BY <1>5, <1>6, <1>9
<1> QED
  BY <1>8, <1>9

-----------------------------------------------------------------------------
(* Who is where, and what each actor has in hand                            *)

\* The steps at which an actor has a document to save, and those at which it
\* has the runner's lock.
SavingAt == {"save", "startSave", "syncSave", "finish", "renderSave"}
LockedAt == {"startSave", "syncSave", "reread", "renderSave"}

Reads(a) == copy[a].read
Writes(a) == copy[a].write
Copies == [read : Document, write : Document \cup {None}, next : Label]

MayBeAt(a, l) ==
    /\ a \in Client => l \in {"idle", "save", "start", "startSave", "ensure", "render", "renderSave", "ensureRender"}
    /\ a = Driver => l \in {"idle", "sync", "start", "startSave", "syncSave", "reread", "finish", "ending"}
    /\ a \in Kind => l \in {"idle", "render", "renderSave", "check", "ending"}
    /\ a = Renderer => l \in {"idle", "renderSave"}

\* Where actor a goes on after the save at step l.
GoesOnAt(a, l, n) ==
    /\ l = "save" => n \in {"start", "idle", "render"}
    /\ l = "startSave" => n = AfterStart(a)
    /\ l = "syncSave" => n = "reread"
    /\ l = "finish" => n = "ending"
    /\ l = "renderSave" => n = (IF a = Renderer THEN "idle" ELSE NextStep(a))

ActorsArePlaced ==
    \A a \in Actor :
        /\ MayBeAt(a, pc[a])
        /\ pc[a] \in LockedAt => lock = a
        /\ pc[a] \in SavingAt => copy[a] \in Copies /\ GoesOnAt(a, pc[a], copy[a].next)
        /\ pc[a] \notin SavingAt => copy[a] = None

JobStatus == {"running", "completed", "failed", "gone"}
JobRecord == [item : Item, status : JobStatus, workers : Nat, plain : BOOLEAN]

BatchTypes ==
    /\ stored \in Document \cup {None}
    /\ jobs \in Seq(JobRecord)
    /\ attached \subseteq DOMAIN jobs
    /\ lapses \subseteq {"overwritten", "missed"}
    /\ threads \in [Kind -> [Item -> Nat]] /\ died \subseteq Kind \X Item

Placed == BatchTypes /\ RenderTypeOK /\ ActorsArePlaced

\* Actor a takes the lock, keeps it or gives it back, and goes to l.
UsesLock(a, l) ==
    \/ lock' = lock /\ (l \in LockedAt => lock = a)
    \/ lock = None /\ lock' = a
    \/ lock = a /\ lock' = None /\ l \notin LockedAt

LEMMA ActorsDiffer ==
  /\ None \notin Actor /\ Driver \in Actor /\ Renderer \in Actor
  /\ \A c \in Client : c \in Actor /\ c # Driver /\ c # Renderer /\ c \notin Kind
  /\ \A k \in Kind : k \in Actor /\ k # Driver /\ k # Renderer
  /\ Driver # Renderer
  /\ \A a \in Actor : a \in Client \/ a = Driver \/ a \in Kind \/ a = Renderer
  BY BatchAssumption, RenderAssumption DEF Actor

\* Actor a goes to l, with m in hand; the others stay as they are.
LEMMA StepIsPlaced ==
  ASSUME Placed, NEW a \in Actor, NEW l \in Label, NEW m,
         pc' = [pc EXCEPT ![a] = l], copy' = [copy EXCEPT ![a] = m],
         MayBeAt(a, l), UsesLock(a, l),
         l \in SavingAt => m \in Copies /\ GoesOnAt(a, l, m.next),
         l \notin SavingAt => m = None
  PROVE  ActorsArePlaced' /\ lock' \in Actor \cup {None} /\ pc' \in [Actor -> Label]
         /\ copy' \in [Actor -> Copies \cup {None}]
<1>1. pc \in [Actor -> Label] /\ copy \in [Actor -> Copies \cup {None}] /\ lock \in Actor \cup {None}
  BY DEF Placed, RenderTypeOK, TypeOK, Copies
<1>2. m \in Copies \cup {None}
  OBVIOUS
<1>3. \A b \in Actor : pc'[b] = (IF b = a THEN l ELSE pc[b]) /\ copy'[b] = (IF b = a THEN m ELSE copy[b])
  BY <1>1
<1>4. pc' \in [Actor -> Label] /\ copy' \in [Actor -> Copies \cup {None}]
  BY <1>1, <1>2
<1>5. lock' \in Actor \cup {None}
  BY <1>1 DEF UsesLock
<1>6. ASSUME NEW b \in Actor
      PROVE  /\ MayBeAt(b, pc'[b])
             /\ pc'[b] \in LockedAt => lock' = b
             /\ pc'[b] \in SavingAt => copy'[b] \in Copies /\ GoesOnAt(b, pc'[b], copy'[b].next)
             /\ pc'[b] \notin SavingAt => copy'[b] = None
  <2>1. CASE b = a
    BY <1>3, <2>1 DEF UsesLock
  <2>2. CASE b # a
    <3>1. /\ MayBeAt(b, pc[b])
          /\ pc[b] \in LockedAt => lock = b
          /\ pc[b] \in SavingAt => copy[b] \in Copies /\ GoesOnAt(b, pc[b], copy[b].next)
          /\ pc[b] \notin SavingAt => copy[b] = None
      BY DEF Placed, ActorsArePlaced
    <3>2. pc'[b] = pc[b] /\ copy'[b] = copy[b]
      BY <1>3, <2>2
    <3>3. lock = b => lock' = b
      BY <2>2, ActorsDiffer DEF UsesLock
    <3> HIDE DEF MayBeAt, GoesOnAt
    <3> QED
      BY <3>1, <3>2, <3>3
  <2> QED
    BY <2>1, <2>2
<1>7. ActorsArePlaced'
  BY <1>6 DEF ActorsArePlaced, MayBeAt, GoesOnAt, AfterStart, NextStep
<1> QED
  BY <1>4, <1>5, <1>7

\* Actor a saves.
Saves(a) ==
    /\ pc[a] \in SavingAt
    /\ stored' = copy[a].write /\ lapses' = lapses \cup Blame(a)
    /\ pc' = [pc EXCEPT ![a] = copy[a].next] /\ copy' = [copy EXCEPT ![a] = None]
    /\ lock' = (IF pc[a] \in {"startSave", "renderSave"} THEN None ELSE lock)
    /\ UNCHANGED <<jobs, attached, bounds, died, wanted>>
    /\ threads' = IF pc[a] = "renderSave" /\ a # Renderer
                  THEN [k \in Kind |-> [i \in Item |->
                          IF copy[a].read.items[i].render[k] = "queued" /\ copy[a].write.items[i].render[k] = "running"
                          THEN threads[k][i] + 1 ELSE threads[k][i]]]
                  ELSE threads

\* Actor a has read the document, makes w of it, to save it at l and go on at n.
Keeps(a, w, l, n) ==
    /\ pc[a] \notin SavingAt /\ l \in SavingAt
    /\ stored \in Document /\ w \in Document \cup {None}
    /\ MayBeAt(a, l) /\ GoesOnAt(a, l, n)
    /\ pc' = [pc EXCEPT ![a] = l]
    /\ copy' = [copy EXCEPT ![a] = [read |-> stored, write |-> w, next |-> n]]
    /\ UsesLock(a, l)
    /\ pc[a] \in {"start", "ensure"} => l = "startSave"
    /\ UNCHANGED <<stored, restarts, lapses>>

LEMMA SaveIsPlaced ==
  ASSUME Placed, NEW a \in Actor, Saves(a)
  PROVE  /\ ActorsArePlaced' /\ lock' \in Actor \cup {None} /\ pc' \in [Actor -> Label]
         /\ copy' \in [Actor -> Copies \cup {None}]
         /\ stored' \in Document \cup {None}
<1>1. /\ MayBeAt(a, pc[a]) /\ (pc[a] \in LockedAt => lock = a)
      /\ copy[a] \in Copies /\ GoesOnAt(a, pc[a], copy[a].next)
  BY DEF Placed, ActorsArePlaced, Saves
<1>2. copy[a].next \in Label /\ copy[a].write \in Document \cup {None}
  BY <1>1 DEF Copies
<1>3. MayBeAt(a, copy[a].next) /\ copy[a].next \notin SavingAt
  BY <1>1, ActorsDiffer DEF MayBeAt, GoesOnAt, AfterStart, NextStep, SavingAt, Saves
<1>4. UsesLock(a, copy[a].next)
  <2>1. CASE pc[a] \in {"startSave", "renderSave"}
    <3>1. lock = a /\ lock' = None /\ copy[a].next \notin LockedAt
      BY <1>1, <2>1 DEF LockedAt, GoesOnAt, AfterStart, NextStep, Saves
    <3> QED
      BY <3>1 DEF UsesLock
  <2>2. CASE pc[a] \notin {"startSave", "renderSave"}
    <3>1. lock' = lock /\ (copy[a].next \in LockedAt => lock = a)
      BY <1>1, <2>2 DEF LockedAt, SavingAt, GoesOnAt, AfterStart, NextStep, Saves
    <3> QED
      BY <3>1 DEF UsesLock
  <2> QED
    BY <2>1, <2>2
<1> QED
  BY <1>2, <1>3, <1>4, StepIsPlaced DEF Saves

LEMMA KeepIsPlaced ==
  ASSUME Placed, NEW a \in Actor, NEW w, NEW l, NEW n, Keeps(a, w, l, n)
  PROVE  /\ ActorsArePlaced' /\ lock' \in Actor \cup {None} /\ pc' \in [Actor -> Label]
         /\ copy' \in [Actor -> Copies \cup {None}]
         /\ stored' \in Document \cup {None}
<1> DEFINE m == [read |-> stored, write |-> w, next |-> n]
<1>1. l \in SavingAt /\ GoesOnAt(a, l, n) /\ l \in Label
  BY DEF Keeps, SavingAt, Label
<1>2. n \in Label
  BY <1>1 DEF GoesOnAt, SavingAt, AfterStart, NextStep, Label
<1>3. m \in Copies /\ m.next = n
  BY <1>2 DEF Keeps, Copies
<1>4. copy' = [copy EXCEPT ![a] = m] /\ pc' = [pc EXCEPT ![a] = l] /\ UsesLock(a, l) /\ MayBeAt(a, l)
  BY DEF Keeps
<1> HIDE DEF m
<1>5. /\ ActorsArePlaced' /\ lock' \in Actor \cup {None} /\ pc' \in [Actor -> Label]
      /\ copy' \in [Actor -> Copies \cup {None}]
  BY <1>1, <1>3, <1>4, StepIsPlaced
<1> QED
  BY <1>5 DEF Keeps

-----------------------------------------------------------------------------
(* Counting items: Before numbers the items of a set from 0                 *)

LEMMA ItemsAreNumbers == Item \subseteq Int
  BY BatchAssumption DEF Item

LEMMA SetsOfItems ==
  ASSUME NEW S, S \subseteq Item
  PROVE  IsFiniteSet(S) /\ Cardinality(S) \in Nat
<1>1. IsFiniteSet(Item)
  BY FS_Interval, BatchAssumption DEF Item
<1> QED
  BY <1>1, FS_Subset, FS_CardinalityType

LEMMA BeforeType ==
  ASSUME NEW S, S \subseteq Item, NEW i \in Item
  PROVE  Before(i, S) \in Nat
<1>1. {k \in S : k < i} \subseteq Item
  OBVIOUS
<1> QED
  BY <1>1, SetsOfItems DEF Before

LEMMA BeforeGrows ==
  ASSUME NEW S, S \subseteq Item, NEW i \in S, NEW k \in S, i < k
  PROVE  Before(i, S) < Before(k, S)
<1> DEFINE A == {m \in S : m < i}
           B == {m \in S : m < k}
<1>1. A \subseteq B /\ i \in B /\ i \notin A
  <2>1. i \in Int /\ k \in Int /\ \A m \in S : m \in Int
    BY ItemsAreNumbers
  <2>2. \A m \in S : m < i => m < k
    BY <2>1
  <2>3. i \in B
    OBVIOUS
  <2>4. ~(i < i)
    BY <2>1
  <2> QED
    BY <2>2, <2>3, <2>4
<1>2. IsFiniteSet(B) /\ Cardinality(A) \in Nat /\ Cardinality(B) \in Nat
  <2>1. A \subseteq Item /\ B \subseteq Item
    OBVIOUS
  <2> HIDE DEF A, B
  <2> QED
    BY <2>1, SetsOfItems
<1>3. Before(i, S) = Cardinality(A) /\ Before(k, S) = Cardinality(B)
  BY DEF Before
<1> HIDE DEF A, B
<1>4. Cardinality(A) <= Cardinality(B) /\ (Cardinality(B) = Cardinality(A) => B = A)
  BY <1>1, <1>2, FS_Subset
<1> QED
  BY <1>1, <1>2, <1>3, <1>4

LEMMA BeforeNumbers ==
  ASSUME NEW S, S \subseteq Item, NEW i \in S
  PROVE  /\ Before(i, S) \in 0 .. Cardinality(S) - 1
         /\ \A k \in S : Before(i, S) = Before(k, S) => i = k
<1> DEFINE A == {m \in S : m < i}
<1>1. A \subseteq S /\ i \notin A
  BY ItemsAreNumbers
<1>2. IsFiniteSet(S) /\ Cardinality(S) \in Nat
  BY SetsOfItems
<1>3. Before(i, S) = Cardinality(A) /\ Before(i, S) \in Nat
  BY BeforeType DEF Before
<1> HIDE DEF A
<1>4. Cardinality(A) <= Cardinality(S) /\ (Cardinality(S) = Cardinality(A) => S = A)
  BY <1>1, <1>2, FS_Subset
<1>5. Before(i, S) \in 0 .. Cardinality(S) - 1
  BY <1>1, <1>2, <1>3, <1>4
<1>6. ASSUME NEW k \in S, Before(i, S) = Before(k, S) PROVE i = k
  <2>1. i \in Int /\ k \in Int
    BY ItemsAreNumbers
  <2>2. Before(i, S) \in Nat /\ Before(k, S) \in Nat
    BY BeforeType
  <2>3. ~(i < k) /\ ~(k < i)
    BY <1>6, <2>2, BeforeGrows
  <2> QED
    BY <2>1, <2>3
<1> QED
  BY <1>5, <1>6

\* Every number below the size of the set is the number of one of its items.
LEMMA BeforeIsOnto ==
  ASSUME NEW S, S \subseteq Item, NEW n \in 0 .. Cardinality(S) - 1
  PROVE  \E i \in S : Before(i, S) = n
<1> DEFINE T == 0 .. Cardinality(S) - 1
           f == [i \in S |-> Before(i, S)]
<1>1. Cardinality(S) \in Nat
  BY SetsOfItems
<1>2. f \in Injection(S, T)
  BY BeforeNumbers DEF Injection, IsInjective
<1>3. IsFiniteSet(T) /\ Cardinality(T) = Cardinality(S)
  BY <1>1, FS_Interval
<1> HIDE DEF T
<1>4. f \in Surjection(S, T)
  <2> HIDE DEF f
  <2> QED
    BY <1>2, <1>3, FS_Injection
<1>5. n \in T
  BY DEF T
<1>6. \E i \in S : f[i] = n
  BY <1>4, <1>5 DEF Surjection
<1> QED
  BY <1>6

\* Of the items that come with a number below n there are at most n.
LEMMA FewComeFirst ==
  ASSUME NEW S, S \subseteq Item, NEW n \in Nat,
         NEW F \in SUBSET S, \A i \in F : Before(i, S) < n
  PROVE  Cardinality(F) <= n
<1> DEFINE T == 0 .. n - 1
           f == [i \in F |-> Before(i, S)]
<1>1. f \in Injection(F, T)
  BY BeforeNumbers DEF Injection, IsInjective
<1>2. IsFiniteSet(T) /\ Cardinality(T) = n
  BY FS_Interval
<1> HIDE DEF f, T
<1> QED
  BY <1>1, <1>2, FS_Injection

-----------------------------------------------------------------------------
(* The items that a call of _start_available_items starts, when create_job  *)
(* raises for those in bad                                                  *)

ReachedOf(bad) == {i \in In(stored, "queued") : Before(i, In(stored, "queued") \ bad) < Slots}
StartedOf(bad) == ReachedOf(bad) \ bad
JobOf(bad, i) == Len(jobs) + Before(i, StartedOf(bad)) + 1

WithJobs(bad) ==
    [stored EXCEPT !.items = [i \in Item |->
        CASE i \in StartedOf(bad) ->
               [stored.items[i] EXCEPT !.status = "running", !.job = JobOf(bad, i)]
          [] i \in ReachedOf(bad) \cap bad -> [stored.items[i] EXCEPT !.status = "failed"]
          [] OTHER -> stored.items[i]]]

JobsWith(bad) ==
    [j \in 1 .. Len(jobs) + Cardinality(StartedOf(bad)) |->
        IF j <= Len(jobs) THEN jobs[j]
        ELSE [item    |-> CHOOSE i \in StartedOf(bad) : JobOf(bad, i) = j, status |-> "running",
              workers |-> 1, plain |-> TRUE]]

LEMMA StartsItems ==
  ASSUME NEW a, StartItems(a)
  PROVE  \E bad \in SUBSET In(stored, "queued") :
           /\ bad \subseteq ReachedOf(bad)
           /\ Keep(a, stored, WithJobs(bad), AfterStart(a))
           /\ jobs' = JobsWith(bad)
<1>1. PICK bad \in SUBSET In(stored, "queued") :
           /\ bad \subseteq ReachedOf(bad)
           /\ Keep(a, stored, WithJobs(bad), AfterStart(a))
           /\ jobs' = JobsWith(bad)
  BY DEF StartItems, ReachedOf, StartedOf, JobOf, WithJobs, JobsWith
<1> QED
  BY <1>1

LEMMA StartedAreQueued ==
  ASSUME NEW bad \in SUBSET In(stored, "queued")
  PROVE  /\ StartedOf(bad) \subseteq In(stored, "queued") /\ ReachedOf(bad) \subseteq In(stored, "queued")
         /\ StartedOf(bad) \subseteq Item
         /\ IsFiniteSet(StartedOf(bad)) /\ Cardinality(StartedOf(bad)) \in Nat
<1>1. StartedOf(bad) \subseteq In(stored, "queued") /\ StartedOf(bad) \subseteq Item
  BY DEF StartedOf, ReachedOf, In
<1>2. ReachedOf(bad) \subseteq In(stored, "queued")
  BY DEF ReachedOf
<1> QED
  BY <1>1, <1>2, SetsOfItems

LEMMA StartedDocument ==
  ASSUME Placed, stored \in Document, NEW bad \in SUBSET In(stored, "queued")
  PROVE  LET w == WithJobs(bad)
         IN  /\ w \in Document /\ w.status = stored.status
             /\ \A i \in Item :
                  LET m == stored.items[i]
                      n == w.items[i]
                  IN  /\ n.version = m.version /\ n.render = m.render
                      /\ i \in StartedOf(bad) => n.status = "running" /\ n.job = JobOf(bad, i)
                      /\ i \notin StartedOf(bad) =>
                           n.job = m.job /\ (n = m \/ (n.status = "failed" /\ m.status = "queued"))
<1> DEFINE run(i) == [stored.items[i] EXCEPT !.status = "running", !.job = JobOf(bad, i)]
           f == [i \in Item |->
                  CASE i \in StartedOf(bad) -> run(i)
                    [] i \in ReachedOf(bad) \cap bad -> [stored.items[i] EXCEPT !.status = "failed"]
                    [] OTHER -> stored.items[i]]
<1>1. ASSUME NEW i \in Item
      PROVE  LET m == stored.items[i]
             IN  /\ f[i] \in BatchItem /\ f[i].version = m.version /\ f[i].render = m.render
                 /\ i \in StartedOf(bad) => f[i].status = "running" /\ f[i].job = JobOf(bad, i)
                 /\ i \notin StartedOf(bad) =>
                      f[i].job = m.job /\ (f[i] = m \/ (f[i].status = "failed" /\ m.status = "queued"))
  <2>1. stored.items[i] \in BatchItem
    BY DocumentParts
  <2> DEFINE m == stored.items[i]
  <2>2. CASE i \in StartedOf(bad)
    <3>1. f[i] = [m EXCEPT !.status = "running", !.job = JobOf(bad, i)]
      <4>1. run(i) = [m EXCEPT !.status = "running", !.job = JobOf(bad, i)]
        OBVIOUS
      <4> HIDE DEF run
      <4>2. i \notin ReachedOf(bad) \cap bad
        BY <2>2 DEF StartedOf
      <4>3. f[i] = run(i)
        BY <2>2, <4>2
      <4> QED
        BY <4>1, <4>3
    <3>2. Before(i, StartedOf(bad)) \in Nat /\ Len(jobs) \in Nat
      BY StartedAreQueued, BeforeType DEF Placed, BatchTypes
    <3>3. JobOf(bad, i) \in Nat
      BY <3>2 DEF JobOf
    <3> HIDE DEF f, m
    <3> QED
      BY <2>1, <2>2, <3>1, <3>3 DEF BatchItem, m
  <2>3. CASE i \notin StartedOf(bad) /\ i \in ReachedOf(bad) \cap bad
    <3>1. f[i] = [m EXCEPT !.status = "failed"]
      BY <2>3
    <3>2. m.status = "queued"
      BY <2>3, StartedAreQueued DEF In
    <3> HIDE DEF f, m
    <3> QED
      BY <2>1, <2>3, <3>1, <3>2 DEF BatchItem, m
  <2>4. CASE i \notin StartedOf(bad) /\ i \notin ReachedOf(bad) \cap bad
    <3>1. f[i] = m
      BY <2>4
    <3> QED
      BY <2>1, <2>4, <3>1
  <2> QED
    BY <2>2, <2>3, <2>4
<1>2. f \in [Item -> BatchItem]
  BY <1>1
<1>3. WithJobs(bad) = [stored EXCEPT !.items = f]
  BY DEF WithJobs
<1> HIDE DEF f
<1>4. WithJobs(bad) \in Document /\ WithJobs(bad).status = stored.status /\ WithJobs(bad).items = f
  BY <1>2, <1>3, WithItems
<1> QED
  BY <1>1, <1>4

\* The jobs that are created continue the list, each for an item of its own.
LEMMA StartedJobs ==
  ASSUME Placed, stored \in Document, NEW bad \in SUBSET In(stored, "queued")
  PROVE  /\ JobsWith(bad) \in Seq(JobRecord)
         /\ Len(JobsWith(bad)) = Len(jobs) + Cardinality(StartedOf(bad))
         /\ \A j \in DOMAIN jobs : j \in DOMAIN JobsWith(bad) /\ JobsWith(bad)[j] = jobs[j]
         /\ \A j \in DOMAIN JobsWith(bad) : j \notin DOMAIN jobs =>
              /\ JobsWith(bad)[j].status = "running"
              /\ JobsWith(bad)[j].item \in StartedOf(bad) /\ JobOf(bad, JobsWith(bad)[j].item) = j
         /\ \A i \in StartedOf(bad) :
              /\ JobOf(bad, i) \in DOMAIN JobsWith(bad) \ DOMAIN jobs
              /\ JobsWith(bad)[JobOf(bad, i)].item = i
<1> DEFINE S == StartedOf(bad)
           J == JobsWith(bad)
           N == Len(jobs)
           C == Cardinality(S)
<1>1. /\ S \subseteq Item /\ C \in Nat
  BY StartedAreQueued
<1>2. N \in Nat /\ DOMAIN jobs = 1 .. N /\ \A j \in DOMAIN jobs : jobs[j] \in JobRecord
  <2>1. jobs \in Seq(JobRecord)
    BY DEF Placed, BatchTypes
  <2> QED
    BY <2>1
<1>3. DOMAIN J = 1 .. N + C
  BY DEF JobsWith
<1>4. \A j \in 1 .. N : J[j] = jobs[j]
  BY <1>1, <1>2 DEF JobsWith
<1>5. ASSUME NEW j \in N + 1 .. N + C
      PROVE  J[j].status = "running" /\ J[j].item \in S /\ JobOf(bad, J[j].item) = j
             /\ J[j] \in JobRecord
  <2>1. j - N - 1 \in 0 .. C - 1
    BY <1>1, <1>2
  <2>2. \E i \in S : Before(i, S) = j - N - 1
    BY <1>1, <2>1, BeforeIsOnto
  <2>3. \E i \in S : JobOf(bad, i) = j
    BY <1>2, <2>2 DEF JobOf
  <2> DEFINE x == CHOOSE i \in StartedOf(bad) : JobOf(bad, i) = j
  <2>4. x \in S /\ JobOf(bad, x) = j
    BY <2>3
  <2>5. J[j] = [item |-> x, status |-> "running", workers |-> 1, plain |-> TRUE]
    <3>1. j \in 1 .. N + C /\ ~(j <= N)
      BY <1>1, <1>2
    <3> QED
      BY <3>1 DEF JobsWith
  <2> HIDE DEF x, J, S
  <2> QED
    BY <1>1, <2>4, <2>5 DEF JobRecord, JobStatus
<1> HIDE DEF J
<1>6. J \in Seq(JobRecord) /\ Len(J) = N + C
  <2>1. \A j \in 1 .. N + C : J[j] \in JobRecord
    <3>1. \A j \in 1 .. N + C : j \in 1 .. N \/ j \in N + 1 .. N + C
      BY <1>1, <1>2
    <3> QED
      BY <1>2, <1>4, <1>5, <3>1
  <2>2. J = [j \in 1 .. N + C |-> J[j]]
    BY DEF J, JobsWith
  <2>3. J \in [1 .. N + C -> JobRecord]
    BY <2>1, <2>2
  <2>4. N + C \in Nat
    BY <1>1, <1>2
  <2>5. J \in Seq(JobRecord)
    BY <2>3, <2>4, SeqDef
  <2> HIDE DEF S, N, C
  <2> QED
    BY <1>3, <2>4, <2>5
<1>7. \A j \in DOMAIN jobs : j \in DOMAIN J /\ J[j] = jobs[j]
  BY <1>1, <1>2, <1>3, <1>4
<1>8. \A j \in DOMAIN J : j \notin DOMAIN jobs =>
        J[j].status = "running" /\ J[j].item \in S /\ JobOf(bad, J[j].item) = j
  BY <1>1, <1>2, <1>3, <1>5
<1>9. ASSUME NEW i \in S PROVE JobOf(bad, i) \in DOMAIN J \ DOMAIN jobs /\ J[JobOf(bad, i)].item = i
  <2>1. Before(i, S) \in 0 .. C - 1
    BY <1>1, BeforeNumbers
  <2>2. JobOf(bad, i) = N + Before(i, S) + 1
    BY DEF JobOf
  <2>3. JobOf(bad, i) \in N + 1 .. N + C
    BY <1>1, <1>2, <2>1, <2>2
  <2>4. JobOf(bad, i) \in DOMAIN J \ DOMAIN jobs
    BY <1>1, <1>2, <1>3, <2>3
  <2> DEFINE x == J[JobOf(bad, i)].item
  <2>5. x \in S /\ JobOf(bad, x) = JobOf(bad, i)
    BY <1>8, <2>4
  <2>6. Before(x, S) \in 0 .. C - 1 /\ JobOf(bad, x) = N + Before(x, S) + 1
    BY <1>1, <2>5, BeforeNumbers DEF JobOf
  <2>7. Before(x, S) = Before(i, S)
    BY <1>1, <1>2, <2>1, <2>2, <2>5, <2>6
  <2>8. x = i
    BY <1>1, <2>5, <2>7, BeforeNumbers
  <2> QED
    BY <2>4, <2>8
<1> QED
  BY <1>6, <1>7, <1>8, <1>9 DEF J

-----------------------------------------------------------------------------
(* Which steps save a document and which make one                           *)

LEMMA ClientSaves ==
  ASSUME Placed, NEW c \in Client, Save(c), Alone
  PROVE  Saves(c)
  BY DEF Save, Store, GoTo, Forget, Saves, SavingAt, Alone, bounds

LEMMA StartIsSaved ==
  ASSUME Placed, NEW a \in Actor, SaveStarted(a), Alone
  PROVE  Saves(a)
  BY DEF SaveStarted, Store, GoTo, Forget, Saves, SavingAt, Alone, bounds

LEMMA SyncIsSaved ==
  ASSUME Placed, SaveSynced, Alone
  PROVE  Saves(Driver)
  BY DEF SaveSynced, Store, GoTo, Forget, Saves, SavingAt, Alone, bounds

LEMMA FinishIsSaved ==
  ASSUME Placed, Finish, Alone
  PROVE  Saves(Driver)
  BY DEF Finish, Store, GoTo, Forget, Saves, SavingAt, Alone, bounds

LEMMA RenderingIsSaved ==
  ASSUME Placed, NEW a \in Actor, SaveRendering(a)
  PROVE  Saves(a)
  BY DEF SaveRendering, Store, GoTo, Forget, Saves, SavingAt, bounds

LEMMA ResultIsSaved ==
  ASSUME Placed, SaveRendered
  PROVE  Saves(Renderer)
  BY DEF SaveRendered, Store, GoTo, Forget, Saves, SavingAt, bounds

LEMMA HandleKeeps ==
  ASSUME Placed, NEW c \in Client, NEW o \in Request, Handle(c, o)
  PROVE  /\ Keeps(c, Changed(o, stored), "save", IF o \in {"launch", "resume", "retry"} THEN "start" ELSE "idle")
         /\ Accepts(o, stored)
         /\ UNCHANGED <<jobs, attached>>
<1>1. stored \in Document
  BY DEF Placed, BatchTypes, Handle
<1>2. Changed(o, stored) \in Document \cup {None}
  <2>1. CASE o = "retry"
    BY <1>1, <2>1, RetriedDocument
  <2>2. CASE o = "delete"
    BY <2>2 DEF Changed
  <2>3. CASE o \in {"launch", "resume", "pause", "hide"}
    BY <1>1, <2>3, ChangedDocument
  <2> QED
    BY <2>1, <2>2, <2>3 DEF Request
<1>3. MayBeAt(c, "save")
  BY ActorsDiffer DEF MayBeAt
<1>4. \A x \in BOOLEAN : GoesOnAt(c, "save", IF x THEN "start" ELSE "idle")
  BY DEF GoesOnAt
<1>5. UsesLock(c, "save")
  BY DEF UsesLock, Handle, LockedAt
<1> QED
  BY <1>1, <1>2, <1>3, <1>4, <1>5 DEF Handle, Keep, GoTo, Keeps, SavingAt, shared

LEMMA RequestRenderKeeps ==
  ASSUME Placed, NEW c \in Client, NEW k \in Kind, NEW f \in BOOLEAN, RequestRender(c, k, f)
  PROVE  /\ Keeps(c, WithRender(stored, k, Queued(stored, k, f)), "save", "render")
         /\ UNCHANGED <<jobs, attached>>
<1>1. stored \in Document
  BY DEF Placed, BatchTypes, RequestRender
<1>2. WithRender(stored, k, Queued(stored, k, f)) \in Document
  BY <1>1, QueuedType, RenderedDocument
<1>3. MayBeAt(c, "save") /\ GoesOnAt(c, "save", "render")
  BY ActorsDiffer DEF MayBeAt, GoesOnAt
<1>4. UsesLock(c, "save")
  BY DEF UsesLock, RequestRender, LockedAt
<1> QED
  BY <1>1, <1>2, <1>3, <1>4 DEF RequestRender, Keep, GoTo, Keeps, SavingAt, shared

LEMMA StartItemsKeeps ==
  ASSUME Placed, NEW a \in Client \cup {Driver}, StartItems(a)
  PROVE  /\ stored.status = "running" /\ Slots > 0 /\ pc[a] = "start" /\ lock = None
         /\ UNCHANGED attached
         /\ \E bad \in SUBSET In(stored, "queued") :
              /\ Keeps(a, WithJobs(bad), "startSave", AfterStart(a))
              /\ jobs' = JobsWith(bad)
<1>1. stored \in Document /\ stored.status = "running"
  BY DEF Placed, BatchTypes, StartItems, IsRunning
<1>2. PICK bad \in SUBSET In(stored, "queued") : Keep(a, stored, WithJobs(bad), AfterStart(a)) /\ jobs' = JobsWith(bad)
  BY StartsItems
<1>3. WithJobs(bad) \in Document
  BY <1>1, StartedDocument
<1>4. MayBeAt(a, "startSave") /\ GoesOnAt(a, "startSave", AfterStart(a))
  BY ActorsDiffer DEF MayBeAt, GoesOnAt
<1>5. UsesLock(a, "startSave")
  BY DEF UsesLock, StartItems
<1>6. Keeps(a, WithJobs(bad), "startSave", AfterStart(a))
  BY <1>1, <1>2, <1>3, <1>4, <1>5 DEF StartItems, Keep, GoTo, Keeps, SavingAt, bounds
<1> QED
  BY <1>1, <1>2, <1>6 DEF StartItems

LEMMA SyncKeeps ==
  ASSUME Placed, Sync
  PROVE  /\ Keeps(Driver, Synced(stored, Status), "syncSave", "reread")
         /\ UNCHANGED jobs
         /\ attached' = attached \cup Versions(Synced(stored, Status))
<1>1. stored \in Document
  BY DEF Placed, BatchTypes, Sync
<1>2. Synced(stored, Status) \in Document
  BY <1>1, SyncedDocument
<1>3. MayBeAt(Driver, "syncSave") /\ GoesOnAt(Driver, "syncSave", "reread")
  BY ActorsDiffer DEF MayBeAt, GoesOnAt
<1>4. UsesLock(Driver, "syncSave")
  BY DEF UsesLock, Sync
<1> QED
  BY <1>1, <1>2, <1>3, <1>4 DEF Sync, Keep, GoTo, Keeps, SavingAt, bounds

\* After a sync the driver decides to finish the batch, or goes on.
Finishes ==
    /\ Keeps(Driver, Finished(stored), "finish", "ending")
    /\ stored.status = "running" /\ Unfinished(stored) = {}
    /\ UNCHANGED <<jobs, attached>>

GoesOn ==
    /\ \E l \in {"sync", "start", "ending"} :
         /\ pc' = [pc EXCEPT ![Driver] = l]
         /\ l = "ending" => stored.status # "running"
    /\ copy' = [copy EXCEPT ![Driver] = None]
    /\ UNCHANGED <<shared, bounds, lapses>>

LEMMA JudgeSteps ==
  ASSUME Placed, SyncUnchanged \/ Reread
  PROVE  /\ stored \in Document /\ pc[Driver] \in {"sync", "reread"}
         /\ UsesLock(Driver, "sync") /\ again' \in BOOLEAN
         /\ Finishes \/ GoesOn
<1>1. stored \in Document /\ pc[Driver] \in {"sync", "reread"}
  BY DEF Placed, BatchTypes, SyncUnchanged, Reread
<1>2. /\ lock' = lock \/ (lock = Driver /\ lock' = None)
  BY ActorsDiffer DEF SyncUnchanged, Reread, Placed, ActorsArePlaced, LockedAt
<1>3. \A l \in {"sync", "finish"} : UsesLock(Driver, l)
  BY <1>2 DEF UsesLock, LockedAt
<1>4. Judge(stored) /\ UNCHANGED <<shared, bounds, lapses>>
  BY DEF SyncUnchanged, Reread
<1>5. again' \in BOOLEAN
  BY <1>4 DEF Judge, Placed, RenderTypeOK, TypeOK
<1>6. CASE pc' = [pc EXCEPT ![Driver] = "finish"] /\ Keep(Driver, stored, Finished(stored), "ending")
           /\ stored.status = "running" /\ Unfinished(stored) = {}
  <2>1. Finished(stored) \in Document
    BY <1>1, FinishedDocument
  <2>2. MayBeAt(Driver, "finish") /\ GoesOnAt(Driver, "finish", "ending")
    BY ActorsDiffer DEF MayBeAt, GoesOnAt
  <2>3. Keeps(Driver, Finished(stored), "finish", "ending")
    BY <1>1, <1>3, <1>4, <1>6, <2>1, <2>2 DEF Keeps, Keep, SavingAt, shared, bounds
  <2> QED
    BY <1>1, <1>3, <1>4, <1>5, <1>6, <2>3 DEF Finishes, shared
<1>7. CASE \E l \in {"sync", "start", "ending"} :
             /\ pc' = [pc EXCEPT ![Driver] = l] /\ Forget(Driver)
             /\ l = "ending" => stored.status # "running"
  <2>1. GoesOn
    BY <1>4, <1>7 DEF GoesOn, Forget
  <2> QED
    BY <1>1, <1>3, <1>5, <2>1
<1>8. \/ /\ pc' = [pc EXCEPT ![Driver] = "finish"] /\ Keep(Driver, stored, Finished(stored), "ending")
         /\ stored.status = "running" /\ Unfinished(stored) = {}
      \/ \E l \in {"sync", "start", "ending"} :
             /\ pc' = [pc EXCEPT ![Driver] = l] /\ Forget(Driver)
             /\ l = "ending" => stored.status # "running"
  <2>1. CASE again
    BY <1>4, <2>1 DEF Judge, GoTo
  <2>2. CASE ~again /\ stored.status = "paused" /\ In(stored, "running") # {}
    BY <1>4, <2>2 DEF Judge, GoTo
  <2>3. CASE ~again /\ stored.status = "running"
    BY <1>4, <2>3 DEF Judge, GoTo
  <2>4. CASE ~again /\ ~(stored.status = "paused" /\ In(stored, "running") # {}) /\ stored.status # "running"
    BY <1>4, <2>4 DEF Judge, GoTo
  <2>5. again \in BOOLEAN
    BY DEF Placed, RenderTypeOK, TypeOK
  <2> QED
    BY <2>1, <2>2, <2>3, <2>4, <2>5
<1> QED
  BY <1>1, <1>3, <1>5, <1>6, <1>7, <1>8

\* What _start_available_audio_items makes of the renderings of kind k.
Taken(k) ==
    LET queued  == Rendering(stored, k, {"queued"})
        good    == {i \in queued : stored.items[i].status = "completed"}
        reached == {i \in queued : Before(i, good) < Room(k)}
    IN  [i \in Item |-> CASE i \in reached \cap good -> "running"
                          [] i \in reached \ good -> "failed"
                          [] OTHER -> stored.items[i].render[k]]

LEMMA TakenItems ==
  ASSUME stored \in Document, NEW k \in Kind
  PROVE  /\ Taken(k) \in [Item -> RenderStatus]
         /\ \A i \in Item :
              \/ Taken(k)[i] = stored.items[i].render[k]
              \/ /\ Taken(k)[i] = "running"
                 /\ stored.items[i].render[k] = "queued" /\ stored.items[i].status = "completed"
              \/ Taken(k)[i] = "failed" /\ stored.items[i].render[k] = "queued"
<1> DEFINE queued  == Rendering(stored, k, {"queued"})
           good    == {i \in queued : stored.items[i].status = "completed"}
           reached == {i \in queued : Before(i, good) < Room(k)}
<1>1. \A i \in Item : Taken(k)[i] = CASE i \in reached \cap good -> "running"
                                      [] i \in reached \ good -> "failed"
                                      [] OTHER -> stored.items[i].render[k]
  BY DEF Taken
<1>2. \A i \in reached : stored.items[i].render[k] = "queued"
  BY DEF Rendering
<1>3. \A i \in good : stored.items[i].status = "completed"
  OBVIOUS
<1> HIDE DEF reached, good, queued
<1>4. ASSUME NEW i \in Item
      PROVE  \/ Taken(k)[i] = stored.items[i].render[k]
             \/ /\ Taken(k)[i] = "running"
                /\ stored.items[i].render[k] = "queued" /\ stored.items[i].status = "completed"
             \/ Taken(k)[i] = "failed" /\ stored.items[i].render[k] = "queued"
  <2>1. CASE i \in reached \cap good
    BY <1>1, <1>2, <1>3, <2>1
  <2>2. CASE i \in reached \ good
    BY <1>1, <1>2, <2>2
  <2>3. CASE i \notin reached
    BY <1>1, <2>3
  <2> QED
    BY <2>1, <2>2, <2>3
<1>5. \A i \in Item : stored.items[i].render[k] \in RenderStatus
  BY DocumentParts, ItemParts
<1>6. \A i \in Item : Taken(k)[i] \in RenderStatus
  BY <1>4, <1>5 DEF RenderStatus
<1>7. Taken(k) = [i \in Item |-> Taken(k)[i]]
  BY DEF Taken
<1> QED
  BY <1>4, <1>6, <1>7

LEMMA RenderItemsKeeps ==
  ASSUME Placed, NEW k \in Kind, NEW a \in Client \cup {k}, RenderItems(a, k)
  PROVE  /\ Keeps(a, WithRender(stored, k, Taken(k)), "renderSave", NextStep(a))
         /\ UNCHANGED <<jobs, attached, threads>> /\ lock = None /\ pc[a] = "render"
<1>1. stored \in Document
  BY DEF Placed, BatchTypes, RenderItems
<1>2. WithRender(stored, k, Taken(k)) \in Document
  BY <1>1, TakenItems, RenderedDocument
<1>3. MayBeAt(a, "renderSave") /\ GoesOnAt(a, "renderSave", NextStep(a))
  BY ActorsDiffer DEF MayBeAt, GoesOnAt
<1>4. UsesLock(a, "renderSave") /\ lock = None /\ pc[a] = "render"
  BY DEF UsesLock, RenderItems, AtStart
<1>5. Keep(a, stored, WithRender(stored, k, Taken(k)), NextStep(a))
  BY DEF RenderItems, Taken
<1> QED
  BY <1>1, <1>2, <1>3, <1>4, <1>5 DEF RenderItems, Keep, GoTo, Keeps, SavingAt, shared, bounds

LEMMA RenderedKeeps ==
  ASSUME Placed, NEW k \in Kind, NEW i \in Item, Rendered(k, i), stored # None
  PROVE  /\ \E s \in {"completed", "failed"} :
              Keeps(Renderer, [stored EXCEPT !.items[i].render[k] = s], "renderSave", "idle")
         /\ UNCHANGED <<jobs, attached>> /\ lock = None /\ lock' = Renderer
<1>1. stored \in Document /\ lock = None
  BY DEF Placed, BatchTypes, Rendered
<1>2. PICK s \in {"completed", "failed"} : Keep(Renderer, stored, [stored EXCEPT !.items[i].render[k] = s], "idle")
  BY DEF Rendered
<1>3. [stored EXCEPT !.items[i].render[k] = s] \in Document
  BY <1>1, OneRendered DEF RenderStatus
<1>4. MayBeAt(Renderer, "renderSave") /\ GoesOnAt(Renderer, "renderSave", "idle")
  BY ActorsDiffer DEF MayBeAt, GoesOnAt
<1>5. UsesLock(Renderer, "renderSave")
  BY DEF UsesLock, Rendered
<1>6. pc[Renderer] \notin SavingAt /\ pc[Renderer] = "idle"
  BY <1>1, ActorsDiffer DEF Placed, ActorsArePlaced, MayBeAt, SavingAt, LockedAt
<1> QED
  BY <1>1, <1>2, <1>3, <1>4, <1>5, <1>6 DEF Rendered, Keep, GoTo, Keeps, SavingAt, shared, bounds

-----------------------------------------------------------------------------
(* What is true of every document: of the stored one, and of those that are *)
(* read and not yet saved                                                   *)

\* With jobs js and versions at, an item tells the truth about its job, as long as
\* that is plain, and about its version.
TruthfulItem(i, m, js, at) ==
    /\ m.job # 0 => m.job \in DOMAIN js /\ js[m.job].item = i
    /\ m.status = "queued" => m.job = 0
    /\ m.status \in {"running", "completed"} => m.job # 0
    /\ m.status = "completed" /\ js[m.job].plain => js[m.job].status \in {"completed", "gone"}
    /\ m.status = "failed" /\ m.job # 0 /\ js[m.job].plain => js[m.job].status \in {"failed", "gone"}
    /\ m.version # 0 => m.version = m.job /\ m.status = "completed" /\ m.version \in at

Truthful(d, js, at) == d # None => \A i \in Item : TruthfulItem(i, d.items[i], js, at)

VersionsAreMade(js, at) == \A j \in at : js[j].plain => js[j].status \in {"completed", "gone"}

DocumentsAreTruthful ==
    /\ Truthful(stored, jobs, attached)
    /\ \A a \in Actor : pc[a] \in SavingAt =>
         Truthful(Reads(a), jobs, attached) /\ Truthful(Writes(a), jobs, attached)
    /\ VersionsAreMade(jobs, attached)

\* Plain jobs only go on, to their end.
Advance(js, js2) ==
    \A j \in DOMAIN js :
        /\ j \in DOMAIN js2 /\ js2[j].item = js[j].item
        /\ js2[j].plain => js[j].plain /\ (js[j].status = "running" \/ js2[j].status = js[j].status)

LEMMA TruthLasts ==
  ASSUME NEW js, NEW at, NEW js2, NEW at2, Advance(js, js2), at \subseteq at2,
         NEW d, Truthful(d, js, at)
  PROVE  Truthful(d, js2, at2)
<1> SUFFICES ASSUME d # None, NEW i \in Item PROVE TruthfulItem(i, d.items[i], js2, at2)
  BY DEF Truthful
<1> DEFINE m == d.items[i]
<1>1. TruthfulItem(i, m, js, at)
  BY DEF Truthful
<1>2. m.job # 0 => /\ m.job \in DOMAIN js /\ m.job \in DOMAIN js2 /\ js2[m.job].item = js[m.job].item
                   /\ js2[m.job].plain =>
                        js[m.job].plain /\ (js[m.job].status = "running" \/ js2[m.job].status = js[m.job].status)
  BY <1>1 DEF TruthfulItem, Advance
<1> HIDE DEF m
<1>3. TruthfulItem(i, m, js2, at2)
  BY <1>1, <1>2 DEF TruthfulItem
<1> QED
  BY <1>3 DEF m

LEMMA JobParts ==
  ASSUME NEW js \in Seq(JobRecord), NEW j \in DOMAIN js
  PROVE  js[j].item \in Item /\ js[j].status \in JobStatus /\ js[j].plain \in BOOLEAN
<1>1. js[j] \in JobRecord
  OBVIOUS
<1> QED
  BY <1>1 DEF JobRecord

LEMMA JobWith ==
  ASSUME NEW r \in JobRecord, NEW s \in JobStatus, NEW n \in Nat, NEW c,
         c = [r EXCEPT !.status = s, !.workers = n]
  PROVE  c \in JobRecord /\ c.item = r.item /\ c.status = s /\ c.plain = r.plain
  BY Zenon DEF JobRecord

LEMMA JobWithPlain ==
  ASSUME NEW r \in JobRecord, NEW s \in JobStatus, NEW n \in Nat, NEW p \in BOOLEAN, NEW c,
         c = [r EXCEPT !.status = s, !.workers = n, !.plain = p]
  PROVE  c \in JobRecord /\ c.item = r.item /\ c.status = s /\ c.plain = p
  BY Zenon DEF JobRecord

LEMMA JobsStay == Advance(jobs, jobs)
  BY DEF Advance

LEMMA TruthStep ==
  ASSUME DocumentsAreTruthful, Advance(jobs, jobs'), attached \subseteq attached',
         VersionsAreMade(jobs', attached'), Truthful(stored', jobs', attached'),
         \A a \in Actor : pc'[a] \in SavingAt =>
            \/ pc[a] \in SavingAt /\ copy'[a] = copy[a]
            \/ /\ Truthful(copy'[a].read, jobs', attached')
               /\ Truthful(copy'[a].write, jobs', attached')
  PROVE  DocumentsAreTruthful'
<1>1. ASSUME NEW a \in Actor, pc'[a] \in SavingAt
      PROVE  Truthful(copy'[a].read, jobs', attached') /\ Truthful(copy'[a].write, jobs', attached')
  <2>1. CASE pc[a] \in SavingAt /\ copy'[a] = copy[a]
    <3>1. Truthful(copy[a].read, jobs, attached) /\ Truthful(copy[a].write, jobs, attached)
      BY <2>1 DEF DocumentsAreTruthful, Reads, Writes
    <3>2. Truthful(copy[a].read, jobs', attached') /\ Truthful(copy[a].write, jobs', attached')
      BY <3>1, TruthLasts
    <3> QED
      BY <2>1, <3>2
  <2> QED
    BY <1>1, <2>1
<1> QED
  BY <1>1 DEF DocumentsAreTruthful, Reads, Writes

\* A document whose items have the same status, job and version is as true.
LEMMA TruthOfSame ==
  ASSUME NEW js, NEW at, NEW d \in Document, NEW w \in Document, Truthful(d, js, at),
         \A i \in Item : /\ w.items[i].status = d.items[i].status
                         /\ w.items[i].job = d.items[i].job /\ w.items[i].version = d.items[i].version
  PROVE  Truthful(w, js, at)
<1>1. d # None
  BY DocumentIsSome
<1>2. \A i \in Item : TruthfulItem(i, d.items[i], js, at)
  BY <1>1 DEF Truthful
<1> QED
  BY <1>2 DEF Truthful, TruthfulItem

\* A sync, with the versions it archives, is as true as what it is made of.
LEMMA TruthOfSynced ==
  ASSUME NEW js \in Seq(JobRecord), NEW at, NEW at2, at \subseteq at2,
         NEW d \in Document, NEW w \in Document, Truthful(d, js, at),
         Versions(w) \subseteq at2,
         \A i \in Item :
            LET m == d.items[i]
                n == w.items[i]
                s == js[m.job].status
            IN  /\ n \in BatchItem /\ n.job = m.job
                /\ m.status # "running" => n.status = m.status
                /\ m.status = "running" =>
                     \/ n.status = "running"
                     \/ n.status = "completed" /\ s = "completed"
                     \/ n.status = "failed" /\ s \notin {"running", "completed"}
                /\ \/ n.version = m.version
                   \/ n.version = m.job /\ n.status = "completed" /\ s = "completed"
  PROVE  /\ Truthful(w, js, at2)
         /\ VersionsAreMade(js, at) => VersionsAreMade(js, Versions(w))
<1>1. d # None
  BY DocumentIsSome
<1>2. ASSUME NEW i \in Item
      PROVE  /\ TruthfulItem(i, w.items[i], js, at2)
             /\ w.items[i].version # 0 /\ VersionsAreMade(js, at) /\ js[w.items[i].version].plain
                  => js[w.items[i].version].status \in {"completed", "gone"}
  <2> DEFINE m == d.items[i]
             n == w.items[i]
             s == js[m.job].status
  <2>1. TruthfulItem(i, m, js, at)
    BY <1>1 DEF Truthful
  <2>2. /\ n \in BatchItem /\ n.job = m.job
        /\ m.status # "running" => n.status = m.status
        /\ m.status = "running" =>
             \/ n.status = "running"
             \/ n.status = "completed" /\ s = "completed"
             \/ n.status = "failed" /\ s \notin {"running", "completed"}
        /\ \/ n.version = m.version
           \/ n.version = m.job /\ n.status = "completed" /\ s = "completed"
    OBVIOUS
  <2>3. m.status \in {"queued", "running", "completed", "failed"} /\ n.version \in Nat
    BY <2>2, DocumentParts, ItemParts
  <2>4. n.version # 0 => n.version \in at2
    BY DEF Versions
  <2>5. m.job # 0 => m.job \in DOMAIN js /\ js[m.job].item = i /\ s \in {"running", "completed", "failed", "gone"}
    BY <2>1, JobParts DEF TruthfulItem, JobStatus
  <2> HIDE DEF n, m
  <2>6. TruthfulItem(i, n, js, at2)
    BY <2>1, <2>2, <2>3, <2>4, <2>5 DEF TruthfulItem
  <2>7. n.version # 0 /\ VersionsAreMade(js, at) /\ js[n.version].plain => js[n.version].status \in {"completed", "gone"}
    BY <2>1, <2>2, <2>5 DEF TruthfulItem, VersionsAreMade
  <2> QED
    BY <2>6, <2>7 DEF n
<1>3. VersionsAreMade(js, at) => VersionsAreMade(js, Versions(w))
  BY <1>2 DEF VersionsAreMade, Versions
<1> QED
  BY <1>2, <1>3 DEF Truthful

LEMMA SaveTruth ==
  ASSUME Placed, DocumentsAreTruthful, NEW a \in Actor, Saves(a)
  PROVE  DocumentsAreTruthful'
<1>1. pc \in [Actor -> Label] /\ copy \in [Actor -> Copies \cup {None}]
  BY DEF Placed, RenderTypeOK, TypeOK, Copies
<1>2. Truthful(stored', jobs', attached')
  BY DEF DocumentsAreTruthful, Saves, Writes
<1>3. pc'[a] \notin SavingAt
  BY <1>1 DEF Placed, ActorsArePlaced, Saves, SavingAt, GoesOnAt, AfterStart, NextStep
<1>4. \A b \in Actor : pc'[b] \in SavingAt => pc[b] \in SavingAt /\ copy'[b] = copy[b]
  BY <1>1, <1>3 DEF Saves
<1>5. UNCHANGED <<jobs, attached>> /\ VersionsAreMade(jobs, attached)
  BY DEF Saves, DocumentsAreTruthful
<1> QED
  BY <1>2, <1>4, <1>5, JobsStay, TruthStep

LEMMA KeepTruth ==
  ASSUME Placed, DocumentsAreTruthful, NEW a \in Actor, NEW w, NEW l, NEW n, Keeps(a, w, l, n),
         Advance(jobs, jobs'), attached \subseteq attached', VersionsAreMade(jobs', attached'),
         Truthful(w, jobs', attached')
  PROVE  DocumentsAreTruthful'
<1>1. pc \in [Actor -> Label] /\ copy \in [Actor -> Copies \cup {None}]
  BY DEF Placed, RenderTypeOK, TypeOK, Copies
<1>2. Truthful(stored, jobs', attached')
  BY TruthLasts DEF DocumentsAreTruthful
<1>3. stored' = stored
  BY DEF Keeps
<1>4. \A b \in Actor : pc'[b] \in SavingAt =>
         \/ pc[b] \in SavingAt /\ copy'[b] = copy[b]
         \/ copy'[b].read = stored /\ copy'[b].write = w
  BY <1>1 DEF Keeps
<1>5. \A b \in Actor : pc'[b] \in SavingAt =>
         \/ pc[b] \in SavingAt /\ copy'[b] = copy[b]
         \/ Truthful(copy'[b].read, jobs', attached') /\ Truthful(copy'[b].write, jobs', attached')
  BY <1>2, <1>4
<1> QED
  BY <1>2, <1>3, <1>5, TruthStep

LEMMA MoveTruth ==
  ASSUME DocumentsAreTruthful, UNCHANGED <<stored, attached>>,
         Advance(jobs, jobs'), VersionsAreMade(jobs', attached),
         \A a \in Actor : pc'[a] \in SavingAt => pc[a] \in SavingAt /\ copy'[a] = copy[a]
  PROVE  DocumentsAreTruthful'
<1>1. Truthful(stored', jobs', attached')
  BY TruthLasts DEF DocumentsAreTruthful
<1> QED
  BY <1>1, TruthStep

LEMMA HandleTruth ==
  ASSUME stored \in Document, DocumentsAreTruthful, NEW o \in Request
  PROVE  Truthful(Changed(o, stored), jobs, attached)
<1>1. Truthful(stored, jobs, attached)
  BY DEF DocumentsAreTruthful
<1>2. CASE o \in {"launch", "resume", "pause", "hide"}
  <2>1. Changed(o, stored) \in Document /\ Changed(o, stored).items = stored.items
    BY <1>2, ChangedDocument
  <2> QED
    BY <1>1, <2>1, TruthOfSame
<1>3. CASE o = "delete"
  BY <1>3 DEF Changed, Truthful
<1>4. CASE o = "retry"
  <2> DEFINE w == Changed("retry", stored)
  <2>1. w \in Document /\ \A i \in Item : w.items[i] = Requeued(stored.items[i])
    BY RetriedDocument
  <2> HIDE DEF w
  <2>2. ASSUME NEW i \in Item PROVE TruthfulItem(i, w.items[i], jobs, attached)
    <3> DEFINE m == stored.items[i]
    <3>1. TruthfulItem(i, m, jobs, attached) /\ m \in BatchItem
      BY <1>1, DocumentIsSome, DocumentParts DEF Truthful
    <3>2. w.items[i] = Requeued(m)
      BY <2>1
    <3>3. /\ m.status # "failed" => Requeued(m) = m
          /\ m.status = "failed" =>
               /\ Requeued(m).status = "queued" /\ Requeued(m).job = 0
               /\ Requeued(m).version = m.version
      BY <3>1, RequeuedItem
    <3> HIDE DEF m
    <3>4. CASE m.status # "failed"
      BY <3>1, <3>2, <3>3, <3>4
    <3>5. CASE m.status = "failed"
      BY <3>1, <3>2, <3>3, <3>5 DEF TruthfulItem
    <3> QED
      BY <3>4, <3>5
  <2>3. Truthful(w, jobs, attached)
    BY <2>2 DEF Truthful
  <2> QED
    BY <1>4, <2>3 DEF w
<1> QED
  BY <1>2, <1>3, <1>4 DEF Request

LEMMA StartTruth ==
  ASSUME Placed, stored \in Document, DocumentsAreTruthful, NEW bad \in SUBSET In(stored, "queued")
  PROVE  /\ Advance(jobs, JobsWith(bad)) /\ VersionsAreMade(JobsWith(bad), attached)
         /\ Truthful(WithJobs(bad), JobsWith(bad), attached)
<1>1. \A j \in DOMAIN jobs : j \in DOMAIN JobsWith(bad) /\ JobsWith(bad)[j] = jobs[j]
  BY StartedJobs
<1>2. Advance(jobs, JobsWith(bad))
  BY <1>1 DEF Advance
<1>3. VersionsAreMade(JobsWith(bad), attached)
  BY <1>1 DEF VersionsAreMade, DocumentsAreTruthful, Placed, BatchTypes
<1>4. Truthful(stored, JobsWith(bad), attached)
  BY <1>2, TruthLasts DEF DocumentsAreTruthful
<1>5. ASSUME NEW i \in Item PROVE TruthfulItem(i, WithJobs(bad).items[i], JobsWith(bad), attached)
  <2> DEFINE m == stored.items[i]
             n == WithJobs(bad).items[i]
             js == JobsWith(bad)
  <2>1. TruthfulItem(i, m, js, attached)
    BY <1>4, DocumentIsSome DEF Truthful
  <2>2. /\ n.version = m.version
        /\ i \in StartedOf(bad) => n.status = "running" /\ n.job = JobOf(bad, i)
        /\ i \notin StartedOf(bad) => n.job = m.job /\ (n = m \/ (n.status = "failed" /\ m.status = "queued"))
    BY StartedDocument
  <2>3. CASE i \in StartedOf(bad)
    <3>1. JobOf(bad, i) \in DOMAIN js /\ js[JobOf(bad, i)].item = i
      BY <2>3, StartedJobs
    <3>2. JobOf(bad, i) # 0
      <4>1. js \in Seq(JobRecord)
        BY StartedJobs
      <4>2. \A j \in DOMAIN js : j # 0
        BY <4>1
      <4> QED
        BY <3>1, <4>2
    <3>3. m.status = "queued"
      BY <2>3, StartedAreQueued DEF In
    <3> HIDE DEF m, n, js
    <3>4. TruthfulItem(i, n, js, attached)
      BY <2>1, <2>2, <2>3, <3>1, <3>2, <3>3 DEF TruthfulItem
    <3> QED
      BY <3>4 DEF n, js
  <2>4. CASE i \notin StartedOf(bad)
    <3> HIDE DEF m, n, js
    <3>1. TruthfulItem(i, n, js, attached)
      BY <2>1, <2>2, <2>4 DEF TruthfulItem
    <3> QED
      BY <3>1 DEF n, js
  <2> QED
    BY <2>3, <2>4
<1> QED
  BY <1>2, <1>3, <1>5 DEF Truthful

LEMMA SyncTruth ==
  ASSUME Placed, DocumentsAreTruthful, Sync
  PROVE  /\ Truthful(Synced(stored, Status), jobs, attached')
         /\ VersionsAreMade(jobs, attached') /\ attached' \subseteq DOMAIN jobs
<1> DEFINE w == Synced(stored, Status)
<1>1. stored \in Document /\ jobs \in Seq(JobRecord) /\ attached \subseteq DOMAIN jobs
  BY DEF Placed, BatchTypes, Sync
<1>2. w \in Document /\ attached' = attached \cup Versions(w)
  BY <1>1, SyncedDocument, SyncKeeps
<1>3. \A j \in DOMAIN jobs : Status[j] = jobs[j].status
  BY DEF Status
<1>4. Truthful(stored, jobs, attached) /\ VersionsAreMade(jobs, attached)
  BY DEF DocumentsAreTruthful
<1>5. ASSUME NEW i \in Item
      PROVE  LET m == stored.items[i]
                 n == w.items[i]
                 s == jobs[m.job].status
             IN  /\ n \in BatchItem /\ n.job = m.job
                 /\ m.status # "running" => n.status = m.status
                 /\ m.status = "running" =>
                      \/ n.status = "running"
                      \/ n.status = "completed" /\ s = "completed"
                      \/ n.status = "failed" /\ s \notin {"running", "completed"}
                 /\ \/ n.version = m.version
                    \/ n.version = m.job /\ n.status = "completed" /\ s = "completed"
  <2> DEFINE m == stored.items[i]
             n == w.items[i]
  <2>1. /\ n \in BatchItem /\ n.job = m.job
        /\ m.status # "running" => n.status = m.status
        /\ m.status = "running" =>
             \/ n.status = "running" /\ Status[m.job] = "running"
             \/ n.status = "completed" /\ Status[m.job] = "completed"
             \/ n.status = "failed" /\ Status[m.job] \notin {"running", "completed"}
        /\ \/ n.version = m.version
           \/ n.version = m.job /\ n.status = "completed" /\ Status[m.job] = "completed"
    BY <1>1, SyncedItem
  <2>2. TruthfulItem(i, m, jobs, attached)
    BY <1>1, <1>4, DocumentIsSome DEF Truthful
  <2>3. m.status \in {"queued", "running", "completed", "failed"}
    BY <1>1, DocumentParts, ItemParts
  <2>4. m.status \in {"running", "completed"} => Status[m.job] = jobs[m.job].status
    BY <1>3, <2>2 DEF TruthfulItem
  <2> HIDE DEF m, n
  <2>5. m.status \notin {"running", "completed"} => n.status # "completed"
    BY <2>1, <2>3
  <2>6. /\ n \in BatchItem /\ n.job = m.job
        /\ m.status # "running" => n.status = m.status
        /\ m.status = "running" =>
             \/ n.status = "running"
             \/ n.status = "completed" /\ jobs[m.job].status = "completed"
             \/ n.status = "failed" /\ jobs[m.job].status \notin {"running", "completed"}
        /\ \/ n.version = m.version
           \/ n.version = m.job /\ n.status = "completed" /\ jobs[m.job].status = "completed"
    BY <2>1, <2>4, <2>5
  <2> QED
    BY <2>6 DEF m, n
<1> HIDE DEF w
<1>6. Truthful(w, jobs, attached') /\ VersionsAreMade(jobs, Versions(w))
  BY <1>1, <1>2, <1>4, <1>5, TruthOfSynced
<1>7. VersionsAreMade(jobs, attached')
  BY <1>2, <1>4, <1>6 DEF VersionsAreMade
<1>8. Versions(w) \subseteq DOMAIN jobs
  <2>1. \A i \in Item : w.items[i].version # 0 => w.items[i].version \in DOMAIN jobs
    <3>1. \A i \in Item : TruthfulItem(i, w.items[i], jobs, attached')
      BY <1>2, <1>6, DocumentIsSome DEF Truthful
    <3>2. \A i \in Item : w.items[i].version # 0 => w.items[i].job # 0
      BY <3>1 DEF TruthfulItem
    <3> QED
      BY <3>1, <3>2 DEF TruthfulItem
  <2> QED
    BY <2>1 DEF Versions
<1> QED
  BY <1>1, <1>2, <1>6, <1>7, <1>8 DEF w

-----------------------------------------------------------------------------
(* A restart                                                                *)

\* The jobs that a restart finds running have failed.
CutJobs ==
    [j \in DOMAIN jobs |->
        [jobs[j] EXCEPT !.status = IF @ = "running" THEN "failed" ELSE @, !.workers = 0]]
CutStatus == [j \in DOMAIN CutJobs |-> CutJobs[j].status]

LEMMA CutJobsParts ==
  ASSUME jobs \in Seq(JobRecord)
  PROVE  /\ CutJobs \in Seq(JobRecord) /\ DOMAIN CutJobs = DOMAIN jobs
         /\ Advance(jobs, CutJobs)
         /\ \A j \in DOMAIN jobs :
              /\ CutJobs[j].status # "running" /\ CutStatus[j] = CutJobs[j].status
              /\ CutJobs[j].item = jobs[j].item
              /\ CutJobs[j].status = "completed" => jobs[j].status = "completed"
<1>1. DOMAIN CutJobs = DOMAIN jobs
  BY DEF CutJobs
<1>2. ASSUME NEW j \in DOMAIN jobs
      PROVE  /\ CutJobs[j] \in JobRecord /\ CutJobs[j].item = jobs[j].item
             /\ CutJobs[j].status = (IF jobs[j].status = "running" THEN "failed" ELSE jobs[j].status)
             /\ CutJobs[j].plain = jobs[j].plain
  <2>1. jobs[j] \in JobRecord
    OBVIOUS
  <2> DEFINE s == IF jobs[j].status = "running" THEN "failed" ELSE jobs[j].status
  <2>2. CutJobs[j] = [jobs[j] EXCEPT !.status = s, !.workers = 0]
    BY DEF CutJobs
  <2>3. s \in JobStatus
    BY <2>1 DEF JobRecord, JobStatus
  <2> HIDE DEF s
  <2>4. 0 \in Nat
    OBVIOUS
  <2>5. CutJobs[j] \in JobRecord /\ CutJobs[j].item = jobs[j].item /\ CutJobs[j].status = s /\ CutJobs[j].plain = jobs[j].plain
    BY <2>1, <2>2, <2>3, <2>4, Zenon DEF JobRecord
  <2> QED
    BY <2>5 DEF s
<1>3. CutJobs \in Seq(JobRecord)
  <2>1. CutJobs = [j \in DOMAIN jobs |-> CutJobs[j]]
    BY DEF CutJobs
  <2>2. DOMAIN jobs = 1 .. Len(jobs) /\ Len(jobs) \in Nat
    OBVIOUS
  <2>3. CutJobs \in [1 .. Len(jobs) -> JobRecord]
    BY <1>2, <2>1, <2>2
  <2> QED
    BY <2>2, <2>3, SeqDef
<1>4. \A j \in DOMAIN jobs : CutStatus[j] = CutJobs[j].status
  BY <1>1 DEF CutStatus
<1>5. Advance(jobs, CutJobs)
  BY <1>1, <1>2 DEF Advance
<1> QED
  BY <1>1, <1>2, <1>3, <1>4, <1>5

\* What a restart finds: the document that is stored, or the items that were
\* stored under a status that was being saved.
Found(d) ==
    \/ d = stored /\ lapses' = lapses
    \/ \E a \in Actor :
         /\ pc[a] \in SavingAt /\ Writes(a) # None /\ stored # None
         /\ d = [stored EXCEPT !.status = Writes(a).status]
         /\ lapses' = lapses \cup Blame(a)

LEMMA RestartFinds ==
  ASSUME Placed, Restart
  PROVE  /\ jobs' = CutJobs
         /\ \E d \in Document \cup {None} :
              /\ Found(d) /\ stored' = Recovered(d, CutStatus)
              /\ d = None <=> stored = None
              /\ d # None => d.items = stored.items
         /\ attached' = attached \cup (IF stored' = None THEN {} ELSE Versions(stored'))
         /\ \A a \in Actor : pc'[a] = "idle" /\ copy'[a] = None
         /\ lock' = None /\ restarts' # restarts
<1>1. stored \in Document \cup {None}
  BY DEF Placed, BatchTypes
<1>2. jobs' = CutJobs
  BY DEF Restart, CutJobs
<1>3. \/ stored' = Recovered(stored, CutStatus) /\ UNCHANGED lapses
      \/ \E a \in Actor : /\ Saving(a)
                          /\ stored' = Recovered(Torn(a), CutStatus)
                          /\ lapses' = lapses \cup Blame(a)
  BY DEF Restart, CutJobs, CutStatus
<1>4. ASSUME stored' = Recovered(stored, CutStatus), UNCHANGED lapses
      PROVE  \E d \in Document \cup {None} :
              /\ Found(d) /\ stored' = Recovered(d, CutStatus)
              /\ d = None <=> stored = None
              /\ d # None => d.items = stored.items
  BY <1>1, <1>4 DEF Found
<1>5. ASSUME NEW a \in Actor, Saving(a), stored' = Recovered(Torn(a), CutStatus), lapses' = lapses \cup Blame(a)
      PROVE  \E d \in Document \cup {None} :
              /\ Found(d) /\ stored' = Recovered(d, CutStatus)
              /\ d = None <=> stored = None
              /\ d # None => d.items = stored.items
  <2>1. pc[a] \in SavingAt /\ Writes(a) # None /\ stored # None
    BY <1>5 DEF Placed, ActorsArePlaced, Saving, Writes
  <2>2. copy[a] \in Copies
    BY <2>1 DEF Placed, ActorsArePlaced
  <2>3. stored \in Document /\ Writes(a) \in Document
    BY <1>1, <2>1, <2>2 DEF Copies, Writes
  <2>4. Torn(a) = [stored EXCEPT !.status = Writes(a).status]
    BY DEF Torn, Writes
  <2>5. Torn(a) \in Document /\ Torn(a).items = stored.items
    BY <2>3, <2>4, DocumentParts DEF Document
  <2>6. Torn(a) # None
    BY <2>5, DocumentIsSome
  <2>7. Found(Torn(a))
    BY <1>5, <2>1, <2>4 DEF Found
  <2> QED
    BY <1>5, <2>1, <2>5, <2>6, <2>7
<1>6. \E d \in Document \cup {None} :
              /\ Found(d) /\ stored' = Recovered(d, CutStatus)
              /\ d = None <=> stored = None
              /\ d # None => d.items = stored.items
  BY <1>3, <1>4, <1>5
<1>7. \A a \in Actor : pc'[a] = "idle" /\ copy'[a] = None
  BY DEF Restart
<1>8. /\ attached' = attached \cup (IF stored' = None THEN {} ELSE Versions(stored'))
      /\ lock' = None /\ restarts' # restarts
  <2>1. restarts \in Nat
    BY Zenon DEF Placed, RenderTypeOK, TypeOK
  <2>2. restarts' = restarts + 1
    BY Zenon DEF Restart
  <2>3. restarts' # restarts
    BY <2>1, <2>2
  <2>4. attached' = attached \cup (IF stored' = None THEN {} ELSE Versions(stored')) /\ lock' = None
    BY Zenon DEF Restart
  <2> QED
    BY <2>3, <2>4
<1> QED
  BY <1>2, <1>6, <1>7, <1>8

\* No document stays no document.
LEMMA RecoveredNone == ASSUME NEW st PROVE Recovered(None, st) = None
  BY DEF Recovered

LEMMA RestartTruth ==
  ASSUME Placed, DocumentsAreTruthful, Restart
  PROVE  /\ DocumentsAreTruthful' /\ stored' \in Document \cup {None}
         /\ jobs' \in Seq(JobRecord) /\ attached' \subseteq DOMAIN jobs'
<1>1. /\ jobs' = CutJobs
      /\ attached' = attached \cup (IF stored' = None THEN {} ELSE Versions(stored'))
      /\ \A a \in Actor : pc'[a] = "idle"
  BY RestartFinds
<1>2. PICK d \in Document \cup {None} :
         /\ stored' = Recovered(d, CutStatus)
         /\ d = None <=> stored = None
         /\ d # None => d.items = stored.items
  BY RestartFinds
<1>3. jobs \in Seq(JobRecord) /\ attached \subseteq DOMAIN jobs /\ stored \in Document \cup {None}
  BY DEF Placed, BatchTypes
<1>4. /\ CutJobs \in Seq(JobRecord) /\ DOMAIN CutJobs = DOMAIN jobs /\ Advance(jobs, CutJobs)
      /\ \A j \in DOMAIN jobs : CutStatus[j] = CutJobs[j].status
  BY <1>3, CutJobsParts
<1>5. VersionsAreMade(CutJobs, attached)
  BY <1>3, <1>4 DEF DocumentsAreTruthful, VersionsAreMade, Advance
<1>6. \A a \in Actor : pc'[a] \notin SavingAt
  BY <1>1 DEF SavingAt
<1>7. CASE d = None
  <2>1. stored' = None
    BY <1>2, <1>7, RecoveredNone
  <2>2. Truthful(stored', jobs', attached') /\ attached' = attached
    BY <1>1, <2>1 DEF Truthful
  <2>3. DocumentsAreTruthful'
    BY <1>1, <1>4, <1>5, <1>6, <2>2, TruthStep
  <2> QED
    BY <1>1, <1>3, <1>4, <2>1, <2>2, <2>3
<1>8. CASE d # None
  <2>1. d \in Document /\ stored \in Document
    BY <1>2, <1>3, <1>8
  <2>2. stored' \in Document
    BY <1>2, <2>1, RecoveredDocument
  <2>3. attached' = attached \cup Versions(stored')
    BY <1>1, <2>2, DocumentIsSome
  <2>4. Truthful(stored, CutJobs, attached)
    BY <1>4, TruthLasts DEF DocumentsAreTruthful
  <2>5. Truthful(d, CutJobs, attached)
    BY <1>2, <1>8, <2>4 DEF Truthful
  <2>6. ASSUME NEW i \in Item
        PROVE  LET m == d.items[i]
                   n == stored'.items[i]
                   s == CutJobs[m.job].status
               IN  /\ n \in BatchItem /\ n.job = m.job
                   /\ m.status # "running" => n.status = m.status
                   /\ m.status = "running" =>
                        \/ n.status = "running"
                        \/ n.status = "completed" /\ s = "completed"
                        \/ n.status = "failed" /\ s \notin {"running", "completed"}
                   /\ \/ n.version = m.version
                      \/ n.version = m.job /\ n.status = "completed" /\ s = "completed"
    <3> DEFINE m == d.items[i]
               n == stored'.items[i]
    <3>1. /\ n \in BatchItem /\ n.job = m.job
          /\ m.status # "running" => n.status = m.status
          /\ m.status = "running" =>
               \/ n.status = "running"
               \/ n.status = "completed" /\ CutStatus[m.job] = "completed"
               \/ n.status = "failed" /\ CutStatus[m.job] \notin {"running", "completed"}
          /\ \/ n.version = m.version
             \/ n.version = m.job /\ n.status = "completed" /\ CutStatus[m.job] = "completed"
      BY <1>2, <2>1, RecoveredItem
    <3>2. TruthfulItem(i, m, CutJobs, attached)
      BY <1>8, <2>5 DEF Truthful
    <3>3. m.status \in {"queued", "running", "completed", "failed"}
      BY <2>1, DocumentParts, ItemParts
    <3>4. m.status \in {"running", "completed"} => CutStatus[m.job] = CutJobs[m.job].status
      BY <1>4, <3>2 DEF TruthfulItem
    <3> HIDE DEF m, n
    <3>5. m.status \notin {"running", "completed"} => n.status # "completed"
      BY <3>1, <3>3
    <3>6. /\ n \in BatchItem /\ n.job = m.job
          /\ m.status # "running" => n.status = m.status
          /\ m.status = "running" =>
               \/ n.status = "running"
               \/ n.status = "completed" /\ CutJobs[m.job].status = "completed"
               \/ n.status = "failed" /\ CutJobs[m.job].status \notin {"running", "completed"}
          /\ \/ n.version = m.version
             \/ n.version = m.job /\ n.status = "completed" /\ CutJobs[m.job].status = "completed"
      BY <3>1, <3>4, <3>5
    <3> QED
      BY <3>6 DEF m, n
  <2>7. Truthful(stored', CutJobs, attached') /\ VersionsAreMade(CutJobs, Versions(stored'))
    <3>1. CutJobs \in Seq(JobRecord) /\ attached \subseteq attached' /\ Versions(stored') \subseteq attached'
      BY <1>4, <2>3
    <3> QED
      BY <1>5, <2>1, <2>2, <2>5, <2>6, <3>1, TruthOfSynced
  <2>8. VersionsAreMade(CutJobs, attached')
    BY <1>5, <2>3, <2>7 DEF VersionsAreMade
  <2>9. Versions(stored') \subseteq DOMAIN CutJobs
    <3>1. \A i \in Item : TruthfulItem(i, stored'.items[i], CutJobs, attached')
      BY <2>2, <2>7, DocumentIsSome DEF Truthful
    <3>2. \A i \in Item : stored'.items[i].version # 0 => stored'.items[i].version \in DOMAIN CutJobs
      BY <3>1 DEF TruthfulItem
    <3> QED
      BY <3>2 DEF Versions
  <2>10. DocumentsAreTruthful'
    BY <1>1, <1>4, <1>6, <2>3, <2>7, <2>8, TruthStep
  <2> QED
    BY <1>1, <1>3, <1>4, <2>2, <2>3, <2>9, <2>10
<1> QED
  BY <1>7, <1>8

-----------------------------------------------------------------------------
(* The steps that neither make nor save a document                          *)

PlacesTyped ==
    /\ ActorsArePlaced /\ lock \in Actor \cup {None} /\ pc \in [Actor -> Label]
    /\ copy \in [Actor -> Copies \cup {None}]

\* A step that only goes on; a thread or a handler still works on a batch that
\* is running, unless the step missed that a thread was ending.
Goes ==
    /\ UNCHANGED <<stored, jobs, attached, bounds>>
    /\ lapses' \in {lapses, lapses \cup {"missed"}}
    /\ \A a \in Actor : /\ pc[a] \in SavingAt \/ pc'[a] \in SavingAt => pc'[a] = pc[a]
                        /\ copy'[a] = copy[a]
    /\ threads' \in [Kind -> [Item -> Nat]]
    /\ \A k \in Kind, i \in Item :
         \/ threads'[k][i] = threads[k][i]
         \/ threads'[k][i] = threads[k][i] - 1 /\ (stored = None \/ <<k, i>> \in died')
    /\ died \subseteq died' /\ died' \subseteq Kind \X Item
    /\ lapses' = {} /\ RunningIsDriven => RunningIsDriven'

StartsJobsAt == {"start", "startSave", "ensure"}

LEMMA OneGoes ==
  ASSUME Placed, NEW a \in Actor, NEW l \in Label \ SavingAt,
         pc' = [pc EXCEPT ![a] = l], pc[a] \notin SavingAt,
         copy' = copy \/ copy' = [copy EXCEPT ![a] = None],
         UNCHANGED <<stored, jobs, attached, calls, restarts, strays, lapses, threads, died>>,
         MayBeAt(a, l), UsesLock(a, l),
         a = Driver /\ l \in {"idle", "ending"} => ~IsRunning \/ pc[a] \in {"idle", "ending"},
         a \in Client /\ pc[a] \in StartsJobsAt => ~IsRunning \/ l \in StartsJobsAt
  PROVE  Goes /\ PlacesTyped'
<1>1. pc \in [Actor -> Label] /\ copy \in [Actor -> Copies \cup {None}]
  BY DEF Placed, RenderTypeOK, TypeOK, Copies
<1>2. copy[a] = None
  BY DEF Placed, ActorsArePlaced
<1>3. copy' = [copy EXCEPT ![a] = None] /\ \A b \in Actor : copy'[b] = copy[b]
  BY <1>1, <1>2
<1>4. PlacesTyped'
  <2>1. l \in Label /\ l \notin SavingAt
    OBVIOUS
  <2>2. /\ ActorsArePlaced' /\ lock' \in Actor \cup {None} /\ pc' \in [Actor -> Label]
        /\ copy' \in [Actor -> Copies \cup {None}]
    BY <1>3, <2>1, StepIsPlaced
  <2> QED
    BY <2>2 DEF PlacesTyped, Copies
<1>5. \A b \in Actor : pc'[b] = IF b = a THEN l ELSE pc[b]
  BY <1>1
<1>6. ASSUME RunningIsDriven PROVE RunningIsDriven'
  <2>1. SUFFICES ASSUME IsRunning
                 PROVE  pc'[Driver] \notin {"idle", "ending"} \/ \E c \in Client : pc'[c] \in StartsJobsAt
    BY DEF RunningIsDriven, IsRunning, StartsJobsAt
  <2>2. pc[Driver] \notin {"idle", "ending"} \/ \E c \in Client : pc[c] \in StartsJobsAt
    BY <1>6, <2>1 DEF RunningIsDriven, StartsJobsAt
  <2>3. CASE pc[Driver] \notin {"idle", "ending"}
    BY <1>5, <2>1, <2>3, ActorsDiffer
  <2>4. ASSUME NEW c \in Client, pc[c] \in StartsJobsAt PROVE pc'[c] \in StartsJobsAt
    BY <1>5, <2>1, <2>4, ActorsDiffer
  <2> QED
    BY <2>2, <2>3, <2>4
<1> QED
  BY <1>3, <1>4, <1>5, <1>6 DEF Goes, bounds, Placed, BatchTypes

LEMMA EnsureGoes ==
  ASSUME Placed, NEW c \in Client, Ensure(c), Alone
  PROVE  Goes /\ PlacesTyped'
<1>1. pc \in [Actor -> Label] /\ copy \in [Actor -> Copies \cup {None}] /\ c # Driver /\ Driver \in Actor /\ c \in Actor
  BY ActorsDiffer DEF Placed, RenderTypeOK, TypeOK, Copies
<1>2. \A b \in Actor : pc'[b] = CASE b = c -> "idle"
                                  [] b = Driver -> IF pc[Driver] = "idle" THEN "sync" ELSE pc[Driver]
                                  [] OTHER -> pc[b]
  BY <1>1 DEF Ensure
<1>3. pc[c] = "ensure" /\ lock = None /\ UNCHANGED <<stored, jobs, attached, lock, copy, bounds, threads, died>>
  BY DEF Ensure, Alone, shared
<1>4. \A b \in Actor : \/ pc'[b] = pc[b]
                       \/ pc[b] = "ensure" /\ pc'[b] = "idle"
                       \/ pc[b] = "idle" /\ pc'[b] = "sync" /\ b = Driver
  BY <1>1, <1>2, <1>3
<1>5. pc' \in [Actor -> Label]
  BY <1>1 DEF Ensure, Label
<1>6. ActorsArePlaced'
  <2>1. ASSUME NEW b \in Actor
        PROVE  /\ MayBeAt(b, pc'[b])
               /\ pc'[b] \in LockedAt => lock = b
               /\ pc'[b] \in SavingAt => copy[b] \in Copies /\ GoesOnAt(b, pc'[b], copy[b].next)
               /\ pc'[b] \notin SavingAt => copy[b] = None
    <3>1. /\ MayBeAt(b, pc[b])
          /\ pc[b] \in LockedAt => lock = b
          /\ pc[b] \in SavingAt => copy[b] \in Copies /\ GoesOnAt(b, pc[b], copy[b].next)
          /\ pc[b] \notin SavingAt => copy[b] = None
      BY DEF Placed, ActorsArePlaced
    <3>2. CASE pc'[b] = pc[b]
      BY <3>1, <3>2
    <3>3. CASE pc[b] = "ensure" /\ pc'[b] = "idle"
      BY <3>1, <3>3, ActorsDiffer DEF MayBeAt, LockedAt, SavingAt
    <3>4. CASE pc[b] = "idle" /\ pc'[b] = "sync" /\ b = Driver
      BY <3>1, <3>4, ActorsDiffer DEF MayBeAt, LockedAt, SavingAt
    <3> QED
      BY <1>4, <3>2, <3>3, <3>4
  <2> QED
    BY <1>3, <2>1 DEF ActorsArePlaced, MayBeAt, GoesOnAt, AfterStart, NextStep, Copies
<1>7. lapses' = {} => pc'[Driver] \notin {"idle", "ending"}
  BY <1>1, <1>2 DEF Ensure
<1>8. lapses' \in {lapses, lapses \cup {"missed"}}
  BY DEF Ensure
<1>9. lapses' = {} => RunningIsDriven'
  BY <1>7 DEF RunningIsDriven
<1>10. PlacesTyped'
  BY <1>1, <1>3, <1>5, <1>6 DEF PlacesTyped, Placed, RenderTypeOK, TypeOK, Copies
<1>11. \A a \in Actor : pc[a] \in SavingAt \/ pc'[a] \in SavingAt => pc'[a] = pc[a]
  BY <1>4 DEF SavingAt
<1> QED
  BY <1>3, <1>8, <1>9, <1>10, <1>11 DEF Goes, Placed, BatchTypes

LEMMA EnsureRenderGoes ==
  ASSUME Placed, NEW c \in Client, NEW k \in Kind, EnsureRender(c, k)
  PROVE  Goes /\ PlacesTyped'
<1>1. /\ pc \in [Actor -> Label] /\ copy \in [Actor -> Copies \cup {None}]
      /\ c # k /\ k \in Actor /\ c \in Actor /\ k # Driver /\ c # Driver /\ k \notin Client
  BY ActorsDiffer DEF Placed, RenderTypeOK, TypeOK, Copies
<1>2. \A b \in Actor : pc'[b] = CASE b = c -> "idle"
                                  [] b = k -> IF pc[k] = "idle" THEN "render" ELSE pc[k]
                                  [] OTHER -> pc[b]
  BY <1>1 DEF EnsureRender
<1>3. pc[c] = "ensureRender" /\ lock = None /\ UNCHANGED <<stored, jobs, attached, lock, copy, bounds, threads, died>>
  BY DEF EnsureRender, shared
<1>4. \A b \in Actor : \/ pc'[b] = pc[b]
                       \/ pc[b] = "ensureRender" /\ pc'[b] = "idle"
                       \/ pc[b] = "idle" /\ pc'[b] = "render" /\ b = k
  BY <1>1, <1>2, <1>3
<1>5. pc' \in [Actor -> Label]
  BY <1>1 DEF EnsureRender, Label
<1>6. ActorsArePlaced'
  <2>1. ASSUME NEW b \in Actor
        PROVE  /\ MayBeAt(b, pc'[b])
               /\ pc'[b] \in LockedAt => lock = b
               /\ pc'[b] \in SavingAt => copy[b] \in Copies /\ GoesOnAt(b, pc'[b], copy[b].next)
               /\ pc'[b] \notin SavingAt => copy[b] = None
    <3>1. /\ MayBeAt(b, pc[b])
          /\ pc[b] \in LockedAt => lock = b
          /\ pc[b] \in SavingAt => copy[b] \in Copies /\ GoesOnAt(b, pc[b], copy[b].next)
          /\ pc[b] \notin SavingAt => copy[b] = None
      BY DEF Placed, ActorsArePlaced
    <3>2. CASE pc'[b] = pc[b]
      BY <3>1, <3>2
    <3>3. CASE pc[b] = "ensureRender" /\ pc'[b] = "idle"
      BY <3>1, <3>3, ActorsDiffer DEF MayBeAt, LockedAt, SavingAt
    <3>4. CASE pc[b] = "idle" /\ pc'[b] = "render" /\ b = k
      BY <3>1, <3>4, ActorsDiffer DEF MayBeAt, LockedAt, SavingAt
    <3> QED
      BY <1>4, <3>2, <3>3, <3>4
  <2> QED
    BY <1>3, <2>1 DEF ActorsArePlaced, MayBeAt, GoesOnAt, AfterStart, NextStep, Copies
<1>7. lapses' \in {lapses, lapses \cup {"missed"}}
  BY DEF EnsureRender
<1>8. pc'[Driver] = pc[Driver] /\ \A b \in Client : pc'[b] = pc[b] \/ pc[b] = "ensureRender"
  BY <1>1, <1>2, <1>3, ActorsDiffer
<1>9. RunningIsDriven => RunningIsDriven'
  BY <1>3, <1>8 DEF RunningIsDriven, IsRunning
<1>10. PlacesTyped'
  BY <1>1, <1>3, <1>5, <1>6 DEF PlacesTyped, Placed, RenderTypeOK, TypeOK, Copies
<1>11. \A a \in Actor : pc[a] \in SavingAt \/ pc'[a] \in SavingAt => pc'[a] = pc[a]
  BY <1>4 DEF SavingAt
<1> QED
  BY <1>3, <1>7, <1>9, <1>10, <1>11 DEF Goes, Placed, BatchTypes

LEMMA StartNothingGoes ==
  ASSUME Placed, NEW a \in Client \cup {Driver}, StartNothing(a), Alone
  PROVE  Goes /\ PlacesTyped'
<1> DEFINE ls == {"idle", "ending", "sync", "ensure"}
<1>1. PICK l \in ls : /\ pc' = [pc EXCEPT ![a] = l]
                      /\ a = Driver => l \in {"sync", "ending"}
                      /\ a # Driver => l \in {"idle", "ensure"}
                      /\ l \in {"idle", "ending"} => stored = None
  BY DEF StartNothing, GoTo, AfterStart
<1>2. pc[a] = "start" /\ UNCHANGED <<stored, jobs, attached, lock, copy, calls, restarts, strays, lapses, threads, died>>
  BY DEF StartNothing, shared, bounds, Alone
<1>3. MayBeAt(a, l) /\ l \in Label \ SavingAt /\ l \notin LockedAt /\ pc[a] \notin SavingAt
  BY <1>1, <1>2, ActorsDiffer DEF MayBeAt, Label, SavingAt, LockedAt
<1>4. UsesLock(a, l)
  BY <1>2, <1>3 DEF UsesLock
<1>5. a \in Actor /\ (a \in Client => a # Driver)
  BY ActorsDiffer
<1>6. a = Driver /\ l \in {"idle", "ending"} => ~IsRunning
  BY <1>1 DEF IsRunning
<1>7. a \in Client => ~IsRunning \/ l \in StartsJobsAt
  BY <1>1, <1>5 DEF IsRunning, StartsJobsAt
<1> QED
  BY <1>1, <1>2, <1>3, <1>4, <1>5, <1>6, <1>7, OneGoes

LEMMA SyncGoneGoes ==
  ASSUME Placed, SyncGone, Alone
  PROVE  Goes /\ PlacesTyped'
<1>1. /\ pc' = [pc EXCEPT ![Driver] = "ending"] /\ stored = None /\ pc[Driver] \in {"sync", "reread"} /\ lock' = None
      /\ UNCHANGED <<stored, jobs, attached, copy, calls, restarts, strays, lapses, threads, died>>
  BY DEF SyncGone, GoTo, shared, bounds, Alone
<1>2. lock = None \/ lock = Driver
  BY ActorsDiffer DEF SyncGone, Placed, ActorsArePlaced, LockedAt
<1>3. UsesLock(Driver, "ending")
  BY <1>1, <1>2 DEF UsesLock, LockedAt
<1>4. MayBeAt(Driver, "ending") /\ "ending" \in Label \ SavingAt /\ pc[Driver] \notin SavingAt
  BY <1>1, ActorsDiffer DEF MayBeAt, Label, SavingAt
<1>5. ~IsRunning
  BY <1>1 DEF IsRunning
<1> QED
  BY <1>1, <1>3, <1>4, <1>5, ActorsDiffer, OneGoes

LEMMA JudgeGoes ==
  ASSUME Placed, SyncUnchanged \/ Reread, GoesOn, Alone
  PROVE  Goes /\ PlacesTyped'
<1>1. PICK l \in {"sync", "start", "ending"} :
        pc' = [pc EXCEPT ![Driver] = l] /\ (l = "ending" => stored.status # "running")
  BY DEF GoesOn
<1>2. /\ copy' = [copy EXCEPT ![Driver] = None]
      /\ UNCHANGED <<stored, jobs, attached, calls, restarts, strays, lapses, threads, died>>
  BY DEF GoesOn, shared, bounds, Alone
<1>3. UsesLock(Driver, l)
  <2>1. UsesLock(Driver, "sync")
    BY JudgeSteps
  <2> QED
    BY <2>1 DEF UsesLock, LockedAt
<1>4. MayBeAt(Driver, l) /\ l \in Label \ SavingAt
  BY <1>1, ActorsDiffer DEF MayBeAt, Label, SavingAt
<1>5. pc[Driver] \notin SavingAt
  BY DEF SyncUnchanged, Reread, SavingAt
<1>6. l \in {"idle", "ending"} => ~IsRunning
  BY <1>1 DEF IsRunning
<1> QED
  BY <1>1, <1>2, <1>3, <1>4, <1>5, <1>6, ActorsDiffer, OneGoes

LEMMA EndGoes ==
  ASSUME Placed, End, Alone
  PROVE  Goes /\ PlacesTyped'
<1>1. /\ pc' = [pc EXCEPT ![Driver] = "idle"] /\ pc[Driver] = "ending"
      /\ UNCHANGED <<stored, jobs, attached, lock, copy, calls, restarts, strays, lapses, threads, died>>
  BY DEF End, GoTo, shared, bounds, Alone
<1>2. MayBeAt(Driver, "idle") /\ "idle" \in Label \ SavingAt /\ pc[Driver] \notin SavingAt /\ UsesLock(Driver, "idle")
  BY <1>1, ActorsDiffer DEF MayBeAt, Label, SavingAt, UsesLock, LockedAt
<1> QED
  BY <1>1, <1>2, ActorsDiffer, OneGoes

LEMMA RenderNothingGoes ==
  ASSUME Placed, NEW k \in Kind, NEW a \in Client \cup {k}, RenderNothing(a, k)
  PROVE  Goes /\ PlacesTyped'
<1>1. /\ pc' = [pc EXCEPT ![a] = NextStep(a)] /\ pc[a] = "render"
      /\ UNCHANGED <<stored, jobs, attached, lock, copy, calls, restarts, strays, lapses, threads, died>>
  BY DEF RenderNothing, AtStart, GoTo, shared, bounds
<1>2. /\ MayBeAt(a, NextStep(a)) /\ NextStep(a) \in Label \ SavingAt /\ pc[a] \notin SavingAt
      /\ NextStep(a) \notin LockedAt
  BY <1>1, ActorsDiffer DEF MayBeAt, Label, SavingAt, NextStep, LockedAt
<1>3. UsesLock(a, NextStep(a))
  BY <1>1, <1>2 DEF UsesLock
<1>4. a \in Actor /\ a # Driver /\ pc[a] \notin StartsJobsAt
  BY <1>1, ActorsDiffer DEF StartsJobsAt
<1> QED
  BY <1>1, <1>2, <1>3, <1>4, OneGoes

LEMMA LoopGoes ==
  ASSUME Placed, NEW k \in Kind, CheckRender(k) \/ EndRender(k)
  PROVE  Goes /\ PlacesTyped'
<1>1. PICK l \in {"render", "ending", "idle"} : pc' = [pc EXCEPT ![k] = l]
  BY DEF CheckRender, EndRender, GoTo
<1>2. /\ UNCHANGED <<stored, jobs, attached, lock, copy, calls, restarts, strays, lapses, threads, died>>
      /\ pc[k] \in {"check", "ending"}
  BY DEF CheckRender, EndRender, shared, bounds
<1>3. /\ MayBeAt(k, l) /\ l \in Label \ SavingAt /\ pc[k] \notin SavingAt /\ l \notin LockedAt
  BY <1>1, <1>2, ActorsDiffer DEF MayBeAt, Label, SavingAt, LockedAt
<1>4. UsesLock(k, l)
  BY <1>2, <1>3 DEF UsesLock
<1>5. k \in Actor /\ k # Driver /\ k \notin Client
  BY ActorsDiffer
<1> QED
  BY <1>1, <1>2, <1>3, <1>4, <1>5, OneGoes

LEMMA NoResultGoes ==
  ASSUME Placed, NEW k \in Kind, NEW i \in Item, Rendered(k, i), stored = None
  PROVE  Goes /\ PlacesTyped'
<1>1. UNCHANGED <<stored, jobs, attached, lock, copy, pc, bounds, lapses, died>> /\ died \subseteq Kind \X Item
  BY DEF Rendered, shared, Placed, BatchTypes
<1>2. PlacesTyped'
  BY <1>1 DEF PlacesTyped, Placed, RenderTypeOK, TypeOK, Copies, ActorsArePlaced, MayBeAt, GoesOnAt, AfterStart, NextStep
<1>3. /\ threads' \in [Kind -> [Item -> Nat]]
      /\ \A l \in Kind, m \in Item : threads'[l][m] = threads[l][m] \/ threads'[l][m] = threads[l][m] - 1
  BY DEF Rendered, Placed, BatchTypes
<1>4. RunningIsDriven => RunningIsDriven'
  BY <1>1 DEF RunningIsDriven, IsRunning
<1> QED
  BY <1>1, <1>2, <1>3, <1>4 DEF Goes

LEMMA DeathGoes ==
  ASSUME Placed, NEW k \in Kind, NEW i \in Item, RenderDies(k, i)
  PROVE  Goes /\ PlacesTyped'
<1>1. UNCHANGED <<stored, jobs, attached, lock, copy, pc, bounds, lapses>>
  BY DEF RenderDies, vars, shared
<1>2. PlacesTyped'
  BY <1>1 DEF PlacesTyped, Placed, RenderTypeOK, TypeOK, Copies, ActorsArePlaced, MayBeAt, GoesOnAt, AfterStart, NextStep
<1>3. threads \in [Kind -> [Item -> Nat]] /\ threads[k][i] > 0 /\ threads' = [threads EXCEPT ![k][i] = @ - 1]
  BY DEF RenderDies, Placed, BatchTypes
<1>4. died' = died \cup {<<k, i>>} /\ died' \subseteq Kind \X Item
  BY DEF RenderDies, Placed, BatchTypes
<1>5. threads' \in [Kind -> [Item -> Nat]]
  BY <1>3
<1>6. \A l \in Kind, m \in Item :
        \/ threads'[l][m] = threads[l][m]
        \/ threads'[l][m] = threads[l][m] - 1 /\ <<l, m>> \in died'
  BY <1>3, <1>4
<1>7. RunningIsDriven => RunningIsDriven'
  BY <1>1 DEF RunningIsDriven, IsRunning
<1> QED
  BY <1>1, <1>2, <1>4, <1>5, <1>6, <1>7 DEF Goes

-----------------------------------------------------------------------------
(* The kinds of step                                                        *)

Makes ==
    \/ \E c \in Client, o \in Request : Handle(c, o) /\ Alone
    \/ \E c \in Client, k \in Kind, f \in BOOLEAN : RequestRender(c, k, f)
    \/ \E a \in Client \cup {Driver} : StartItems(a) /\ Alone
    \/ Sync /\ Alone
    \/ (SyncUnchanged \/ Reread) /\ Finishes /\ Alone
    \/ \E k \in Kind : \E a \in Client \cup {k} : RenderItems(a, k)
    \/ \E k \in Kind, i \in Item : Rendered(k, i) /\ stored # None

JobEnds ==
    Alone /\ \E j \in DOMAIN jobs : Settle(j) \/ Revive(j) \/ Stall(j) \/ RetryJob(j) \/ DeleteJob(j)

Restarts == Restart /\ threads' = NoThreads /\ died' = {} /\ wanted' = [c \in Client |-> None]

\* A step of the runner is one beside the renderers, or a restart.
LEMMA RunnerSteps ==
  ASSUME Placed, RunnerNext
  PROVE  \/ Alone /\ \E c \in Client : ClientNext(c) \/ \E o \in Request : Handle(c, o)
         \/ Alone /\ DriverNext
         \/ JobEnds
         \/ Restarts
<1>1. restarts \in Nat
  BY Zenon DEF Placed, RenderTypeOK, TypeOK
<1>2. Restart => restarts' # restarts
  <2>1. Restart => restarts' = restarts + 1
    BY Zenon DEF Restart
  <2> QED
    BY <1>1, <2>1
<1>3. ASSUME NEW c \in Client, ClientNext(c) \/ \E o \in Request : Handle(c, o)
      PROVE  restarts' = restarts
  BY <1>3 DEF ClientNext, StartNext, Save, Ensure, StartNothing, StartItems, SaveStarted, Handle, bounds
<1>4. ASSUME DriverNext PROVE restarts' = restarts
  BY <1>4 DEF DriverNext, StartNext, StartNothing, StartItems, SaveStarted, SyncGone, SyncUnchanged,
              Sync, SaveSynced, Reread, Finish, End, bounds
<1>5. ASSUME NEW j \in DOMAIN jobs, Settle(j) \/ Revive(j) \/ Stall(j) \/ RetryJob(j) \/ DeleteJob(j)
      PROVE  restarts' = restarts
  BY <1>5 DEF Settle, Revive, Stall, RetryJob, DeleteJob, Stray, bounds
<1> QED
  BY <1>2, <1>3, <1>4, <1>5 DEF RunnerNext, Next, JobEnds, Restarts

LEMMA ClientSteps ==
  ASSUME Placed, Alone, NEW c \in Client, ClientNext(c) \/ \E o \in Request : Handle(c, o)
  PROVE  Saves(c) \/ Makes \/ (Goes /\ PlacesTyped')
<1>1. ASSUME Save(c) PROVE Saves(c)
  BY <1>1, ClientSaves
<1>2. ASSUME Ensure(c) PROVE Goes /\ PlacesTyped'
  BY <1>2, EnsureGoes
<1>3. ASSUME StartNothing(c) PROVE Goes /\ PlacesTyped'
  BY <1>3, StartNothingGoes
<1>4. ASSUME StartItems(c) PROVE Makes
  BY <1>4 DEF Makes
<1>5. ASSUME SaveStarted(c) PROVE Saves(c)
  BY <1>5, ActorsDiffer, StartIsSaved
<1>6. ASSUME NEW o \in Request, Handle(c, o) PROVE Makes
  BY <1>6 DEF Makes
<1> QED
  BY <1>1, <1>2, <1>3, <1>4, <1>5, <1>6 DEF ClientNext, StartNext

LEMMA DriverSteps ==
  ASSUME Placed, Alone, DriverNext
  PROVE  Saves(Driver) \/ Makes \/ (Goes /\ PlacesTyped')
<1>1. ASSUME StartNothing(Driver) PROVE Goes /\ PlacesTyped'
  BY <1>1, StartNothingGoes
<1>2. ASSUME StartItems(Driver) PROVE Makes
  BY <1>2 DEF Makes
<1>3. ASSUME SaveStarted(Driver) PROVE Saves(Driver)
  BY <1>3, ActorsDiffer, StartIsSaved
<1>4. ASSUME SyncGone PROVE Goes /\ PlacesTyped'
  BY <1>4, SyncGoneGoes
<1>5. ASSUME SyncUnchanged \/ Reread PROVE Makes \/ (Goes /\ PlacesTyped')
  <2>1. Finishes \/ GoesOn
    BY <1>5, JudgeSteps
  <2>2. ASSUME GoesOn PROVE Goes /\ PlacesTyped'
    BY <1>5, <2>2, JudgeGoes
  <2>3. ASSUME Finishes PROVE Makes
    BY <1>5, <2>3 DEF Makes
  <2> QED
    BY <2>1, <2>2, <2>3
<1>6. ASSUME Sync PROVE Makes
  BY <1>6 DEF Makes
<1>7. ASSUME SaveSynced PROVE Saves(Driver)
  BY <1>7, SyncIsSaved
<1>8. ASSUME Finish PROVE Saves(Driver)
  BY <1>8, FinishIsSaved
<1>9. ASSUME End PROVE Goes /\ PlacesTyped'
  BY <1>9, EndGoes
<1> QED
  BY <1>1, <1>2, <1>3, <1>4, <1>5, <1>6, <1>7, <1>8, <1>9 DEF DriverNext, StartNext

LEMMA RenderClientSteps ==
  ASSUME Placed, NEW c \in Client,
         RenderClientNext(c) \/ \E k \in Kind, f \in BOOLEAN : RequestRender(c, k, f)
  PROVE  Saves(c) \/ Makes \/ (Goes /\ PlacesTyped')
<1>1. ASSUME SaveRendering(c) PROVE Saves(c)
  BY <1>1, ActorsDiffer, RenderingIsSaved
<1>2. ASSUME NEW k \in Kind, RenderNothing(c, k) PROVE Goes /\ PlacesTyped'
  <2>1. c \in Client \cup {k}
    OBVIOUS
  <2> QED
    BY <1>2, <2>1, RenderNothingGoes
<1>3. ASSUME NEW k \in Kind, RenderItems(c, k) PROVE Makes
  BY <1>3 DEF Makes
<1>4. ASSUME NEW k \in Kind, EnsureRender(c, k) PROVE Goes /\ PlacesTyped'
  BY <1>4, EnsureRenderGoes
<1>5. ASSUME NEW k \in Kind, NEW f \in BOOLEAN, RequestRender(c, k, f) PROVE Makes
  BY <1>5 DEF Makes
<1> QED
  BY <1>1, <1>2, <1>3, <1>4, <1>5 DEF RenderClientNext

LEMMA LoopSteps ==
  ASSUME Placed, NEW k \in Kind, LoopNext(k) \/ \E i \in Item : Rendered(k, i) \/ RenderDies(k, i)
  PROVE  Saves(k) \/ Makes \/ (Goes /\ PlacesTyped')
<1> k \in Client \cup {k} /\ k \in Actor
  BY ActorsDiffer
<1>1. ASSUME RenderNothing(k, k) PROVE Goes /\ PlacesTyped'
  BY <1>1, RenderNothingGoes
<1>2. ASSUME RenderItems(k, k) PROVE Makes
  BY <1>2 DEF Makes
<1>3. ASSUME SaveRendering(k) PROVE Saves(k)
  BY <1>3, RenderingIsSaved
<1>4. ASSUME CheckRender(k) \/ EndRender(k) PROVE Goes /\ PlacesTyped'
  BY <1>4, LoopGoes
<1>5. ASSUME NEW i \in Item, Rendered(k, i) PROVE Makes \/ (Goes /\ PlacesTyped')
  <2>1. CASE stored = None
    BY <1>5, <2>1, NoResultGoes
  <2>2. CASE stored # None
    BY <1>5, <2>2 DEF Makes
  <2> QED
    BY <2>1, <2>2
<1>6. ASSUME NEW i \in Item, RenderDies(k, i) PROVE Goes /\ PlacesTyped'
  BY <1>6, DeathGoes
<1> QED
  BY <1>1, <1>2, <1>3, <1>4, <1>5, <1>6 DEF LoopNext

LEMMA StepKinds ==
  ASSUME Placed, RenderNext
  PROVE  \/ \E a \in Actor : Saves(a)
         \/ Makes
         \/ Goes /\ PlacesTyped'
         \/ JobEnds
         \/ Restarts
<1>1. ASSUME RunnerNext PROVE (\E a \in Actor : Saves(a)) \/ Makes \/ (Goes /\ PlacesTyped') \/ JobEnds \/ Restarts
  BY <1>1, RunnerSteps, ClientSteps, DriverSteps, ActorsDiffer
<1>2. ASSUME NEW c \in Client, RenderClientNext(c) \/ \E k \in Kind, f \in BOOLEAN : RequestRender(c, k, f)
      PROVE  (\E a \in Actor : Saves(a)) \/ Makes \/ (Goes /\ PlacesTyped')
  BY <1>2, RenderClientSteps, ActorsDiffer
<1>3. ASSUME NEW k \in Kind, LoopNext(k) \/ \E i \in Item : Rendered(k, i) \/ RenderDies(k, i)
      PROVE  (\E a \in Actor : Saves(a)) \/ Makes \/ (Goes /\ PlacesTyped')
  BY <1>3, LoopSteps, ActorsDiffer
<1>4. ASSUME SaveRendered PROVE \E a \in Actor : Saves(a)
  BY <1>4, ResultIsSaved, ActorsDiffer
<1> QED
  BY <1>1, <1>2, <1>3, <1>4 DEF RenderNext

LEMMA CountersNext ==
  ASSUME Placed, RenderNext
  PROVE  /\ again' \in BOOLEAN /\ calls' \in 0 .. MaxCalls /\ restarts' \in Nat /\ strays' \in Nat
         /\ wanted' \in [Client -> Kind \cup {None}]
<1>1. /\ again \in BOOLEAN /\ calls \in 0 .. MaxCalls /\ restarts \in Nat /\ strays \in Nat
      /\ wanted \in [Client -> Kind \cup {None}]
  BY DEF Placed, RenderTypeOK, TypeOK
<1> DEFINE Typed == /\ again' \in BOOLEAN /\ calls' \in 0 .. MaxCalls /\ restarts' \in Nat /\ strays' \in Nat
                    /\ wanted' \in [Client -> Kind \cup {None}]
<1>2. ASSUME Alone, NEW c \in Client, ClientNext(c) \/ \E o \in Request : Handle(c, o) PROVE Typed
  <2>1. again' \in BOOLEAN
    BY <1>1, <1>2 DEF ClientNext, StartNext, Save, Ensure, StartNothing, StartItems, SaveStarted, Second, Handle
  <2>2. \/ UNCHANGED <<calls, restarts, strays>>
        \/ calls < MaxCalls /\ calls' = calls + 1 /\ UNCHANGED <<restarts, strays>>
    BY <1>2 DEF ClientNext, StartNext, Save, Ensure, StartNothing, StartItems, SaveStarted, Handle, bounds
  <2> QED
    BY <1>1, <1>2, <2>1, <2>2, BatchAssumption DEF Alone
<1>3. ASSUME Alone, DriverNext PROVE Typed
  <2>1. again' \in BOOLEAN
    <3>1. ASSUME SyncUnchanged \/ Reread PROVE again' \in BOOLEAN
      BY <3>1, JudgeSteps
    <3> QED
      BY <1>1, <1>3, <3>1 DEF DriverNext, StartNext, StartNothing, StartItems, SaveStarted, Second, SyncGone,
              Sync, SaveSynced, Finish, End
  <2>2. UNCHANGED <<calls, restarts, strays>>
    BY <1>3 DEF DriverNext, StartNext, StartNothing, StartItems, SaveStarted, SyncGone, SyncUnchanged,
              Sync, SaveSynced, Reread, Finish, End, bounds
  <2> QED
    BY <1>1, <1>3, <2>1, <2>2 DEF Alone
<1>4. ASSUME JobEnds PROVE Typed
  <2>1. PICK j \in DOMAIN jobs : Settle(j) \/ Revive(j) \/ Stall(j) \/ RetryJob(j) \/ DeleteJob(j)
    BY <1>4 DEF JobEnds
  <2>2. UNCHANGED <<calls, restarts, again, wanted>> /\ strays' \in {strays, strays + 1}
    BY <1>4, <2>1 DEF JobEnds, Settle, Revive, Stall, RetryJob, DeleteJob, Stray, bounds, Alone
  <2> QED
    BY <1>1, <2>2
<1>5. ASSUME Restarts PROVE Typed
  <2>1. /\ restarts' = restarts + 1 /\ again' = FALSE /\ UNCHANGED <<calls, strays>>
        /\ wanted' = [c \in Client |-> None]
    BY <1>5, Zenon DEF Restarts, Restart
  <2>2. wanted' \in [Client -> Kind \cup {None}] /\ again' \in BOOLEAN
    BY <2>1
  <2>3. restarts' \in Nat /\ strays' \in Nat
    BY <1>1, <2>1
  <2> QED
    BY <1>1, <2>1, <2>2, <2>3
<1>6. ASSUME NEW c \in Client, RenderClientNext(c) \/ \E k \in Kind, f \in BOOLEAN : RequestRender(c, k, f) PROVE Typed
  <2>1. ASSUME NEW k \in Kind, NEW f \in BOOLEAN, RequestRender(c, k, f) PROVE Typed
    BY <1>1, <2>1, BatchAssumption DEF RequestRender
  <2>2. ASSUME SaveRendering(c) PROVE Typed
    BY <1>1, <2>2 DEF SaveRendering, bounds
  <2>3. ASSUME NEW k \in Kind, RenderNothing(c, k) \/ RenderItems(c, k) \/ EnsureRender(c, k) PROVE Typed
    BY <1>1, <2>3 DEF RenderNothing, RenderItems, EnsureRender, bounds
  <2> QED
    BY <1>6, <2>1, <2>2, <2>3 DEF RenderClientNext
<1>7. ASSUME NEW k \in Kind, LoopNext(k) \/ \E i \in Item : Rendered(k, i) \/ RenderDies(k, i) PROVE Typed
  BY <1>1, <1>7 DEF LoopNext, RenderNothing, RenderItems, SaveRendering, CheckRender, EndRender, Rendered, RenderDies,
                    vars, bounds
<1>8. ASSUME SaveRendered PROVE Typed
  BY <1>1, <1>8 DEF SaveRendered, bounds
<1> QED
  BY <1>2, <1>3, <1>4, <1>5, <1>6, <1>7, <1>8, RunnerSteps DEF RenderNext

LEMMA MakesSpare ==
  ASSUME Makes
  PROVE  died' = died
  BY DEF Makes, Alone, RequestRender, RenderItems, Rendered

\* A document that is made is as true as the one it is made of.
LEMMA MakesTruth ==
  ASSUME Placed, DocumentsAreTruthful, Makes
  PROVE  /\ \E a \in Actor : \E w, l, n : Keeps(a, w, l, n) /\ Truthful(w, jobs', attached')
         /\ Advance(jobs, jobs') /\ jobs' \in Seq(JobRecord)
         /\ attached \subseteq attached' /\ VersionsAreMade(jobs', attached') /\ attached' \subseteq DOMAIN jobs'
         /\ threads' \in [Kind -> [Item -> Nat]]
<1> DEFINE Goal == /\ \E a \in Actor : \E w, l, n : Keeps(a, w, l, n) /\ Truthful(w, jobs', attached')
                   /\ Advance(jobs, jobs') /\ jobs' \in Seq(JobRecord)
                   /\ attached \subseteq attached' /\ VersionsAreMade(jobs', attached') /\ attached' \subseteq DOMAIN jobs'
                   /\ threads' \in [Kind -> [Item -> Nat]]
<1>1. /\ jobs \in Seq(JobRecord) /\ attached \subseteq DOMAIN jobs /\ threads \in [Kind -> [Item -> Nat]]
      /\ VersionsAreMade(jobs, attached) /\ Advance(jobs, jobs) /\ Truthful(stored, jobs, attached)
  BY JobsStay DEF Placed, BatchTypes, DocumentsAreTruthful
<1>2. ASSUME NEW c \in Client, NEW o \in Request, Handle(c, o), Alone PROVE Goal
  <2>1. /\ Keeps(c, Changed(o, stored), "save", IF o \in {"launch", "resume", "retry"} THEN "start" ELSE "idle")
        /\ UNCHANGED <<jobs, attached>>
    BY <1>2, HandleKeeps
  <2>2. Truthful(Changed(o, stored), jobs, attached)
    BY <2>1, HandleTruth DEF Keeps
  <2> QED
    BY <1>1, <1>2, <2>1, <2>2, ActorsDiffer DEF Alone
<1>3. ASSUME NEW c \in Client, NEW k \in Kind, NEW f \in BOOLEAN, RequestRender(c, k, f) PROVE Goal
  <2> DEFINE w == WithRender(stored, k, Queued(stored, k, f))
  <2>1. Keeps(c, w, "save", "render") /\ UNCHANGED <<jobs, attached>>
    BY <1>3, RequestRenderKeeps
  <2>2. stored \in Document
    BY <2>1 DEF Keeps
  <2>3. Truthful(w, jobs, attached)
    BY <1>1, <2>2, QueuedType, RenderedDocument, TruthOfSame
  <2>4. threads' = threads
    BY <1>3 DEF RequestRender
  <2> HIDE DEF w
  <2> QED
    BY <1>1, <2>1, <2>3, <2>4, ActorsDiffer
<1>4. ASSUME NEW a \in Client \cup {Driver}, StartItems(a), Alone PROVE Goal
  <2>1. PICK bad \in SUBSET In(stored, "queued") :
          Keeps(a, WithJobs(bad), "startSave", AfterStart(a)) /\ jobs' = JobsWith(bad)
    BY <1>4, StartItemsKeeps
  <2>2. UNCHANGED attached
    BY <1>4, StartItemsKeeps
  <2>3. stored \in Document
    BY <2>1 DEF Keeps
  <2>4. /\ Advance(jobs, jobs') /\ VersionsAreMade(jobs', attached)
        /\ Truthful(WithJobs(bad), jobs', attached)
    BY <2>1, <2>3, StartTruth
  <2>5. jobs' \in Seq(JobRecord) /\ DOMAIN jobs \subseteq DOMAIN jobs'
    BY <2>1, <2>3, StartedJobs
  <2>6. a \in Actor
    BY ActorsDiffer
  <2> QED
    BY <1>1, <1>4, <2>1, <2>2, <2>4, <2>5, <2>6 DEF Alone
<1>5. ASSUME Sync, Alone PROVE Goal
  <2>1. Keeps(Driver, Synced(stored, Status), "syncSave", "reread") /\ UNCHANGED jobs /\ attached \subseteq attached'
    BY <1>5, SyncKeeps
  <2>2. /\ Truthful(Synced(stored, Status), jobs, attached')
        /\ VersionsAreMade(jobs, attached') /\ attached' \subseteq DOMAIN jobs
    BY <1>5, SyncTruth
  <2> QED
    BY <1>1, <1>5, <2>1, <2>2, ActorsDiffer DEF Alone
<1>6. ASSUME Finishes, Alone PROVE Goal
  <2>1. Keeps(Driver, Finished(stored), "finish", "ending") /\ UNCHANGED <<jobs, attached>>
    BY <1>6 DEF Finishes
  <2>2. stored \in Document
    BY <2>1 DEF Keeps
  <2>3. Truthful(Finished(stored), jobs, attached)
    BY <1>1, <2>2, FinishedDocument, TruthOfSame
  <2> QED
    BY <1>1, <1>6, <2>1, <2>3, ActorsDiffer DEF Alone
<1>7. ASSUME NEW k \in Kind, NEW a \in Client \cup {k}, RenderItems(a, k) PROVE Goal
  <2> DEFINE w == WithRender(stored, k, Taken(k))
  <2>1. Keeps(a, w, "renderSave", NextStep(a)) /\ UNCHANGED <<jobs, attached, threads>>
    BY <1>7, RenderItemsKeeps
  <2>2. stored \in Document
    BY <2>1 DEF Keeps
  <2>3. Truthful(w, jobs, attached)
    BY <1>1, <2>2, TakenItems, RenderedDocument, TruthOfSame
  <2>4. a \in Actor
    BY ActorsDiffer
  <2> HIDE DEF w
  <2> QED
    BY <1>1, <2>1, <2>3, <2>4
<1>8. ASSUME NEW k \in Kind, NEW i \in Item, Rendered(k, i), stored # None PROVE Goal
  <2>1. PICK s \in {"completed", "failed"} :
          Keeps(Renderer, [stored EXCEPT !.items[i].render[k] = s], "renderSave", "idle")
    BY <1>8, RenderedKeeps
  <2>2. UNCHANGED <<jobs, attached>>
    BY <1>8, RenderedKeeps
  <2> DEFINE w == [stored EXCEPT !.items[i].render[k] = s]
  <2>3. stored \in Document /\ s \in RenderStatus
    BY <2>1 DEF Keeps, RenderStatus
  <2>4. w \in Document /\ \A j \in Item : /\ w.items[j].status = stored.items[j].status
                                          /\ w.items[j].job = stored.items[j].job
                                          /\ w.items[j].version = stored.items[j].version
    BY <2>3, OneRendered
  <2> HIDE DEF w
  <2>5. Truthful(w, jobs, attached)
    BY <1>1, <2>3, <2>4, TruthOfSame
  <2>6. threads' \in [Kind -> [Item -> Nat]]
    BY <1>1, <1>8 DEF Rendered
  <2>7. Keeps(Renderer, w, "renderSave", "idle") /\ Renderer \in Actor
    BY <2>1, ActorsDiffer DEF w
  <2> QED
    BY <1>1, <2>2, <2>5, <2>6, <2>7
<1> QED
  BY <1>2, <1>3, <1>4, <1>5, <1>6, <1>7, <1>8 DEF Makes

\* A job that ends, or that is stalled, retried or deleted by itself.
LEMMA JobEndsSteps ==
  ASSUME Placed, JobEnds
  PROVE  /\ UNCHANGED <<stored, attached, lock, pc, copy, lapses, threads, died, restarts>>
         /\ \E j \in DOMAIN jobs, s \in JobStatus, n \in Nat : Becomes(j, s, n)
<1>1. PICK j \in DOMAIN jobs : Settle(j) \/ Revive(j) \/ Stall(j) \/ RetryJob(j) \/ DeleteJob(j)
  BY DEF JobEnds
<1>2. UNCHANGED <<stored, attached, lock, pc, copy, lapses, threads, died, restarts>>
  <2>1. UNCHANGED <<threads, died>>
    BY DEF JobEnds, Alone
  <2>2. UNCHANGED <<stored, attached, lock, pc, copy, lapses, restarts>>
    <3>1. CASE Settle(j)
      BY <3>1 DEF Settle, bounds
    <3>2. CASE Revive(j)
      BY <3>2 DEF Revive, bounds
    <3>3. CASE Stall(j) \/ RetryJob(j) \/ DeleteJob(j)
      BY <3>3 DEF Stall, RetryJob, DeleteJob, Stray
    <3> QED
      BY <1>1, <3>1, <3>2, <3>3
  <2> QED
    BY <2>1, <2>2
<1>3. jobs[j].workers \in Nat
  <2>1. jobs \in Seq(JobRecord)
    BY DEF Placed, BatchTypes
  <2>2. jobs[j] \in JobRecord
    BY <2>1
  <2> QED
    BY <2>2 DEF JobRecord
<1>4. CASE Settle(j)
  <2>1. PICK s \in {"completed", "failed"} \cup ({"gone"} \cap {jobs[j].status}) : Becomes(j, s, jobs[j].workers - 1)
    BY <1>4 DEF Settle
  <2>2. jobs[j].workers - 1 \in Nat /\ s \in JobStatus
    BY <1>3, <1>4 DEF Settle, JobStatus
  <2> QED
    BY <1>2, <2>1, <2>2
<1>5. CASE Revive(j)
  BY <1>2, <1>3, <1>5 DEF Revive, JobStatus
<1>6. CASE Stall(j)
  BY <1>2, <1>3, <1>6 DEF Stall, Stray, JobStatus
<1>7. CASE RetryJob(j)
  <2>1. Becomes(j, "running", jobs[j].workers + 1)
    BY <1>7 DEF RetryJob, Stray
  <2>2. jobs[j].workers + 1 \in Nat /\ "running" \in JobStatus
    BY <1>3 DEF JobStatus
  <2> QED
    BY <1>2, <2>1, <2>2
<1>8. CASE DeleteJob(j)
  BY <1>2, <1>3, <1>8 DEF DeleteJob, Stray, JobStatus
<1> QED
  BY <1>1, <1>4, <1>5, <1>6, <1>7, <1>8

LEMMA JobEndsAdvance ==
  ASSUME Placed, JobEnds
  PROVE  jobs' \in Seq(JobRecord) /\ DOMAIN jobs' = DOMAIN jobs /\ Advance(jobs, jobs')
<1>1. PICK j \in DOMAIN jobs, s \in JobStatus, n \in Nat : Becomes(j, s, n)
  BY JobEndsSteps
<1>2. jobs \in Seq(JobRecord)
  BY DEF Placed, BatchTypes
<1>3. jobs[j] \in JobRecord
  BY <1>2
<1> DEFINE p == jobs[j].plain /\ jobs[j].status = "running" /\ s # "gone"
           r == [jobs[j] EXCEPT !.status = s, !.workers = n, !.plain = p]
<1>4. p => jobs[j].plain /\ jobs[j].status = "running"
  OBVIOUS
<1>0. p \in BOOLEAN
  BY Zenon
<1>5. jobs' = [jobs EXCEPT ![j] = r]
  BY <1>1 DEF Becomes
<1> HIDE DEF p
<1>9. r = [jobs[j] EXCEPT !.status = s, !.workers = n, !.plain = p]
  OBVIOUS
<1> HIDE DEF r
<1>6. r \in JobRecord /\ r.item = jobs[j].item /\ r.plain = p
  BY <1>0, <1>1, <1>3, <1>9, Zenon DEF JobRecord
<1>7. jobs' \in Seq(JobRecord) /\ DOMAIN jobs' = DOMAIN jobs /\ \A i \in DOMAIN jobs : jobs'[i] = IF i = j THEN r ELSE jobs[i]
  BY <1>2, <1>5, <1>6
<1>8. Advance(jobs, jobs')
  BY <1>4, <1>6, <1>7 DEF Advance
<1> QED
  BY <1>7, <1>8

BatchTruth == Placed /\ DocumentsAreTruthful

LEMMA BatchTruthInit == RenderInit => BatchTruth
<1> SUFFICES ASSUME RenderInit PROVE BatchTruth
  OBVIOUS
<1>1. PICK n \in 0 .. Items :
         /\ stored = Imported(n)
         /\ jobs = [j \in 1 .. n |-> [item |-> j, status |-> "completed", workers |-> 0, plain |-> TRUE]]
         /\ attached = (1 .. n) \cap Grouped
  BY DEF RenderInit, Init
<1>2. n \in Nat /\ Items \in Nat /\ n <= Items
  BY BatchAssumption
<1>3. \A j \in 1 .. n : j \in Item
  BY <1>2 DEF Item
<1>4. jobs \in Seq(JobRecord) /\ DOMAIN jobs = 1 .. n /\ \A j \in 1 .. n : jobs[j].item = j /\ jobs[j].status = "completed"
  <2>1. jobs \in [1 .. n -> JobRecord]
    BY <1>1, <1>3 DEF JobRecord, JobStatus
  <2> QED
    BY <1>1, <1>2, <2>1, SeqDef
<1>5. NotStarted \in [Kind -> RenderStatus]
  BY DEF NotStarted, RenderStatus
<1>6. ASSUME NEW i \in Item
      PROVE  /\ stored.items[i] \in BatchItem
             /\ TruthfulItem(i, stored.items[i], jobs, attached)
  <2>1. stored.items[i] = [status  |-> IF i <= n THEN "completed" ELSE "queued",
                           job     |-> IF i <= n THEN i ELSE 0,
                           version |-> IF i <= n /\ i \in Grouped THEN i ELSE 0,
                           render  |-> NotStarted]
    BY <1>1 DEF Imported
  <2>2. i \in Nat /\ (i <= n => i \in 1 .. n) /\ i # 0
    BY <1>2 DEF Item
  <2>3. stored.items[i] \in BatchItem
    BY <1>5, <2>1, <2>2 DEF BatchItem
  <2> DEFINE m == stored.items[i]
  <2>4. /\ i <= n => m.status = "completed" /\ m.job = i
        /\ ~(i <= n) => m.status = "queued" /\ m.job = 0
        /\ m.version = IF i <= n /\ i \in Grouped THEN i ELSE 0
    BY <2>1
  <2> HIDE DEF m
  <2>5. CASE i <= n
    <3>1. i \in DOMAIN jobs /\ jobs[i].item = i /\ jobs[i].status = "completed"
      BY <1>4, <2>2, <2>5
    <3>2. i \in Grouped => i \in attached
      BY <1>1, <2>2, <2>5
    <3>3. TruthfulItem(i, m, jobs, attached)
      BY <2>2, <2>4, <2>5, <3>1, <3>2 DEF TruthfulItem
    <3> QED
      BY <2>3, <3>3 DEF m
  <2>6. CASE ~(i <= n)
    <3>1. TruthfulItem(i, m, jobs, attached)
      BY <2>4, <2>6 DEF TruthfulItem
    <3> QED
      BY <2>3, <3>1 DEF m
  <2> QED
    BY <2>5, <2>6
<1>7. stored \in Document
  <2>1. stored = [status |-> IF n = 0 THEN "draft" ELSE IF n < Items THEN "paused" ELSE "completed",
                  items |-> stored.items]
    BY <1>1 DEF Imported
  <2>2. stored.items \in [Item -> BatchItem]
    <3>1. stored.items = [i \in Item |-> stored.items[i]]
      BY <1>1 DEF Imported
    <3> QED
      BY <1>6, <3>1
  <2> QED
    BY <2>1, <2>2 DEF Document
<1>8. \A a \in Actor : pc[a] = "idle" /\ copy[a] = None
  BY DEF RenderInit, Init
<1>9. /\ pc \in [Actor -> Label] /\ copy = [a \in Actor |-> None] /\ lock = None /\ again = FALSE /\ calls = 0 /\ restarts = 0
      /\ strays = 0 /\ lapses = {} /\ threads = NoThreads /\ died = {} /\ wanted = [c \in Client |-> None]
  BY DEF RenderInit, Init, Label
<1>10. attached \subseteq DOMAIN jobs
  BY <1>1, <1>4
<1>11. BatchTypes
  BY <1>4, <1>7, <1>9, <1>10 DEF BatchTypes, NoThreads
<1>12. RenderTypeOK
  <2>1. calls \in 0 .. MaxCalls /\ restarts \in Nat /\ strays \in Nat
    BY <1>9, BatchAssumption
  <2>2. wanted \in [Client -> Kind \cup {None}]
    BY <1>9
  <2> QED
    BY <1>9, <1>11, <2>1, <2>2 DEF RenderTypeOK, TypeOK, BatchTypes, JobRecord, JobStatus
<1>13. ActorsArePlaced
  <2>1. \A a \in Actor : MayBeAt(a, "idle")
    BY ActorsDiffer DEF MayBeAt
  <2> QED
    BY <1>8, <2>1 DEF ActorsArePlaced, LockedAt, SavingAt
<1>14. DocumentsAreTruthful
  BY <1>1, <1>4, <1>6, <1>8 DEF DocumentsAreTruthful, Truthful, VersionsAreMade, SavingAt
<1> QED
  BY <1>11, <1>12, <1>13, <1>14 DEF BatchTruth, Placed

LEMMA PlacesMake ==
  ASSUME PlacesTyped', BatchTypes', again' \in BOOLEAN, calls' \in 0 .. MaxCalls, restarts' \in Nat /\ strays' \in Nat,
         wanted' \in [Client -> Kind \cup {None}]
  PROVE  Placed'
  BY DEF PlacesTyped, BatchTypes, Placed, RenderTypeOK, TypeOK, JobRecord, JobStatus, Copies

LEMMA BatchTruthNext == BatchTruth /\ [RenderNext]_renderVars => BatchTruth'
<1> SUFFICES ASSUME BatchTruth, [RenderNext]_renderVars PROVE BatchTruth'
  OBVIOUS
<1>1. Placed /\ DocumentsAreTruthful
  BY DEF BatchTruth
<1>2. /\ jobs \in Seq(JobRecord) /\ attached \subseteq DOMAIN jobs /\ threads \in [Kind -> [Item -> Nat]]
      /\ stored \in Document \cup {None} /\ lapses \subseteq {"overwritten", "missed"}
      /\ VersionsAreMade(jobs, attached) /\ died \subseteq Kind \X Item
  BY <1>1 DEF Placed, BatchTypes, DocumentsAreTruthful
<1>3. CASE UNCHANGED renderVars
  <2>1. UNCHANGED <<stored, jobs, attached, lock, pc, again, copy, calls, restarts, strays, lapses, threads, died, wanted>>
    BY <1>3 DEF renderVars, vars, shared, bounds
  <2>2. Placed'
    BY <1>1, <2>1 DEF Placed, BatchTypes, RenderTypeOK, TypeOK, ActorsArePlaced, MayBeAt, GoesOnAt, AfterStart, NextStep
  <2>3. DocumentsAreTruthful'
    BY <1>1, <1>2, <2>1, JobsStay, MoveTruth
  <2> QED
    BY <2>2, <2>3 DEF BatchTruth
<1>4. ASSUME RenderNext PROVE BatchTruth'
  <2>1. /\ again' \in BOOLEAN /\ calls' \in 0 .. MaxCalls /\ restarts' \in Nat /\ strays' \in Nat
        /\ wanted' \in [Client -> Kind \cup {None}]
    BY <1>1, <1>4, CountersNext
  <2>2. SUFFICES PlacesTyped' /\ BatchTypes' /\ DocumentsAreTruthful'
    BY <2>1, PlacesMake DEF BatchTruth
  <2>3. ASSUME NEW a \in Actor, Saves(a) PROVE PlacesTyped' /\ BatchTypes' /\ DocumentsAreTruthful'
    <3>1. /\ ActorsArePlaced' /\ lock' \in Actor \cup {None} /\ pc' \in [Actor -> Label]
          /\ copy' \in [Actor -> Copies \cup {None}] /\ stored' \in Document \cup {None}
      BY <1>1, <2>3, SaveIsPlaced
    <3>2. DocumentsAreTruthful'
      BY <1>1, <2>3, SaveTruth
    <3>3. threads' \in [Kind -> [Item -> Nat]]
      <4>1. \A k \in Kind, i \in Item : threads[k][i] \in Nat /\ threads[k][i] + 1 \in Nat
        BY <1>2
      <4> QED
        BY <1>2, <2>3, <4>1 DEF Saves
    <3>4. UNCHANGED <<jobs, attached, died>> /\ lapses' \subseteq {"overwritten", "missed"}
      BY <1>2, <2>3 DEF Saves, Blame
    <3> QED
      BY <1>2, <3>1, <3>2, <3>3, <3>4 DEF PlacesTyped, BatchTypes, Copies
  <2>4. ASSUME Makes PROVE PlacesTyped' /\ BatchTypes' /\ DocumentsAreTruthful'
    <3>1. PICK a \in Actor : \E w, l, n : Keeps(a, w, l, n) /\ Truthful(w, jobs', attached')
      BY <1>1, <2>4, MakesTruth
    <3>2. PICK w, l, n : Keeps(a, w, l, n) /\ Truthful(w, jobs', attached')
      BY <3>1
    <3>3. /\ Advance(jobs, jobs') /\ jobs' \in Seq(JobRecord)
          /\ attached \subseteq attached' /\ VersionsAreMade(jobs', attached') /\ attached' \subseteq DOMAIN jobs'
          /\ threads' \in [Kind -> [Item -> Nat]]
      BY <1>1, <2>4, MakesTruth
    <3>4. /\ ActorsArePlaced' /\ lock' \in Actor \cup {None} /\ pc' \in [Actor -> Label]
          /\ copy' \in [Actor -> Copies \cup {None}] /\ stored' \in Document \cup {None}
      BY <1>1, <3>2, KeepIsPlaced
    <3>5. DocumentsAreTruthful'
      BY <1>1, <3>2, <3>3, KeepTruth
    <3>6. lapses' = lapses /\ died' = died
      BY <2>4, <3>2, MakesSpare DEF Keeps
    <3> QED
      BY <1>2, <3>3, <3>4, <3>5, <3>6 DEF PlacesTyped, BatchTypes, Copies
  <2>5. ASSUME Goes, PlacesTyped' PROVE BatchTypes' /\ DocumentsAreTruthful'
    <3>1. /\ UNCHANGED <<stored, jobs, attached>> /\ lapses' \subseteq {"overwritten", "missed"}
          /\ threads' \in [Kind -> [Item -> Nat]] /\ died' \subseteq Kind \X Item
      BY <1>2, <2>5 DEF Goes
    <3>2. DocumentsAreTruthful'
      BY <1>1, <1>2, <2>5, <3>1, JobsStay, MoveTruth DEF Goes
    <3> QED
      BY <1>2, <3>1, <3>2 DEF BatchTypes
  <2>6. ASSUME JobEnds PROVE PlacesTyped' /\ BatchTypes' /\ DocumentsAreTruthful'
    <3>1. UNCHANGED <<stored, attached, lock, pc, copy, lapses, threads, died>>
      BY <1>1, <2>6, JobEndsSteps
    <3>2. jobs' \in Seq(JobRecord) /\ DOMAIN jobs' = DOMAIN jobs /\ Advance(jobs, jobs')
      BY <1>1, <2>6, JobEndsAdvance
    <3>3. VersionsAreMade(jobs', attached)
      BY <1>2, <3>2 DEF VersionsAreMade, Advance
    <3>4. DocumentsAreTruthful'
      BY <1>1, <3>1, <3>2, <3>3, MoveTruth
    <3>5. PlacesTyped'
      BY <1>1, <3>1 DEF PlacesTyped, Placed, RenderTypeOK, TypeOK, ActorsArePlaced, MayBeAt, GoesOnAt, AfterStart, NextStep, Copies
    <3> QED
      BY <1>2, <3>1, <3>2, <3>4, <3>5 DEF BatchTypes
  <2>7. ASSUME Restarts PROVE PlacesTyped' /\ BatchTypes' /\ DocumentsAreTruthful'
    <3>1. Restart /\ threads' = NoThreads /\ died' = {}
      BY <2>7 DEF Restarts
    <3>2. /\ DocumentsAreTruthful' /\ stored' \in Document \cup {None}
          /\ jobs' \in Seq(JobRecord) /\ attached' \subseteq DOMAIN jobs'
      BY <1>1, <3>1, RestartTruth
    <3>3. /\ pc' = [a \in Actor |-> "idle"] /\ copy' = [a \in Actor |-> None] /\ lock' = None
      BY <3>1 DEF Restart
    <3>4. lapses' \subseteq {"overwritten", "missed"}
      BY <1>2, <3>1 DEF Restart, Blame
    <3>5. \A a \in Actor : MayBeAt(a, "idle")
      BY ActorsDiffer DEF MayBeAt
    <3>6. ActorsArePlaced'
      BY <3>3, <3>5 DEF ActorsArePlaced, LockedAt, SavingAt, MayBeAt
    <3>7. PlacesTyped'
      BY <3>3, <3>6 DEF PlacesTyped, Label
    <3> QED
      BY <3>1, <3>2, <3>4, <3>7 DEF BatchTypes, NoThreads
  <2> QED
    BY <1>1, <1>4, <2>3, <2>4, <2>5, <2>6, <2>7, StepKinds
<1> QED
  BY <1>3, <1>4

\* Every document there is, also one that is read and not yet saved, tells the
\* truth about the jobs of its items, as long as nothing has changed their status
\* since they ended, and about their versions, whatever overwrites what; and
\* everything has its type.
THEOREM DocumentsStayTruthful == RenderSpec => []BatchTruth
  BY BatchTruthInit, BatchTruthNext, PTL DEF RenderSpec

-----------------------------------------------------------------------------
(* What a change does to the status of the batch and to the jobs of items   *)

Unmade == {"queued", "running"}

\* A batch that shows as finished is.
FinishedOK(d) ==
    d # None /\ d.status \in {"completed", "completed_with_errors"} =>
        \A i \in Item :
            /\ d.items[i].status \notin Unmade
            /\ d.status = "completed" => d.items[i].status # "failed"

\* No change takes its job from an item that is being made or has been made.
KeepsJobs(r, w) ==
    IF w = None THEN \A i \in Item : r.items[i].status # "running"
    ELSE \A i \in Item : r.items[i].status \in {"running", "completed"} => w.items[i].job = r.items[i].job

\* Of the actor that has read r, saves w at step l and goes on at n.
ChangesStatus(l, r, w, n) ==
    /\ l = "save" /\ w # None => \/ w.status = r.status
                                 \/ w.status = "running" /\ n = "start"
                                 \/ w.status = "paused" /\ r.status = "running"
    /\ l = "finish" => /\ r.status = "running" /\ w = Finished(r)
                       /\ \A i \in Item : r.items[i].status \notin Unmade
    /\ l \in {"startSave", "syncSave", "renderSave"} => w # None /\ w.status = r.status

SmallChange(l, r, w, n) ==
    KeepsJobs(r, w) /\ (FinishedOK(r) => FinishedOK(w)) /\ ChangesStatus(l, r, w, n)

ChangesAreSmall ==
    \A a \in Actor : pc[a] \in SavingAt => SmallChange(pc[a], Reads(a), Writes(a), copy[a].next)

LEMMA FinishedIsOK ==
  ASSUME NEW d \in Document \cup {None}
  PROVE  FinishedOK(d) <=>
           (d # None /\ d.status \in {"completed", "completed_with_errors"} =>
              /\ Unfinished(d) = {}
              /\ d.status = "completed" => In(d, "failed") = {})
  BY DEF FinishedOK, Unfinished, In, Unmade

LEMMA UnfinishedItems ==
  ASSUME NEW d, Unfinished(d) = {}
  PROVE  \A i \in Item : d.items[i].status \notin Unmade
  BY DEF Unfinished, In, Unmade

\* A change that leaves the status of the batch and of its items.
LEMMA SameStatusIsSmall ==
  ASSUME NEW r \in Document, NEW w \in Document, w.status = r.status,
         \A i \in Item : w.items[i].status = r.items[i].status /\ w.items[i].job = r.items[i].job,
         NEW l \in {"save", "renderSave"}, NEW n
  PROVE  SmallChange(l, r, w, n)
<1>1. r # None /\ w # None
  BY DocumentIsSome
<1>2. KeepsJobs(r, w)
  BY <1>1 DEF KeepsJobs
<1>3. FinishedOK(r) => FinishedOK(w)
  BY <1>1 DEF FinishedOK
<1>4. ChangesStatus(l, r, w, n)
  BY <1>1 DEF ChangesStatus
<1> QED
  BY <1>2, <1>3, <1>4 DEF SmallChange

LEMMA HandleIsSmall ==
  ASSUME NEW r \in Document, NEW o \in Request, Accepts(o, r)
  PROVE  SmallChange("save", r, Changed(o, r), IF o \in {"launch", "resume", "retry"} THEN "start" ELSE "idle")
<1> DEFINE w == Changed(o, r)
           n == IF o \in {"launch", "resume", "retry"} THEN "start" ELSE "idle"
<1>1. CASE o \in {"launch", "resume", "pause", "hide"}
  <2>1. w \in Document /\ w.items = r.items
    BY <1>1, ChangedDocument
  <2>2. w # None
    BY <2>1, DocumentIsSome
  <2>3. KeepsJobs(r, w)
    BY <2>1, <2>2 DEF KeepsJobs
  <2>4. /\ o \in {"launch", "resume"} => w.status = "running"
        /\ o = "pause" => w.status = "paused"
        /\ o = "hide" => w.status = r.status
    BY <1>1, ChangedDocument
  <2>5. o = "pause" => r.status = "running"
    BY DEF Accepts
  <2>6. o \in {"launch", "resume"} => n = "start"
    OBVIOUS
  <2> HIDE DEF w, n
  <2>7. FinishedOK(r) => FinishedOK(w)
    BY <1>1, <2>1, <2>4, DocumentIsSome DEF FinishedOK
  <2>8. ChangesStatus("save", r, w, n)
    BY <1>1, <2>4, <2>5, <2>6 DEF ChangesStatus
  <2>9. SmallChange("save", r, w, n)
    BY <2>3, <2>7, <2>8 DEF SmallChange
  <2> QED
    BY <2>9 DEF w, n
<1>2. CASE o = "delete"
  <2>1. w = None
    BY <1>2 DEF Changed
  <2>2. \A i \in Item : r.items[i].status # "running"
    BY <1>2 DEF Accepts, In
  <2> HIDE DEF w, n
  <2>3. SmallChange("save", r, w, n)
    BY <2>1, <2>2 DEF SmallChange, KeepsJobs, FinishedOK, ChangesStatus
  <2> QED
    BY <2>3 DEF w, n
<1>3. CASE o = "retry"
  <2>1. w \in Document /\ w.status = "running" /\ \A i \in Item : w.items[i] = Requeued(r.items[i])
    BY <1>3, RetriedDocument
  <2>2. \A i \in Item : r.items[i].status \in {"running", "completed"} => w.items[i].job = r.items[i].job
    BY <2>1, DocumentParts, RequeuedItem
  <2>3. n = "start"
    BY <1>3
  <2> HIDE DEF w, n
  <2>4. SmallChange("save", r, w, n)
    BY <2>1, <2>2, <2>3, DocumentIsSome DEF SmallChange, KeepsJobs, FinishedOK, ChangesStatus
  <2> QED
    BY <2>4 DEF w, n
<1> QED
  BY <1>1, <1>2, <1>3 DEF Request

LEMMA MakesSmall ==
  ASSUME Placed, Makes
  PROVE  \E a \in Actor : \E w, l, n : Keeps(a, w, l, n) /\ SmallChange(l, stored, w, n)
<1> DEFINE Goal == \E a \in Actor : \E w, l, n : Keeps(a, w, l, n) /\ SmallChange(l, stored, w, n)
<1>1. ASSUME NEW c \in Client, NEW o \in Request, Handle(c, o), Alone PROVE Goal
  <2> DEFINE n == IF o \in {"launch", "resume", "retry"} THEN "start" ELSE "idle"
  <2>1. Keeps(c, Changed(o, stored), "save", n) /\ Accepts(o, stored)
    BY <1>1, HandleKeeps
  <2>2. SmallChange("save", stored, Changed(o, stored), n)
    BY <2>1, HandleIsSmall DEF Keeps
  <2> HIDE DEF n
  <2> QED
    BY <2>1, <2>2, ActorsDiffer
<1>2. ASSUME NEW c \in Client, NEW k \in Kind, NEW f \in BOOLEAN, RequestRender(c, k, f) PROVE Goal
  <2> DEFINE w == WithRender(stored, k, Queued(stored, k, f))
  <2>1. Keeps(c, w, "save", "render")
    BY <1>2, RequestRenderKeeps
  <2>2. stored \in Document
    BY <2>1 DEF Keeps
  <2>3. /\ w \in Document /\ w.status = stored.status
        /\ \A i \in Item : w.items[i].status = stored.items[i].status /\ w.items[i].job = stored.items[i].job
    BY <2>2, QueuedType, RenderedDocument
  <2> HIDE DEF w
  <2>4. SmallChange("save", stored, w, "render")
    BY <2>2, <2>3, SameStatusIsSmall
  <2> QED
    BY <2>1, <2>4, ActorsDiffer
<1>3. ASSUME NEW a \in Client \cup {Driver}, StartItems(a), Alone PROVE Goal
  <2>1. PICK bad \in SUBSET In(stored, "queued") : Keeps(a, WithJobs(bad), "startSave", AfterStart(a))
    BY <1>3, StartItemsKeeps
  <2>2. stored \in Document /\ stored.status = "running"
    BY <1>3, <2>1, StartItemsKeeps DEF Keeps
  <2> DEFINE w == WithJobs(bad)
  <2>3. /\ w \in Document /\ w.status = "running"
        /\ \A i \in Item : stored.items[i].status # "queued" => w.items[i].job = stored.items[i].job
    <3>1. \A i \in Item : stored.items[i].status # "queued" => i \notin StartedOf(bad)
      BY StartedAreQueued DEF In
    <3> QED
      BY <2>2, <3>1, StartedDocument
  <2> HIDE DEF w
  <2>4. SmallChange("startSave", stored, w, AfterStart(a))
    BY <2>2, <2>3, DocumentIsSome DEF SmallChange, KeepsJobs, FinishedOK, ChangesStatus
  <2>5. a \in Actor /\ Keeps(a, w, "startSave", AfterStart(a))
    BY <2>1, ActorsDiffer DEF w
  <2> QED
    BY <2>4, <2>5
<1>4. ASSUME Sync, Alone PROVE Goal
  <2> DEFINE w == Synced(stored, Status)
  <2>1. Keeps(Driver, w, "syncSave", "reread")
    BY <1>4, SyncKeeps
  <2>2. stored \in Document
    BY <2>1 DEF Keeps
  <2>3. /\ w \in Document /\ w.status = stored.status
        /\ \A i \in Item : /\ w.items[i].job = stored.items[i].job
                           /\ stored.items[i].status # "running" => w.items[i].status = stored.items[i].status
    BY <2>2, SyncedDocument, SyncedItem
  <2> HIDE DEF w
  <2>4. KeepsJobs(stored, w)
    BY <2>3, DocumentIsSome DEF KeepsJobs
  <2>5. FinishedOK(stored) => FinishedOK(w)
    BY <2>2, <2>3, DocumentIsSome DEF FinishedOK, Unmade
  <2>6. SmallChange("syncSave", stored, w, "reread")
    BY <2>3, <2>4, <2>5, DocumentIsSome DEF SmallChange, ChangesStatus
  <2> QED
    BY <2>1, <2>6, ActorsDiffer
<1>5. ASSUME Finishes, Alone PROVE Goal
  <2> DEFINE w == Finished(stored)
  <2>1. Keeps(Driver, w, "finish", "ending") /\ stored.status = "running" /\ Unfinished(stored) = {}
    BY <1>5 DEF Finishes
  <2>2. stored \in Document
    BY <2>1 DEF Keeps
  <2>3. w \in Document /\ w.items = stored.items
        /\ w.status = IF In(stored, "failed") # {} THEN "completed_with_errors" ELSE "completed"
    BY <2>2, FinishedDocument
  <2>4. \A i \in Item : stored.items[i].status \notin Unmade
    BY <2>1, UnfinishedItems
  <2>5. w = Finished(stored)
    OBVIOUS
  <2> HIDE DEF w
  <2>6. FinishedOK(w)
    BY <2>3, <2>4 DEF FinishedOK, In
  <2>7. KeepsJobs(stored, w)
    BY <2>3, DocumentIsSome DEF KeepsJobs
  <2>8. SmallChange("finish", stored, w, "ending")
    BY <2>1, <2>4, <2>5, <2>6, <2>7 DEF SmallChange, ChangesStatus
  <2> QED
    BY <2>1, <2>8, ActorsDiffer
<1>6. ASSUME NEW k \in Kind, NEW a \in Client \cup {k}, RenderItems(a, k) PROVE Goal
  <2> DEFINE w == WithRender(stored, k, Taken(k))
  <2>1. Keeps(a, w, "renderSave", NextStep(a))
    BY <1>6, RenderItemsKeeps
  <2>2. stored \in Document
    BY <2>1 DEF Keeps
  <2>3. /\ w \in Document /\ w.status = stored.status
        /\ \A i \in Item : w.items[i].status = stored.items[i].status /\ w.items[i].job = stored.items[i].job
    BY <2>2, TakenItems, RenderedDocument
  <2>4. a \in Actor
    BY ActorsDiffer
  <2> HIDE DEF w
  <2>5. SmallChange("renderSave", stored, w, NextStep(a))
    BY <2>2, <2>3, SameStatusIsSmall
  <2> QED
    BY <2>1, <2>4, <2>5
<1>7. ASSUME NEW k \in Kind, NEW i \in Item, Rendered(k, i), stored # None PROVE Goal
  <2>1. PICK s \in {"completed", "failed"} :
          Keeps(Renderer, [stored EXCEPT !.items[i].render[k] = s], "renderSave", "idle")
    BY <1>7, RenderedKeeps
  <2> DEFINE w == [stored EXCEPT !.items[i].render[k] = s]
  <2>2. stored \in Document /\ s \in RenderStatus
    BY <2>1 DEF Keeps, RenderStatus
  <2>3. /\ w \in Document /\ w.status = stored.status
        /\ \A j \in Item : w.items[j].status = stored.items[j].status /\ w.items[j].job = stored.items[j].job
    BY <2>2, OneRendered
  <2> HIDE DEF w
  <2>4. SmallChange("renderSave", stored, w, "idle")
    BY <2>2, <2>3, SameStatusIsSmall
  <2>5. Keeps(Renderer, w, "renderSave", "idle") /\ Renderer \in Actor
    BY <2>1, ActorsDiffer DEF w
  <2> QED
    BY <2>4, <2>5
<1> QED
  BY <1>1, <1>2, <1>3, <1>4, <1>5, <1>6, <1>7 DEF Makes

\* An actor that saves had its document in hand.
LEMMA SavesSmall ==
  ASSUME Placed, ChangesAreSmall, NEW a \in Actor, Saves(a)
  PROVE  /\ SmallChange(pc[a], Reads(a), Writes(a), copy[a].next)
         /\ stored' = Writes(a) /\ Reads(a) \in Document /\ Writes(a) \in Document \cup {None}
         /\ GoesOnAt(a, pc[a], copy[a].next) /\ MayBeAt(a, pc[a]) /\ pc[a] \in SavingAt
         /\ \A b \in Actor : pc'[b] = IF b = a THEN copy[a].next ELSE pc[b]
         /\ "overwritten" \notin lapses' => stored = Reads(a) /\ "overwritten" \notin lapses
<1>1. pc[a] \in SavingAt /\ stored' = Writes(a)
  BY DEF Saves, Writes
<1>2. copy[a] \in Copies /\ GoesOnAt(a, pc[a], copy[a].next) /\ MayBeAt(a, pc[a])
  BY <1>1 DEF Placed, ActorsArePlaced
<1>3. Reads(a) \in Document /\ Writes(a) \in Document \cup {None}
  BY <1>2 DEF Copies, Reads, Writes
<1>4. "overwritten" \notin lapses' => stored = Reads(a) /\ "overwritten" \notin lapses
  BY DEF Saves, Blame, Reads
<1>5. \A b \in Actor : pc'[b] = IF b = a THEN copy[a].next ELSE pc[b]
  BY DEF Saves, Placed, RenderTypeOK, TypeOK
<1> QED
  BY <1>1, <1>2, <1>3, <1>4, <1>5 DEF ChangesAreSmall

LEMMA ChangesStaySmall ==
  ASSUME Placed, ChangesAreSmall, [RenderNext]_renderVars
  PROVE  ChangesAreSmall'
<1>0. pc \in [Actor -> Label] /\ copy \in [Actor -> Copies \cup {None}]
  BY DEF Placed, RenderTypeOK, TypeOK, Copies
<1>1. ASSUME \A a \in Actor : pc'[a] \in SavingAt => pc'[a] = pc[a] /\ copy'[a] = copy[a]
      PROVE  ChangesAreSmall'
  <2>1. ASSUME NEW a \in Actor, pc'[a] \in SavingAt
        PROVE  SmallChange(pc'[a], copy'[a].read, copy'[a].write, copy'[a].next)
    BY <1>1, <2>1 DEF ChangesAreSmall, Reads, Writes
  <2> QED
    BY <2>1 DEF ChangesAreSmall, Reads, Writes
<1>2. CASE UNCHANGED renderVars
  BY <1>1, <1>2 DEF renderVars, vars
<1>3. ASSUME NEW a \in Actor, Saves(a) PROVE ChangesAreSmall'
  <2>1. copy[a].next \notin SavingAt
    BY <1>3 DEF Placed, ActorsArePlaced, Saves, SavingAt, GoesOnAt, AfterStart, NextStep
  <2>2. \A b \in Actor : pc'[b] \in SavingAt => pc'[b] = pc[b] /\ copy'[b] = copy[b]
    BY <1>0, <1>3, <2>1 DEF Saves
  <2> QED
    BY <1>1, <2>2
<1>4. ASSUME Makes PROVE ChangesAreSmall'
  <2>1. PICK a \in Actor : \E w, l, n : Keeps(a, w, l, n) /\ SmallChange(l, stored, w, n)
    BY <1>4, MakesSmall
  <2>2. PICK w, l, n : Keeps(a, w, l, n) /\ SmallChange(l, stored, w, n)
    BY <2>1
  <2>3. /\ \A b \in Actor : b # a => pc'[b] = pc[b] /\ copy'[b] = copy[b]
        /\ pc'[a] = l /\ copy'[a].read = stored /\ copy'[a].write = w /\ copy'[a].next = n
    BY <1>0, <2>2 DEF Keeps
  <2>4. ASSUME NEW b \in Actor, pc'[b] \in SavingAt
        PROVE  SmallChange(pc'[b], copy'[b].read, copy'[b].write, copy'[b].next)
    <3>1. CASE b = a
      BY <2>2, <2>3, <3>1
    <3>2. CASE b # a
      BY <2>3, <2>4, <3>2 DEF ChangesAreSmall, Reads, Writes
    <3> QED
      BY <3>1, <3>2
  <2> QED
    BY <2>4 DEF ChangesAreSmall, Reads, Writes
<1>5. ASSUME Goes PROVE ChangesAreSmall'
  BY <1>1, <1>5 DEF Goes
<1>6. ASSUME JobEnds PROVE ChangesAreSmall'
  BY <1>1, <1>6, JobEndsSteps
<1>7. ASSUME Restarts PROVE ChangesAreSmall'
  <2>1. \A a \in Actor : pc'[a] \notin SavingAt
    BY <1>7, RestartFinds DEF Restarts, SavingAt
  <2> QED
    BY <1>1, <2>1
<1> QED
  BY <1>2, <1>3, <1>4, <1>5, <1>6, <1>7, StepKinds

\* A document that a restart finds under another status than the stored one is
\* one of an actor that was saving it; unless an old document is put back, that
\* actor had read the stored one.
LEMMA RestartStatus ==
  ASSUME Placed, ChangesAreSmall, Restart
  PROVE  /\ stored' # None => stored'.status # "running"
         /\ "overwritten" \notin lapses' =>
              /\ "overwritten" \notin lapses
              /\ FinishedOK(stored) => FinishedOK(stored')
              /\ stored # None /\ stored.status = "paused" /\ stored' # None =>
                   stored'.status = "paused" \/ Unfinished(stored') = {}
<1>1. PICK d \in Document \cup {None} :
         /\ Found(d) /\ stored' = Recovered(d, CutStatus)
         /\ d = None <=> stored = None
         /\ d # None => d.items = stored.items
  BY RestartFinds
<1>2. CASE d = None
  <2>1. stored' = None /\ stored = None
    BY <1>1, <1>2, RecoveredNone
  <2>2. lapses' = lapses
    BY <1>1, <1>2, <2>1 DEF Found
  <2> QED
    BY <2>1, <2>2 DEF FinishedOK
<1>3. CASE d # None
  <2>1. d \in Document /\ stored \in Document
    BY <1>1, <1>3 DEF Placed, BatchTypes
  <2> DEFINE w == stored'
  <2>2. /\ w \in Document /\ w.status # "running"
        /\ \/ d.status \notin {"running", "paused"} /\ w = Halted(d)
           \/ /\ d.status \in {"running", "paused"}
              /\ \/ w.status = "paused"
                 \/ Unfinished(w) = {} /\ w.status = IF In(w, "failed") # {} THEN "completed_with_errors" ELSE "completed"
    BY <1>1, <2>1, RecoveredDocument
  <2>3. /\ Halted(d).status = d.status
        /\ \A i \in Item : Halted(d).items[i].status = d.items[i].status
    BY <2>1, HaltedDocument
  <2>4. SUFFICES ASSUME "overwritten" \notin lapses'
                 PROVE  /\ "overwritten" \notin lapses
                        /\ FinishedOK(stored) => FinishedOK(w)
                        /\ stored.status = "paused" => w.status = "paused" \/ Unfinished(w) = {}
    BY <2>2
  <2>5. \/ d = stored /\ lapses' = lapses
        \/ \E a \in Actor : /\ pc[a] \in SavingAt /\ d = [stored EXCEPT !.status = Writes(a).status]
                            /\ Writes(a) # None /\ Reads(a) = stored /\ "overwritten" \notin lapses
    BY <1>1, <2>4 DEF Found, Blame, Reads
  <2>6. /\ "overwritten" \notin lapses
        /\ FinishedOK(stored) => FinishedOK(d)
        /\ stored.status = "paused" => d.status \in {"running", "paused"}
    <3>1. CASE d = stored /\ lapses' = lapses
      BY <2>4, <3>1
    <3>2. ASSUME NEW a \in Actor, pc[a] \in SavingAt, d = [stored EXCEPT !.status = Writes(a).status],
                 Writes(a) # None, Reads(a) = stored
          PROVE  /\ FinishedOK(stored) => FinishedOK(d)
                 /\ stored.status = "paused" => d.status \in {"running", "paused"}
      <4>1. SmallChange(pc[a], stored, Writes(a), copy[a].next)
        BY <3>2 DEF ChangesAreSmall
      <4>2. Writes(a) \in Document
        BY <3>2 DEF Placed, ActorsArePlaced, Copies, Writes
      <4> DEFINE x == Writes(a)
      <4>3. d.status = x.status /\ d.items = stored.items
        BY <1>1, <1>3, <2>1, <3>2 DEF Document
      <4>4. ChangesStatus(pc[a], stored, x, copy[a].next)
        BY <4>1 DEF SmallChange
      <4>5. x \in Document /\ x # None
        BY <3>2, <4>2
      <4> HIDE DEF x
      <4>6. CASE pc[a] = "finish"
        <5>1. stored.status = "running" /\ \A i \in Item : stored.items[i].status \notin Unmade
          BY <4>4, <4>6 DEF ChangesStatus
        <5>2. x = Finished(stored)
          BY <4>4, <4>6 DEF ChangesStatus
        <5>3. x.status = IF In(stored, "failed") # {} THEN "completed_with_errors" ELSE "completed"
          BY <2>1, <5>2, FinishedDocument
        <5>4. FinishedOK(d)
          BY <4>3, <5>1, <5>3 DEF FinishedOK, In
        <5> QED
          BY <5>1, <5>4
      <4>7. CASE pc[a] # "finish"
        <5>1. x.status = stored.status \/ x.status = "running" \/ (x.status = "paused" /\ stored.status = "running")
          BY <3>2, <4>4, <4>5, <4>7 DEF ChangesStatus, SavingAt
        <5>2. FinishedOK(stored) => FinishedOK(d)
          BY <2>1, <4>3, <5>1, DocumentIsSome DEF FinishedOK
        <5> QED
          BY <4>3, <5>1, <5>2
      <4> QED
        BY <4>6, <4>7
    <3> QED
      BY <2>5, <3>1, <3>2
  <2> HIDE DEF w
  <2>7. CASE d.status \notin {"running", "paused"} /\ w = Halted(d)
    <3>1. FinishedOK(d) => FinishedOK(w)
      BY <2>1, <2>3, <2>7, DocumentIsSome DEF FinishedOK
    <3> QED
      BY <2>6, <2>7, <3>1
  <2>8. CASE w.status = "paused"
    BY <2>6, <2>8 DEF FinishedOK
  <2>9. CASE Unfinished(w) = {} /\ w.status = IF In(w, "failed") # {} THEN "completed_with_errors" ELSE "completed"
    <3>1. FinishedOK(w)
      BY <2>2, <2>9, FinishedIsOK
    <3> QED
      BY <2>6, <2>9, <3>1
  <2> QED
    BY <2>2, <2>7, <2>8, <2>9 DEF w
<1> QED
  BY <1>2, <1>3

\* The three facts about the status of the batch that every step keeps.
BatchStatus ==
    /\ ChangesAreSmall
    /\ ~Overwritten => FinishedOK(stored)
    /\ lapses = {} => RunningIsDriven

\* A batch that is running is still driven after a save.
LEMMA SaveIsDriven ==
  ASSUME Placed, ChangesAreSmall, lapses = {} => RunningIsDriven, NEW a \in Actor, Saves(a)
  PROVE  lapses' = {} => RunningIsDriven'
<1>1. /\ SmallChange(pc[a], Reads(a), Writes(a), copy[a].next)
      /\ stored' = Writes(a) /\ Reads(a) \in Document /\ Writes(a) \in Document \cup {None}
      /\ GoesOnAt(a, pc[a], copy[a].next) /\ MayBeAt(a, pc[a]) /\ pc[a] \in SavingAt
      /\ \A b \in Actor : pc'[b] = IF b = a THEN copy[a].next ELSE pc[b]
      /\ "overwritten" \notin lapses' => stored = Reads(a)
  BY SavesSmall
<1>2. lapses' = {} => lapses = {}
  BY DEF Saves
<1>3. SUFFICES ASSUME lapses' = {}, stored' # None, stored'.status = "running"
               PROVE  \/ pc'[Driver] \notin {"idle", "ending"}
                      \/ \E c \in Client : pc'[c] \in StartsJobsAt
  BY DEF RunningIsDriven, IsRunning, StartsJobsAt
<1> DEFINE r == Reads(a)
           w == Writes(a)
           n == copy[a].next
<1>4. /\ ChangesStatus(pc[a], r, w, n) /\ w # None /\ w.status = "running"
      /\ stored = r /\ r \in Document /\ r # None
  BY <1>1, <1>3, DocumentIsSome DEF SmallChange
<1> HIDE DEF r, w, n
<1>5. ASSUME r.status = "running", a # Driver, pc[a] \notin StartsJobsAt
      PROVE  \/ pc'[Driver] \notin {"idle", "ending"}
             \/ \E c \in Client : pc'[c] \in StartsJobsAt
  <2>1. \/ pc[Driver] \notin {"idle", "ending"}
        \/ \E c \in Client : pc[c] \in StartsJobsAt
    BY <1>2, <1>3, <1>4, <1>5 DEF RunningIsDriven, IsRunning, StartsJobsAt
  <2>2. CASE pc[Driver] \notin {"idle", "ending"}
    BY <1>1, <1>5, <2>2, ActorsDiffer
  <2>3. ASSUME NEW c \in Client, pc[c] \in StartsJobsAt PROVE pc'[c] \in StartsJobsAt
    BY <1>1, <1>5, <2>3, ActorsDiffer
  <2> QED
    BY <2>1, <2>2, <2>3
<1>6. CASE pc[a] = "save"
  <2>1. a \in Client
    BY <1>1, <1>6, ActorsDiffer DEF MayBeAt
  <2>2. r.status = "running" \/ n = "start"
    BY <1>4, <1>6 DEF ChangesStatus
  <2>3. n = "start" => pc'[a] \in StartsJobsAt
    BY <1>1 DEF n, StartsJobsAt
  <2>4. a # Driver /\ pc[a] \notin StartsJobsAt
    BY <1>6, <2>1, ActorsDiffer DEF StartsJobsAt
  <2> QED
    BY <1>5, <2>1, <2>2, <2>3, <2>4
<1>7. CASE pc[a] = "startSave"
  <2>1. a = Driver \/ a \in Client
    BY <1>1, <1>7, ActorsDiffer DEF MayBeAt
  <2>2. pc'[a] = IF a = Driver THEN "sync" ELSE "ensure"
    BY <1>1, <1>7 DEF GoesOnAt, AfterStart
  <2> QED
    BY <2>1, <2>2 DEF StartsJobsAt
<1>8. CASE pc[a] = "syncSave"
  <2>1. a = Driver
    BY <1>1, <1>8, ActorsDiffer DEF MayBeAt
  <2>2. pc'[a] = "reread"
    BY <1>1, <1>8 DEF GoesOnAt
  <2> QED
    BY <2>1, <2>2
<1>9. CASE pc[a] = "finish"
  <2>1. w = Finished(r)
    BY <1>4, <1>9 DEF ChangesStatus
  <2>2. w.status # "running"
    BY <1>4, <2>1, FinishedDocument
  <2> QED
    BY <1>4, <2>2
<1>10. CASE pc[a] = "renderSave"
  <2>1. a # Driver
    BY <1>1, <1>10 DEF MayBeAt
  <2>2. r.status = "running"
    BY <1>4, <1>10 DEF ChangesStatus
  <2>3. pc[a] \notin StartsJobsAt
    BY <1>10 DEF StartsJobsAt
  <2> QED
    BY <1>5, <2>1, <2>2, <2>3
<1> QED
  BY <1>1, <1>6, <1>7, <1>8, <1>9, <1>10 DEF SavingAt

LEMMA KeepIsDriven ==
  ASSUME Placed, RunningIsDriven, NEW a \in Actor, NEW w, NEW l, NEW n, Keeps(a, w, l, n)
  PROVE  RunningIsDriven'
<1>1. /\ stored' = stored /\ pc[a] \notin SavingAt /\ l \in SavingAt
      /\ pc[a] \in {"start", "ensure"} => l = "startSave"
      /\ \A b \in Actor : pc'[b] = IF b = a THEN l ELSE pc[b]
  BY DEF Keeps, Placed, RenderTypeOK, TypeOK
<1>2. SUFFICES ASSUME stored # None, stored.status = "running"
               PROVE  \/ pc'[Driver] \notin {"idle", "ending"}
                      \/ \E c \in Client : pc'[c] \in StartsJobsAt
  BY <1>1 DEF RunningIsDriven, IsRunning, StartsJobsAt
<1>3. \/ pc[Driver] \notin {"idle", "ending"}
      \/ \E c \in Client : pc[c] \in StartsJobsAt
  BY <1>2 DEF RunningIsDriven, IsRunning, StartsJobsAt
<1>4. CASE pc[Driver] \notin {"idle", "ending"}
  BY <1>1, <1>4, ActorsDiffer DEF SavingAt
<1>5. ASSUME NEW c \in Client, pc[c] \in StartsJobsAt PROVE pc'[c] \in StartsJobsAt
  BY <1>1, <1>5, ActorsDiffer DEF StartsJobsAt, SavingAt
<1> QED
  BY <1>3, <1>4, <1>5

LEMMA ImportedIsOK == ASSUME NEW n \in 0 .. Items PROVE FinishedOK(Imported(n))
<1>1. Items \in Nat
  BY BatchAssumption
<1>2. ASSUME NEW i \in Item, Imported(n).status \in {"completed", "completed_with_errors"}
      PROVE  Imported(n).items[i].status = "completed"
  <2>1. n = Items
    BY <1>1, <1>2 DEF Imported
  <2>2. i <= n
    BY <1>1, <2>1 DEF Item
  <2> QED
    BY <2>2 DEF Imported
<1> QED
  BY <1>2 DEF FinishedOK, Unmade

LEMMA BatchStatusInit == RenderInit => BatchStatus
<1> SUFFICES ASSUME RenderInit PROVE BatchStatus
  OBVIOUS
<1>1. PICK n \in 0 .. Items : stored = Imported(n)
  BY DEF RenderInit, Init
<1>2. FinishedOK(stored)
  BY <1>1, ImportedIsOK
<1>3. ChangesAreSmall
  BY DEF RenderInit, Init, ChangesAreSmall, SavingAt
<1>4. ~IsRunning
  BY <1>1 DEF IsRunning, Imported
<1> QED
  BY <1>2, <1>3, <1>4 DEF BatchStatus, RunningIsDriven

LEMMA BatchStatusNext == Placed /\ BatchStatus /\ [RenderNext]_renderVars => BatchStatus'
<1> SUFFICES ASSUME Placed, BatchStatus, [RenderNext]_renderVars PROVE BatchStatus'
  OBVIOUS
<1>1. /\ ChangesAreSmall
      /\ "overwritten" \notin lapses => FinishedOK(stored)
      /\ lapses = {} => RunningIsDriven
  BY DEF BatchStatus, Overwritten
<1>2. ChangesAreSmall'
  BY <1>1, ChangesStaySmall
<1> DEFINE Goal == /\ "overwritten" \notin lapses' => FinishedOK(stored')
                   /\ lapses' = {} => RunningIsDriven'
<1>3. ASSUME UNCHANGED renderVars PROVE Goal
  <2>1. UNCHANGED <<stored, pc, lapses>>
    BY <1>3 DEF renderVars, vars, shared
  <2> QED
    BY <1>1, <2>1 DEF RunningIsDriven, IsRunning
<1>4. ASSUME NEW a \in Actor, Saves(a) PROVE Goal
  <2>1. "overwritten" \notin lapses' => FinishedOK(stored')
    BY <1>1, <1>4, SavesSmall DEF SmallChange
  <2>2. lapses' = {} => RunningIsDriven'
    BY <1>1, <1>4, SaveIsDriven
  <2> QED
    BY <2>1, <2>2
<1>5. ASSUME Makes PROVE Goal
  <2>1. PICK a \in Actor : \E w, l, n : Keeps(a, w, l, n) /\ SmallChange(l, stored, w, n)
    BY <1>5, MakesSmall
  <2>2. PICK w, l, n : Keeps(a, w, l, n)
    BY <2>1
  <2>3. stored' = stored /\ lapses' = lapses
    BY <2>2 DEF Keeps
  <2>4. RunningIsDriven => RunningIsDriven'
    BY <2>2, KeepIsDriven
  <2> QED
    BY <1>1, <2>3, <2>4
<1>6. ASSUME Goes PROVE Goal
  <2>1. stored' = stored /\ lapses' \in {lapses, lapses \cup {"missed"}}
    BY <1>6 DEF Goes
  <2>2. "overwritten" \notin lapses' => FinishedOK(stored')
    BY <1>1, <2>1
  <2>3. lapses' = {} => lapses = {}
    BY <2>1
  <2>4. lapses' = {} => RunningIsDriven'
    BY <1>1, <1>6, <2>3 DEF Goes
  <2> QED
    BY <2>2, <2>4
<1>7. ASSUME JobEnds PROVE Goal
  <2>1. UNCHANGED <<stored, pc, lapses>>
    BY <1>7, JobEndsSteps
  <2> QED
    BY <1>1, <2>1 DEF RunningIsDriven, IsRunning
<1>8. ASSUME Restarts PROVE Goal
  BY <1>1, <1>8, RestartStatus DEF Restarts, RunningIsDriven, IsRunning
<1>9. Goal
  BY <1>3, <1>4, <1>5, <1>6, <1>7, <1>8, StepKinds
<1> QED
  BY <1>2, <1>9 DEF BatchStatus, Overwritten

\* A batch that shows as finished has nothing left to make, as long as no save
\* puts an old document back, and one that is running is driven by its thread or
\* by a handler, as long as moreover no thread that was ending was taken for one
\* that works.
THEOREM StatusStaysTrue == RenderSpec => []StatusIsTrue
<1>1. BatchTruth => Placed
  BY DEF BatchTruth
<1>2. BatchTruth /\ BatchStatus => StatusIsTrue
  <2>1. BatchTruth => stored \in Document \cup {None}
    BY DEF BatchTruth, Placed, BatchTypes
  <2> QED
    BY <2>1, FinishedIsOK DEF BatchStatus, StatusIsTrue, FinishedIsDone
<1> QED
  BY <1>1, <1>2, BatchStatusInit, BatchStatusNext, DocumentsStayTruthful, PTL DEF RenderSpec

LEMMA PauseStep ==
  ASSUME Placed, ChangesAreSmall, [RenderNext]_renderVars,
         stored # None, stored.status = "paused", stored' # None, stored'.status # "paused"
  PROVE  \/ \E c \in Client : pc[c] = "save" /\ pc'[c] = "start"
         \/ Unfinished(stored') = {} /\ restarts' # restarts
         \/ "overwritten" \in lapses'
<1> DEFINE Goal == \/ \E c \in Client : pc[c] = "save" /\ pc'[c] = "start"
                   \/ Unfinished(stored') = {} /\ restarts' # restarts
                   \/ "overwritten" \in lapses'
<1>1. stored' # stored
  OBVIOUS
<1>2. ASSUME NEW a \in Actor, Saves(a), "overwritten" \notin lapses'
      PROVE  \E c \in Client : pc[c] = "save" /\ pc'[c] = "start"
  <2> DEFINE w == Writes(a)
             n == copy[a].next
  <2>1. /\ ChangesStatus(pc[a], stored, w, n) /\ w = stored'
        /\ MayBeAt(a, pc[a]) /\ pc[a] \in SavingAt /\ pc'[a] = n
    BY <1>2, SavesSmall DEF SmallChange
  <2> HIDE DEF w, n
  <2>2. pc[a] = "save" /\ n = "start"
    BY <2>1 DEF ChangesStatus, SavingAt
  <2>3. a \in Client
    BY <2>1, <2>2, ActorsDiffer DEF MayBeAt
  <2> QED
    BY <2>1, <2>2, <2>3
<1>3. ASSUME Makes PROVE FALSE
  <2>1. \E a \in Actor : \E w, l, n : Keeps(a, w, l, n) /\ SmallChange(l, stored, w, n)
    BY <1>3, MakesSmall
  <2> QED
    BY <1>1, <2>1 DEF Keeps
<1>4. ASSUME Restarts, "overwritten" \notin lapses'
      PROVE  Unfinished(stored') = {} /\ restarts' # restarts
  BY <1>4, RestartStatus, RestartFinds DEF Restarts
<1>5. CASE UNCHANGED renderVars
  BY <1>1, <1>5 DEF renderVars, vars, shared
<1>6. CASE Goes
  BY <1>1, <1>6 DEF Goes
<1>7. CASE JobEnds
  BY <1>1, <1>7, JobEndsSteps
<1> QED
  BY <1>2, <1>3, <1>4, <1>5, <1>6, <1>7, StepKinds

\* Nothing but a request of a client takes a batch out of paused, and a restart
\* only one whose items are all done, until a save puts an old document back.
THEOREM PauseIsKept == RenderSpec => PauseHolds
<1>1. BatchTruth /\ BatchStatus /\ [RenderNext]_renderVars =>
        [ stored # None /\ stored.status = "paused" /\ stored' # None /\ stored'.status # "paused" =>
            \/ \E c \in Client : pc[c] = "save" /\ pc'[c] = "start"
            \/ Unfinished(stored') = {} /\ restarts' # restarts
            \/ "overwritten" \in lapses' ]_vars
  BY PauseStep DEF BatchTruth, BatchStatus
<1>2. BatchTruth => Placed
  BY DEF BatchTruth
<1> QED
  BY <1>1, <1>2, BatchStatusInit, BatchStatusNext, DocumentsStayTruthful, PTL DEF RenderSpec, PauseHolds

-----------------------------------------------------------------------------
(* Jobs, items and versions, until an old document is put back              *)

LiveIn(js) == {j \in DOMAIN js : js[j].status = "running" /\ js[j].plain}
HasJob(d, js, j) == d # None /\ d.items[js[j].item].job = j
Links(d, js) == \A j \in LiveIn(js) : HasJob(d, js, j)

\* Every live job that is plain is in the document, or in the one that is about to
\* be saved.
JobsLinked ==
    /\ \A a \in Actor : pc[a] = "startSave" => Links(Writes(a), jobs)
    /\ (\A a \in Actor : pc[a] # "startSave") => Links(stored, jobs)

\* The document names every version whose job is still in the store.
LinksVersions(d, js, at) ==
    d # None => \A j \in at : js[j].status = "completed" /\ js[j].plain => HasJob(d, js, j)

OneVersionEach(js, at) ==
    \A i, j \in {k \in at : js[k].status = "completed" /\ js[k].plain} : js[i].item = js[j].item => i = j

JobsFit ==
    /\ JobsLinked
    /\ LinksVersions(stored, jobs, attached) /\ OneVersionEach(jobs, attached)
    /\ Cardinality(LiveIn(jobs)) <= MaxConcurrency

\* A live or completed job that an item holds is held by one that is being made
\* or has been made, so no change takes it away.
LEMMA HeldJob ==
  ASSUME NEW js \in Seq(JobRecord), NEW at, NEW d, Truthful(d, js, at),
         NEW j \in DOMAIN js, HasJob(d, js, j), js[j].plain
  PROVE  LET s == d.items[js[j].item].status
         IN  /\ js[j].status = "running" /\ d \in Document => s = "running"
             /\ js[j].status = "completed" /\ d \in Document => s \in {"running", "completed"}
<1> DEFINE i == js[j].item
           m == d.items[i]
<1>1. i \in Item /\ j # 0
  BY JobParts
<1>2. m.job = j /\ d # None
  BY DEF HasJob
<1>3. TruthfulItem(i, m, js, at)
  BY <1>1, <1>2 DEF Truthful
<1>4. d \in Document => m.status \in {"queued", "running", "completed", "failed"}
  BY <1>1, DocumentParts, ItemParts
<1> HIDE DEF m
<1>5. /\ js[j].status = "running" /\ d \in Document => m.status = "running"
      /\ js[j].status = "completed" /\ d \in Document => m.status \in {"running", "completed"}
  BY <1>1, <1>2, <1>3, <1>4 DEF TruthfulItem
<1> QED
  BY <1>5 DEF m

LEMMA KeptJob ==
  ASSUME NEW js \in Seq(JobRecord), NEW at, NEW r \in Document, Truthful(r, js, at),
         NEW w, KeepsJobs(r, w), NEW j \in DOMAIN js, HasJob(r, js, j), js[j].plain
  PROVE  /\ js[j].status = "running" => HasJob(w, js, j)
         /\ js[j].status = "completed" /\ w # None => HasJob(w, js, j)
<1> DEFINE i == js[j].item
<1>1. i \in Item /\ r.items[i].job = j
  BY JobParts DEF HasJob
<1>2. /\ js[j].status = "running" => r.items[i].status = "running"
      /\ js[j].status = "completed" => r.items[i].status \in {"running", "completed"}
  BY HeldJob
<1>3. ASSUME r.items[i].status \in {"running", "completed"}, w # None PROVE HasJob(w, js, j)
  BY <1>1, <1>3 DEF KeepsJobs, HasJob
<1>4. r.items[i].status = "running" => w # None
  BY <1>1 DEF KeepsJobs
<1> QED
  BY <1>2, <1>3, <1>4

\* The jobs that are alive are no more than the items that are being made.
LEMMA LiveAreFew ==
  ASSUME NEW js \in Seq(JobRecord), NEW at, NEW d \in Document, Truthful(d, js, at), Links(d, js)
  PROVE  Cardinality(LiveIn(js)) <= Cardinality(In(d, "running"))
<1> DEFINE f == [j \in LiveIn(js) |-> js[j].item]
<1>1. \A j \in LiveIn(js) : j \in DOMAIN js /\ js[j].status = "running" /\ js[j].plain /\ HasJob(d, js, j)
  BY DEF Links, LiveIn
<1>2. ASSUME NEW j \in LiveIn(js) PROVE f[j] \in In(d, "running")
  BY <1>1, HeldJob, JobParts DEF In
<1>3. \A j \in LiveIn(js) : d.items[f[j]].job = j
  BY <1>1 DEF HasJob
<1>4. f \in Injection(LiveIn(js), In(d, "running"))
  <2>1. f \in [LiveIn(js) -> In(d, "running")]
    BY <1>2
  <2>2. \A i, j \in LiveIn(js) : f[i] = f[j] => i = j
    BY <1>3
  <2> HIDE DEF f
  <2> QED
    BY <2>1, <2>2 DEF Injection, IsInjective
<1>5. IsFiniteSet(In(d, "running"))
  BY SetsOfItems DEF In
<1> QED
  BY <1>4, <1>5, FS_Injection

LEMMA LinkedVersionsAreOne ==
  ASSUME NEW js, NEW at, NEW d, d # None, LinksVersions(d, js, at)
  PROVE  OneVersionEach(js, at)
  BY DEF LinksVersions, OneVersionEach, HasJob

LEMMA LiveIsFinite ==
  ASSUME NEW js \in Seq(JobRecord)
  PROVE  IsFiniteSet(LiveIn(js)) /\ Cardinality(LiveIn(js)) \in Nat
<1>1. DOMAIN js = 1 .. Len(js) /\ Len(js) \in Nat
  OBVIOUS
<1>2. IsFiniteSet(1 .. Len(js))
  BY <1>1, FS_Interval
<1>3. LiveIn(js) \subseteq 1 .. Len(js)
  BY <1>1 DEF LiveIn
<1> QED
  BY <1>2, <1>3, FS_Subset, FS_CardinalityType

\* The jobs that have ended are not alive again, and no version is made of them.
LEMMA FitAdvance ==
  ASSUME NEW js \in Seq(JobRecord), NEW js2 \in Seq(JobRecord), Advance(js, js2),
         NEW at, at \subseteq DOMAIN js, VersionsAreMade(js, at)
  PROVE  /\ \A d : LinksVersions(d, js, at) => LinksVersions(d, js2, at)
         /\ OneVersionEach(js, at) => OneVersionEach(js2, at)
         /\ DOMAIN js2 = DOMAIN js =>
              /\ \A d : Links(d, js) => Links(d, js2)
              /\ Cardinality(LiveIn(js2)) <= Cardinality(LiveIn(js))
<1>1. ASSUME NEW j \in at, js2[j].status = "completed", js2[j].plain
      PROVE  js[j].status = "completed" /\ js[j].plain /\ js2[j].item = js[j].item
  BY <1>1 DEF Advance, VersionsAreMade
<1>2. ASSUME NEW d, LinksVersions(d, js, at) PROVE LinksVersions(d, js2, at)
  BY <1>1, <1>2 DEF LinksVersions, HasJob
<1>3. OneVersionEach(js, at) => OneVersionEach(js2, at)
  BY <1>1 DEF OneVersionEach
<1>4. ASSUME DOMAIN js2 = DOMAIN js, NEW j \in LiveIn(js2)
      PROVE  j \in LiveIn(js) /\ js2[j].item = js[j].item
  BY <1>4 DEF Advance, LiveIn
<1>5. ASSUME DOMAIN js2 = DOMAIN js, NEW d, Links(d, js) PROVE Links(d, js2)
  BY <1>4, <1>5 DEF Links, HasJob
<1>6. ASSUME DOMAIN js2 = DOMAIN js PROVE Cardinality(LiveIn(js2)) <= Cardinality(LiveIn(js))
  <2>1. LiveIn(js2) \subseteq LiveIn(js)
    BY <1>4, <1>6
  <2> QED
    BY <2>1, LiveIsFinite, FS_Subset
<1> QED
  BY <1>2, <1>3, <1>5, <1>6

\* The versions of a document that tells the truth are the jobs of its items.
LEMMA OwnVersions ==
  ASSUME NEW js \in Seq(JobRecord), NEW at, NEW d \in Document, Truthful(d, js, at)
  PROVE  \A j \in Versions(d) : HasJob(d, js, j)
<1> SUFFICES ASSUME NEW j \in Versions(d) PROVE HasJob(d, js, j)
  OBVIOUS
<1>1. PICK i \in Item : j = d.items[i].version /\ j # 0
  BY DEF Versions
<1>2. TruthfulItem(i, d.items[i], js, at) /\ d # None
  BY DocumentIsSome DEF Truthful
<1>3. j = d.items[i].job /\ js[j].item = i
  BY <1>1, <1>2 DEF TruthfulItem
<1> QED
  BY <1>2, <1>3 DEF HasJob

LEMMA SaveFits ==
  ASSUME Placed, DocumentsAreTruthful, ChangesAreSmall, JobsFit,
         NEW a \in Actor, Saves(a), "overwritten" \notin lapses'
  PROVE  JobsFit'
<1> DEFINE w == Writes(a)
<1>1. /\ KeepsJobs(stored, w) /\ stored' = w /\ stored \in Document
      /\ GoesOnAt(a, pc[a], copy[a].next) /\ pc[a] \in SavingAt
      /\ \A b \in Actor : pc'[b] = IF b = a THEN copy[a].next ELSE pc[b]
  BY SavesSmall DEF SmallChange
<1>2. jobs' = jobs /\ attached' = attached /\ \A b \in Actor : b # a => copy'[b] = copy[b]
  BY DEF Saves, Placed, RenderTypeOK, TypeOK
<1>3. jobs \in Seq(JobRecord) /\ attached \subseteq DOMAIN jobs
  BY DEF Placed, BatchTypes
<1>4. Truthful(stored, jobs, attached)
  BY DEF DocumentsAreTruthful
<1> HIDE DEF w
<1>5. Links(stored, jobs) => Links(w, jobs)
  BY <1>1, <1>3, <1>4, KeptJob DEF Links, LiveIn
<1>6. LinksVersions(w, jobs, attached)
  <2>1. LinksVersions(stored, jobs, attached)
    BY DEF JobsFit
  <2>2. SUFFICES ASSUME w # None, NEW j \in attached, jobs[j].status = "completed", jobs[j].plain
                 PROVE  HasJob(w, jobs, j)
    BY DEF LinksVersions
  <2>3. j \in DOMAIN jobs /\ HasJob(stored, jobs, j)
    BY <1>1, <1>3, <2>1, <2>2, DocumentIsSome DEF LinksVersions
  <2> QED
    BY <1>1, <1>3, <1>4, <2>2, <2>3, KeptJob
<1>7. ASSUME NEW b \in Actor, pc'[b] = "startSave" PROVE b # a /\ pc[b] = "startSave"
  <2>1. copy[a].next # "startSave"
    BY <1>1 DEF GoesOnAt, SavingAt, AfterStart, NextStep
  <2> QED
    BY <1>1, <1>7, <2>1
<1>8. ASSUME NEW b \in Actor, pc'[b] = "startSave" PROVE Links(copy'[b].write, jobs)
  <2>1. Links(Writes(b), jobs)
    BY <1>7, <1>8 DEF JobsFit, JobsLinked
  <2>2. copy'[b] = copy[b]
    BY <1>2, <1>7, <1>8
  <2> QED
    BY <2>1, <2>2 DEF Writes
<1>9. ASSUME \A b \in Actor : pc'[b] # "startSave" PROVE Links(w, jobs)
  <2>1. CASE pc[a] = "startSave"
    BY <2>1 DEF JobsFit, JobsLinked, w
  <2>2. CASE pc[a] # "startSave"
    <3>1. \A b \in Actor : pc[b] # "startSave"
      BY <1>1, <1>9, <2>2
    <3> QED
      BY <1>5, <3>1 DEF JobsFit, JobsLinked
  <2> QED
    BY <2>1, <2>2
<1>10. JobsLinked'
  BY <1>1, <1>2, <1>8, <1>9 DEF JobsLinked, Writes
<1> QED
  BY <1>1, <1>2, <1>6, <1>10 DEF JobsFit

LEMMA StartedRoom ==
  ASSUME Placed, stored \in Document, Slots > 0, NEW bad \in SUBSET In(stored, "queued")
  PROVE  Cardinality(In(stored, "running")) + Cardinality(StartedOf(bad)) <= MaxConcurrency
<1> DEFINE S == In(stored, "queued") \ bad
<1>1. S \subseteq Item /\ StartedOf(bad) \subseteq S
  BY DEF StartedOf, ReachedOf, In
<1>2. \A i \in StartedOf(bad) : Before(i, S) < Slots
  BY DEF StartedOf, ReachedOf
<1>3. Cardinality(In(stored, "running")) \in Nat /\ MaxConcurrency \in Nat
  BY SetsOfItems, BatchAssumption DEF In
<1>4. Slots \in Nat /\ Slots = MaxConcurrency - Cardinality(In(stored, "running"))
  BY <1>3 DEF Slots
<1> HIDE DEF S
<1>5. Cardinality(StartedOf(bad)) <= Slots
  BY <1>1, <1>2, <1>4, FewComeFirst
<1>6. Cardinality(StartedOf(bad)) \in Nat
  BY StartedAreQueued
<1> QED
  BY <1>3, <1>4, <1>5, <1>6

LEMMA StartFits ==
  ASSUME Placed, DocumentsAreTruthful, JobsFit, NEW a \in Client \cup {Driver}, StartItems(a)
  PROVE  JobsFit'
<1>1. stored.status = "running" /\ Slots > 0 /\ pc[a] = "start" /\ lock = None /\ UNCHANGED attached
  BY StartItemsKeeps
<1>2. PICK bad \in SUBSET In(stored, "queued") :
        Keeps(a, WithJobs(bad), "startSave", AfterStart(a)) /\ jobs' = JobsWith(bad)
  BY StartItemsKeeps
<1>3. /\ stored \in Document /\ stored' = stored /\ a \in Actor
      /\ pc' = [pc EXCEPT ![a] = "startSave"] /\ copy'[a].write = WithJobs(bad)
  BY <1>2, ActorsDiffer DEF Keeps, Placed, RenderTypeOK, TypeOK
<1> DEFINE w == WithJobs(bad)
           js == JobsWith(bad)
<1>4. /\ Advance(jobs, js) /\ VersionsAreMade(js, attached) /\ Truthful(w, js, attached)
  BY <1>3, StartTruth
<1>5. /\ jobs \in Seq(JobRecord) /\ attached \subseteq DOMAIN jobs /\ VersionsAreMade(jobs, attached)
      /\ Truthful(stored, jobs, attached)
  BY DEF Placed, BatchTypes, DocumentsAreTruthful
<1>6. /\ js \in Seq(JobRecord)
      /\ \A j \in DOMAIN jobs : j \in DOMAIN js /\ js[j] = jobs[j]
      /\ \A j \in DOMAIN js : j \notin DOMAIN jobs =>
           js[j].item \in StartedOf(bad) /\ JobOf(bad, js[j].item) = j
  BY <1>3, StartedJobs
<1>7. /\ w \in Document
      /\ \A i \in Item :
           /\ i \in StartedOf(bad) => w.items[i].status = "running" /\ w.items[i].job = JobOf(bad, i)
           /\ i \notin StartedOf(bad) =>
                /\ w.items[i].job = stored.items[i].job
                /\ w.items[i] = stored.items[i] \/ w.items[i].status = "failed"
  BY <1>3, StartedDocument
<1>8. StartedOf(bad) \subseteq In(stored, "queued")
  BY StartedAreQueued
<1> HIDE DEF w, js
<1>9. \A b \in Actor : pc[b] # "startSave"
  BY <1>1, ActorsDiffer DEF Placed, ActorsArePlaced, LockedAt
<1>10. Links(stored, jobs)
  BY <1>9 DEF JobsFit, JobsLinked
<1>11. ASSUME NEW j \in LiveIn(js) PROVE HasJob(w, js, j)
  <2>1. CASE j \in DOMAIN jobs
    <3>1. j \in LiveIn(jobs) /\ js[j] = jobs[j]
      BY <1>6, <1>11, <2>1 DEF LiveIn
    <3>2. HasJob(stored, jobs, j) /\ jobs[j].item \in Item
      BY <1>5, <1>10, <2>1, <3>1, JobParts DEF Links
    <3>3. stored.items[jobs[j].item].status = "running"
      BY <1>3, <1>5, <2>1, <3>1, <3>2, HeldJob DEF LiveIn
    <3>4. jobs[j].item \notin StartedOf(bad)
      BY <1>8, <3>3 DEF In
    <3> QED
      BY <1>7, <3>1, <3>2, <3>4, DocumentIsSome DEF HasJob
  <2>2. CASE j \notin DOMAIN jobs
    <3>1. js[j].item \in StartedOf(bad) /\ JobOf(bad, js[j].item) = j
      BY <1>6, <1>11, <2>2 DEF LiveIn
    <3>2. js[j].item \in Item
      BY <1>8, <3>1 DEF In
    <3> QED
      BY <1>7, <3>1, <3>2, DocumentIsSome DEF HasJob
  <2> QED
    BY <2>1, <2>2
<1>12. Links(w, js)
  BY <1>11 DEF Links
<1>13. Cardinality(LiveIn(js)) <= MaxConcurrency
  <2>1. Cardinality(LiveIn(js)) <= Cardinality(In(w, "running"))
    BY <1>4, <1>6, <1>7, <1>12, LiveAreFew
  <2>2. In(w, "running") \subseteq In(stored, "running") \cup StartedOf(bad)
    BY <1>7 DEF In
  <2>3. /\ IsFiniteSet(In(stored, "running")) /\ Cardinality(In(stored, "running")) \in Nat
        /\ IsFiniteSet(StartedOf(bad)) /\ Cardinality(StartedOf(bad)) \in Nat
        /\ Cardinality(In(w, "running")) \in Nat
    BY SetsOfItems, StartedAreQueued DEF In
  <2>4. Cardinality(In(w, "running")) <= Cardinality(In(stored, "running") \cup StartedOf(bad))
    BY <2>2, <2>3, FS_Subset, FS_Union
  <2>5. Cardinality(In(stored, "running") \cup StartedOf(bad))
          <= Cardinality(In(stored, "running")) + Cardinality(StartedOf(bad))
    <3>1. Cardinality(In(stored, "running") \cap StartedOf(bad)) \in Nat
      BY SetsOfItems DEF In
    <3>2. Cardinality(In(stored, "running") \cup StartedOf(bad))
            = Cardinality(In(stored, "running")) + Cardinality(StartedOf(bad))
                - Cardinality(In(stored, "running") \cap StartedOf(bad))
      BY <2>3, FS_Union
    <3> DEFINE x == Cardinality(In(stored, "running"))
               y == Cardinality(StartedOf(bad))
               z == Cardinality(In(stored, "running") \cap StartedOf(bad))
    <3>3. x \in Nat /\ y \in Nat /\ z \in Nat
      BY <2>3, <3>1
    <3> HIDE DEF x, y, z
    <3>4. x + y - z <= x + y
      BY <3>3
    <3> QED
      BY <3>2, <3>4 DEF x, y, z
  <2>6. Cardinality(In(stored, "running")) + Cardinality(StartedOf(bad)) <= MaxConcurrency
    BY <1>1, <1>3, StartedRoom
  <2>7. Cardinality(LiveIn(js)) \in Nat /\ MaxConcurrency \in Nat
    BY <1>6, LiveIsFinite, BatchAssumption
  <2>8. IsFiniteSet(In(stored, "running") \cup StartedOf(bad))
    BY <2>3, FS_Union
  <2>9. Cardinality(In(stored, "running") \cup StartedOf(bad)) \in Nat
    BY <2>8, FS_CardinalityType
  <2> QED
    BY <2>1, <2>3, <2>4, <2>5, <2>6, <2>7, <2>9
<1>14. LinksVersions(stored, js, attached) /\ OneVersionEach(js, attached)
  BY <1>4, <1>5, <1>6, FitAdvance DEF JobsFit
<1>15. JobsLinked'
  <2>1. \A b \in Actor : pc'[b] = "startSave" => b = a
    BY <1>3, <1>9
  <2>2. pc'[a] = "startSave"
    BY <1>3 DEF Placed, RenderTypeOK, TypeOK
  <2>3. copy'[a].write = w /\ jobs' = js
    BY <1>2, <1>3 DEF w, js
  <2> QED
    BY <1>3, <1>12, <2>1, <2>2, <2>3 DEF JobsLinked, Writes
<1>16. jobs' = js
  BY <1>2 DEF js
<1> QED
  BY <1>1, <1>3, <1>13, <1>14, <1>15, <1>16 DEF JobsFit

LEMMA MakesKinds ==
  ASSUME Placed, Makes
  PROVE  \/ \E a \in Client \cup {Driver} : StartItems(a)
         \/ /\ jobs' = jobs /\ (attached' = attached \/ Sync)
            /\ \E a \in Actor : \E w, l, n : Keeps(a, w, l, n) /\ l # "startSave"
<1> DEFINE Goal == /\ jobs' = jobs /\ (attached' = attached \/ Sync)
                   /\ \E a \in Actor : \E w, l, n : Keeps(a, w, l, n) /\ l # "startSave"
<1>1. ASSUME NEW c \in Client, NEW o \in Request, Handle(c, o), Alone PROVE Goal
  BY <1>1, HandleKeeps, ActorsDiffer
<1>2. ASSUME NEW c \in Client, NEW k \in Kind, NEW f \in BOOLEAN, RequestRender(c, k, f) PROVE Goal
  BY <1>2, RequestRenderKeeps, ActorsDiffer
<1>3. ASSUME Sync, Alone PROVE Goal
  BY <1>3, SyncKeeps, ActorsDiffer
<1>4. ASSUME Finishes, Alone PROVE Goal
  BY <1>4, ActorsDiffer DEF Finishes
<1>5. ASSUME NEW k \in Kind, NEW a \in Client \cup {k}, RenderItems(a, k) PROVE Goal
  BY <1>5, RenderItemsKeeps, ActorsDiffer
<1>6. ASSUME NEW k \in Kind, NEW i \in Item, Rendered(k, i), stored # None PROVE Goal
  <2>1. PICK s \in {"completed", "failed"} :
          Keeps(Renderer, [stored EXCEPT !.items[i].render[k] = s], "renderSave", "idle")
    BY <1>6, RenderedKeeps
  <2>2. UNCHANGED <<jobs, attached>> /\ Renderer \in Actor
    BY <1>6, RenderedKeeps, ActorsDiffer
  <2> QED
    BY <2>1, <2>2
<1> QED
  BY <1>1, <1>2, <1>3, <1>4, <1>5, <1>6 DEF Makes

\* A step that leaves the document and whoever is about to save new jobs.
LEMMA StillLinked ==
  ASSUME JobsFit, stored' = stored,
         \A d : Links(d, jobs) => Links(d, jobs'),
         \A a \in Actor : /\ pc[a] = "startSave" <=> pc'[a] = "startSave"
                          /\ pc[a] = "startSave" => copy'[a] = copy[a]
  PROVE  JobsLinked'
<1>1. ASSUME NEW a \in Actor, pc'[a] = "startSave" PROVE Links(copy'[a].write, jobs')
  BY <1>1 DEF JobsFit, JobsLinked, Writes
<1>2. (\A a \in Actor : pc'[a] # "startSave") => Links(stored', jobs')
  BY DEF JobsFit, JobsLinked
<1> QED
  BY <1>1, <1>2 DEF JobsLinked, Writes

LEMMA MakesFit ==
  ASSUME Placed, DocumentsAreTruthful, JobsFit, Makes
  PROVE  JobsFit'
<1>1. ASSUME NEW a \in Client \cup {Driver}, StartItems(a) PROVE JobsFit'
  BY <1>1, StartFits
<1>2. ASSUME jobs' = jobs, attached' = attached \/ Sync,
             NEW a \in Actor, NEW w, NEW l, NEW n, Keeps(a, w, l, n), l # "startSave"
      PROVE  JobsFit'
  <2>1. /\ stored' = stored /\ stored \in Document
        /\ \A b \in Actor : /\ pc[b] = "startSave" <=> pc'[b] = "startSave"
                            /\ pc[b] = "startSave" => copy'[b] = copy[b]
    BY <1>2 DEF Keeps, SavingAt, Placed, RenderTypeOK, TypeOK
  <2>2. JobsLinked'
    BY <1>2, <2>1, StillLinked
  <2>3. LinksVersions(stored, jobs, attached')
    <3>1. LinksVersions(stored, jobs, attached)
      BY DEF JobsFit
    <3>2. CASE attached' = attached
      BY <3>1, <3>2
    <3>3. CASE Sync
      <4> DEFINE x == Synced(stored, Status)
      <4>1. /\ Truthful(x, jobs, attached') /\ attached' = attached \cup Versions(x)
            /\ attached' \subseteq DOMAIN jobs
        BY <3>3, SyncKeeps, SyncTruth
      <4>2. x \in Document /\ \A i \in Item : x.items[i].job = stored.items[i].job
        BY <2>1, SyncedDocument, SyncedItem
      <4>3. jobs \in Seq(JobRecord)
        BY DEF Placed, BatchTypes
      <4> HIDE DEF x
      <4>4. ASSUME NEW j \in attached', jobs[j].status = "completed", jobs[j].plain PROVE HasJob(stored, jobs, j)
        <5>1. CASE j \in attached
          BY <2>1, <3>1, <4>4, <5>1, DocumentIsSome DEF LinksVersions
        <5>2. CASE j \in Versions(x)
          <6>1. HasJob(x, jobs, j)
            BY <4>1, <4>2, <4>3, <5>2, OwnVersions
          <6>2. jobs[j].item \in Item
            BY <4>1, <4>3, JobParts
          <6> QED
            BY <2>1, <4>2, <6>1, <6>2, DocumentIsSome DEF HasJob
        <5> QED
          BY <4>1, <5>1, <5>2
      <4> QED
        BY <4>4 DEF LinksVersions
    <3> QED
      BY <1>2, <3>2, <3>3
  <2>4. OneVersionEach(jobs, attached')
    BY <2>1, <2>3, LinkedVersionsAreOne, DocumentIsSome
  <2> QED
    BY <1>2, <2>1, <2>2, <2>3, <2>4 DEF JobsFit
<1> QED
  BY <1>1, <1>2, MakesKinds

LEMMA JobEndsFit ==
  ASSUME Placed, DocumentsAreTruthful, JobsFit, JobEnds
  PROVE  JobsFit'
<1>1. UNCHANGED <<stored, attached, pc, copy>>
  BY JobEndsSteps
<1>2. jobs' \in Seq(JobRecord) /\ DOMAIN jobs' = DOMAIN jobs /\ Advance(jobs, jobs')
  BY JobEndsAdvance
<1>3. jobs \in Seq(JobRecord) /\ attached \subseteq DOMAIN jobs /\ VersionsAreMade(jobs, attached)
  BY DEF Placed, BatchTypes, DocumentsAreTruthful
<1>4. /\ LinksVersions(stored, jobs', attached) /\ OneVersionEach(jobs', attached)
      /\ \A d : Links(d, jobs) => Links(d, jobs')
      /\ Cardinality(LiveIn(jobs')) <= Cardinality(LiveIn(jobs))
  BY <1>2, <1>3, FitAdvance DEF JobsFit
<1>5. JobsLinked'
  BY <1>1, <1>4, StillLinked
<1>6. /\ Cardinality(LiveIn(jobs')) \in Nat /\ Cardinality(LiveIn(jobs)) \in Nat /\ MaxConcurrency \in Nat
      /\ Cardinality(LiveIn(jobs)) <= MaxConcurrency
  BY <1>2, <1>3, LiveIsFinite, BatchAssumption DEF JobsFit
<1>7. Cardinality(LiveIn(jobs')) <= MaxConcurrency
  BY <1>4, <1>6
<1> QED
  BY <1>1, <1>4, <1>5, <1>7 DEF JobsFit

LEMMA RestartFits ==
  ASSUME Placed, DocumentsAreTruthful, JobsFit, Restart
  PROVE  JobsFit'
<1>1. PICK d \in Document \cup {None} :
         /\ stored' = Recovered(d, CutStatus)
         /\ d = None <=> stored = None
         /\ d # None => d.items = stored.items
  BY RestartFinds
<1>2. /\ jobs' = CutJobs /\ attached' = attached \cup (IF stored' = None THEN {} ELSE Versions(stored'))
      /\ \A a \in Actor : pc'[a] = "idle"
  BY RestartFinds
<1>3. jobs \in Seq(JobRecord) /\ attached \subseteq DOMAIN jobs /\ VersionsAreMade(jobs, attached)
  BY DEF Placed, BatchTypes, DocumentsAreTruthful
<1>4. /\ CutJobs \in Seq(JobRecord) /\ DOMAIN CutJobs = DOMAIN jobs /\ Advance(jobs, CutJobs)
      /\ \A j \in DOMAIN jobs : CutJobs[j].status # "running" /\ CutJobs[j].item = jobs[j].item
  BY <1>3, CutJobsParts
<1>5. /\ Truthful(stored', CutJobs, attached') /\ stored' \in Document \cup {None}
      /\ attached' \subseteq DOMAIN jobs
  BY <1>2, <1>4, RestartTruth DEF DocumentsAreTruthful
<1>6. LinksVersions(stored, CutJobs, attached) /\ OneVersionEach(CutJobs, attached)
  BY <1>3, <1>4, FitAdvance DEF JobsFit
<1>7. LiveIn(CutJobs) = {}
  BY <1>4 DEF LiveIn
<1>8. Cardinality(LiveIn(CutJobs)) <= MaxConcurrency
  BY <1>7, FS_EmptySet, BatchAssumption
<1>9. JobsLinked'
  BY <1>2, <1>7 DEF JobsLinked, Links
<1>10. CASE stored' = None
  BY <1>2, <1>6, <1>8, <1>9, <1>10 DEF JobsFit, LinksVersions
<1>11. CASE stored' # None
  <2>1. d \in Document /\ stored # None
    BY <1>1, <1>11, RecoveredNone
  <2>2. ASSUME NEW j \in attached', CutJobs[j].status = "completed", CutJobs[j].plain PROVE HasJob(stored', CutJobs, j)
    <3>1. CASE j \in Versions(stored')
      BY <1>4, <1>5, <1>11, <3>1, OwnVersions
    <3>2. CASE j \in attached
      <4>1. HasJob(stored, CutJobs, j)
        BY <1>6, <2>1, <2>2, <3>2 DEF LinksVersions
      <4>2. CutJobs[j].item \in Item
        BY <1>3, <1>4, <3>2, JobParts
      <4>3. Recovered(d, CutStatus).items[CutJobs[j].item].job = d.items[CutJobs[j].item].job
        BY <2>1, <4>2, RecoveredItem
      <4> QED
        BY <1>1, <1>11, <2>1, <4>1, <4>3, DocumentIsSome DEF HasJob
    <3> QED
      BY <1>2, <1>11, <3>1, <3>2
  <2>3. LinksVersions(stored', CutJobs, attached')
    BY <2>2 DEF LinksVersions
  <2>4. OneVersionEach(CutJobs, attached')
    BY <1>11, <2>3, LinkedVersionsAreOne
  <2> QED
    BY <1>2, <1>8, <1>9, <2>3, <2>4 DEF JobsFit
<1> QED
  BY <1>10, <1>11

LEMMA JobsFitInit == RenderInit => JobsFit
<1> SUFFICES ASSUME RenderInit PROVE JobsFit
  OBVIOUS
<1>1. PICK n \in 0 .. Items :
        /\ stored = Imported(n)
        /\ jobs = [j \in 1 .. n |-> [item |-> j, status |-> "completed", workers |-> 0, plain |-> TRUE]]
        /\ attached = (1 .. n) \cap Grouped
  BY DEF RenderInit, Init
<1>2. LiveIn(jobs) = {}
  BY <1>1 DEF LiveIn
<1>3. Cardinality(LiveIn(jobs)) <= MaxConcurrency
  BY <1>2, FS_EmptySet, BatchAssumption
<1>4. JobsLinked
  BY <1>2 DEF JobsLinked, Links
<1>5. LinksVersions(stored, jobs, attached)
  <2>1. SUFFICES ASSUME stored # None, NEW j \in attached PROVE HasJob(stored, jobs, j)
    BY DEF LinksVersions
  <2>2. j \in 1 .. n /\ j \in Item
    BY <1>1, BatchAssumption DEF Item
  <2>3. jobs[j].item = j /\ stored.items[j].job = j
    BY <1>1, <2>2 DEF Imported, Item
  <2> QED
    BY <2>1, <2>3 DEF HasJob
<1>6. OneVersionEach(jobs, attached)
  BY <1>1 DEF OneVersionEach
<1> QED
  BY <1>3, <1>4, <1>5, <1>6 DEF JobsFit

LEMMA JobsFitNext ==
  ASSUME Placed, DocumentsAreTruthful, ChangesAreSmall, "overwritten" \notin lapses => JobsFit,
         [RenderNext]_renderVars, "overwritten" \notin lapses'
  PROVE  JobsFit'
<1>1. ASSUME NEW a \in Actor, Saves(a) PROVE JobsFit'
  BY <1>1, SaveFits DEF Saves
<1>2. ASSUME Makes PROVE JobsFit'
  <2>1. \E a \in Actor : \E w, l, n : Keeps(a, w, l, n) /\ SmallChange(l, stored, w, n)
    BY <1>2, MakesSmall
  <2>2. "overwritten" \notin lapses
    BY <2>1 DEF Keeps
  <2> QED
    BY <1>2, <2>2, MakesFit
<1>3. ASSUME UNCHANGED <<stored, jobs, attached>>, "overwritten" \notin lapses,
             \A a \in Actor : /\ pc[a] = "startSave" <=> pc'[a] = "startSave"
                              /\ pc[a] = "startSave" => copy'[a] = copy[a]
      PROVE  JobsFit'
  BY <1>3, StillLinked DEF JobsFit
<1>4. CASE UNCHANGED renderVars
  BY <1>3, <1>4 DEF renderVars, vars, shared
<1>5. ASSUME Goes PROVE JobsFit'
  <2>1. UNCHANGED <<stored, jobs, attached>> /\ "overwritten" \notin lapses
    BY <1>5 DEF Goes
  <2>2. \A a \in Actor : /\ pc[a] = "startSave" <=> pc'[a] = "startSave"
                         /\ pc[a] = "startSave" => copy'[a] = copy[a]
    BY <1>5 DEF Goes, SavingAt
  <2> QED
    BY <1>3, <2>1, <2>2
<1>6. ASSUME JobEnds PROVE JobsFit'
  <2>1. lapses' = lapses
    BY <1>6, JobEndsSteps
  <2> QED
    BY <1>6, <2>1, JobEndsFit
<1>7. ASSUME Restarts PROVE JobsFit'
  BY <1>7, RestartStatus, RestartFits DEF Restarts
<1> QED
  BY <1>1, <1>2, <1>4, <1>5, <1>6, <1>7, StepKinds

\* What holds of the jobs and the versions until an old document is put back.
BatchJobs == ~Overwritten => JobsFit

\* It holds of every behaviour.
LEMMA JobsStayFitting == RenderSpec => [](BatchTruth /\ BatchStatus /\ BatchJobs)
<1>1. RenderInit => BatchJobs
  BY JobsFitInit DEF BatchJobs
<1>2. BatchTruth /\ BatchStatus /\ BatchJobs /\ [RenderNext]_renderVars => BatchJobs'
  BY JobsFitNext DEF BatchTruth, BatchStatus, BatchJobs, Overwritten
<1>3. BatchTruth => Placed
  BY DEF BatchTruth
<1> QED
  BY <1>1, <1>2, <1>3, BatchStatusInit, BatchStatusNext, DocumentsStayTruthful, PTL DEF RenderSpec

\* Live jobs and items correspond, beside jobs that live again: no item has two
\* live jobs, and every live job is linked from its item or will be by the save
\* that is under way.
THEOREM JobsStayLinked == RenderSpec => []JobsFitItems
<1>1. BatchTruth /\ BatchStatus /\ BatchJobs => JobsFitItems
  <2>1. SUFFICES ASSUME JobsFit PROVE OneJobPerItem /\ LiveIsLinked
    BY DEF BatchJobs, JobsFitItems
  <2>2. Live \cap Plain = LiveIn(jobs)
    BY DEF Live, Plain, LiveIn
  <2>3. CASE \A a \in Actor : pc[a] # "startSave"
    BY <2>1, <2>2, <2>3 DEF JobsFit, JobsLinked, Links, HasJob, OneJobPerItem, LiveIsLinked
  <2>4. ASSUME NEW a \in Actor, pc[a] = "startSave" PROVE OneJobPerItem /\ LiveIsLinked
    <3>1. \A j \in Live \cap Plain : copy[a].write.items[jobs[j].item].job = j
      BY <2>1, <2>2, <2>4 DEF JobsFit, JobsLinked, Links, HasJob, Writes
    <3> QED
      BY <2>4, <3>1 DEF OneJobPerItem, LiveIsLinked, Starting
  <2> QED
    BY <2>3, <2>4
<1> QED
  BY <1>1, JobsStayFitting, PTL

\* However many threads start items, no more than max_concurrency jobs are alive,
\* beside those that live again.
THEOREM ConcurrencyIsBounded == RenderSpec => []WithinConcurrency
<1>1. BatchTruth /\ BatchStatus /\ BatchJobs => WithinConcurrency
  <2>1. Live \cap Plain = LiveIn(jobs)
    BY DEF Live, Plain, LiveIn
  <2> QED
    BY <2>1 DEF BatchJobs, JobsFit, WithinConcurrency
<1> QED
  BY <1>1, JobsStayFitting, PTL

\* An item of the project has one version of a job that nothing has changed since
\* it completed, and the version that an item names is that of its job, even when
\* saves overwrite each other.
THEOREM VersionsStayFitting == RenderSpec => []VersionsFitJobs
<1>1. BatchTruth /\ BatchStatus /\ BatchJobs => VersionsFitJobs
  <2> SUFFICES ASSUME BatchTruth, BatchJobs PROVE VersionsFitJobs
    OBVIOUS
  <2>1. attached \subseteq DOMAIN jobs
    BY DEF BatchTruth, Placed, BatchTypes
  <2>2. ~Overwritten => OneVersionPerItem
    BY <2>1 DEF BatchJobs, JobsFit, OneVersionEach, OneVersionPerItem, Plain
  <2>3. VersionIsOfJob
    BY DEF BatchTruth, DocumentsAreTruthful, Truthful, TruthfulItem, VersionIsOfJob
  <2> QED
    BY <2>2, <2>3 DEF VersionsFitJobs
<1> QED
  BY <1>1, JobsStayFitting, PTL

-----------------------------------------------------------------------------
(* Renderings and the threads that make them                                *)

RenderOK(d) ==
    d # None => \A k \in Kind, i \in Item :
        d.items[i].render[k] \in {"running", "completed"} => d.items[i].status = "completed"

Shows(d, k, i) == d.items[i].render[k] = "running"

\* Only who starts renderings (at renderSave) changes what is shown as running.
Draws(l, r, w) ==
    w # None /\ RenderOK(r) =>
        /\ RenderOK(w)
        /\ \A k \in Kind, i \in Item :
             IF l = "renderSave" /\ r.items[i].render[k] = "queued" THEN TRUE
             ELSE Shows(w, k, i) <=> Shows(r, k, i)

\* The renderer delivers the result of a thread that has ended.
Delivers(r, w, th) ==
    \E k \in Kind, i \in Item :
        /\ th[k][i] = 0 /\ Shows(r, k, i) /\ ~Shows(w, k, i)
        /\ \A l \in Kind, m \in Item :
             l # k \/ m # i => w.items[m].render[l] = r.items[m].render[l]
        /\ \A m \in Item : w.items[m].status = r.items[m].status

DrawsAreSmall ==
    \A a \in Actor \ {Renderer} : pc[a] \in SavingAt => Draws(pc[a], Reads(a), Writes(a))

ThreadsFit ==
    /\ RenderOK(stored)
    /\ \A k \in Kind, i \in Item : threads[k][i] <= 1
    /\ stored # None => \A k \in Kind, i \in Item :
         /\ threads[k][i] > 0 => Shows(stored, k, i)
         /\ Shows(stored, k, i) => threads[k][i] > 0 \/ BeingSaved(k, i) \/ <<k, i>> \in died
    /\ pc[Renderer] = "renderSave" => Delivers(Reads(Renderer), Writes(Renderer), threads)

LEMMA SameDraws ==
  ASSUME NEW r \in Document, NEW w \in Document, NEW l,
         \A i \in Item : /\ w.items[i].render = r.items[i].render
                         /\ r.items[i].status = "completed" => w.items[i].status = "completed"
  PROVE  Draws(l, r, w)
  BY DocumentIsSome DEF Draws, RenderOK, Shows

LEMMA QueuedItems ==
  ASSUME NEW d, NEW k \in Kind, NEW f \in BOOLEAN, NEW i \in Item
  PROVE  Queued(d, k, f)[i] \in {d.items[i].render[k], "skipped", "queued"}
  BY DEF Queued

LEMMA HandleDraws ==
  ASSUME NEW r \in Document, NEW o \in Request
  PROVE  Draws("save", r, Changed(o, r))
<1> DEFINE w == Changed(o, r)
<1>1. CASE o \in {"launch", "resume", "pause", "hide"}
  <2>1. w \in Document /\ w.items = r.items
    BY <1>1, ChangedDocument
  <2> QED
    BY <2>1, SameDraws
<1>2. CASE o = "delete"
  BY <1>2 DEF Changed, Draws
<1>3. CASE o = "retry"
  <2>1. w \in Document /\ \A i \in Item : w.items[i] = Requeued(r.items[i])
    BY <1>3, RetriedDocument
  <2> HIDE DEF w
  <2>2. ASSUME NEW i \in Item
        PROVE  \/ w.items[i] = r.items[i]
               \/ r.items[i].status = "failed" /\ \A k \in Kind : w.items[i].render[k] = "not_started"
    BY <2>1, DocumentParts, RequeuedItem DEF NotStarted
  <2>3. ASSUME RenderOK(r), NEW k \in Kind, NEW i \in Item
        PROVE  /\ w.items[i].render[k] \in {"running", "completed"} => w.items[i].status = "completed"
               /\ Shows(w, k, i) <=> Shows(r, k, i)
    <3>1. r.items[i].render[k] \in {"running", "completed"} => r.items[i].status = "completed"
      BY <2>3, DocumentIsSome DEF RenderOK
    <3>2. CASE w.items[i] = r.items[i]
      BY <3>1, <3>2 DEF Shows
    <3>3. CASE r.items[i].status = "failed" /\ w.items[i].render[k] = "not_started"
      BY <3>1, <3>3 DEF Shows
    <3> QED
      BY <2>2, <3>2, <3>3
  <2>4. Draws("save", r, w)
    BY <2>3 DEF Draws, RenderOK
  <2> QED
    BY <2>4 DEF w
<1> QED
  BY <1>1, <1>2, <1>3 DEF Request

LEMMA RequestDraws ==
  ASSUME stored \in Document, NEW k \in Kind, NEW f \in BOOLEAN, Idle(k)
  PROVE  Draws("save", stored, WithRender(stored, k, Queued(stored, k, f)))
<1> DEFINE w == WithRender(stored, k, Queued(stored, k, f))
<1>1. /\ \A i \in Item :
           /\ w.items[i].status = stored.items[i].status
           /\ \A l \in Kind : w.items[i].render[l] =
                IF l = k THEN Queued(stored, k, f)[i] ELSE stored.items[i].render[l]
  BY QueuedType, RenderedDocument
<1>2. \A i \in Item : stored.items[i].render[k] \notin {"queued", "running"}
  BY DEF Idle, Rendering, Busy
<1> HIDE DEF w
<1>3. ASSUME RenderOK(stored), NEW l \in Kind, NEW i \in Item
      PROVE  /\ w.items[i].render[l] \in {"running", "completed"} => w.items[i].status = "completed"
             /\ Shows(w, l, i) <=> Shows(stored, l, i)
  <2>1. stored.items[i].render[l] \in {"running", "completed"} => stored.items[i].status = "completed"
    BY <1>3, DocumentIsSome DEF RenderOK
  <2>2. CASE l = k
    <3>1. w.items[i].render[l] \in {stored.items[i].render[l], "skipped", "queued"}
      BY <1>1, <2>2, QueuedItems
    <3>2. ~Shows(stored, l, i)
      BY <1>2, <2>2 DEF Shows
    <3> QED
      BY <1>1, <2>1, <3>1, <3>2 DEF Shows
  <2>3. CASE l # k
    BY <1>1, <2>1, <2>3 DEF Shows
  <2> QED
    BY <2>2, <2>3
<1>4. Draws("save", stored, w)
  BY <1>3 DEF Draws, RenderOK
<1> QED
  BY <1>4 DEF w

LEMMA TakenDraws ==
  ASSUME stored \in Document, NEW k \in Kind
  PROVE  Draws("renderSave", stored, WithRender(stored, k, Taken(k)))
<1> DEFINE w == WithRender(stored, k, Taken(k))
<1>1. \A i \in Item :
        /\ w.items[i].status = stored.items[i].status
        /\ \A l \in Kind : w.items[i].render[l] = IF l = k THEN Taken(k)[i] ELSE stored.items[i].render[l]
  BY TakenItems, RenderedDocument
<1>2. \A i \in Item :
        \/ Taken(k)[i] = stored.items[i].render[k]
        \/ /\ Taken(k)[i] = "running"
           /\ stored.items[i].render[k] = "queued" /\ stored.items[i].status = "completed"
        \/ Taken(k)[i] = "failed" /\ stored.items[i].render[k] = "queued"
  BY TakenItems
<1> HIDE DEF w
<1>3. ASSUME RenderOK(stored), NEW l \in Kind, NEW i \in Item
      PROVE  /\ w.items[i].render[l] \in {"running", "completed"} => w.items[i].status = "completed"
             /\ stored.items[i].render[l] # "queued" => (Shows(w, l, i) <=> Shows(stored, l, i))
  <2>1. stored.items[i].render[l] \in {"running", "completed"} => stored.items[i].status = "completed"
    BY <1>3, DocumentIsSome DEF RenderOK
  <2>2. CASE l = k
    BY <1>1, <1>2, <2>1, <2>2 DEF Shows
  <2>3. CASE l # k
    BY <1>1, <2>1, <2>3 DEF Shows
  <2> QED
    BY <2>2, <2>3
<1>4. Draws("renderSave", stored, w)
  BY <1>3 DEF Draws, RenderOK
<1> QED
  BY <1>4 DEF w

LEMMA MakesDraws ==
  ASSUME Placed, Makes
  PROVE  \/ \E k \in Kind, i \in Item : Rendered(k, i) /\ stored # None
         \/ /\ threads' = threads
            /\ \E a \in Actor \ {Renderer} : \E w, l, n : Keeps(a, w, l, n) /\ Draws(l, stored, w)
<1> DEFINE Goal == /\ threads' = threads
                   /\ \E a \in Actor \ {Renderer} : \E w, l, n : Keeps(a, w, l, n) /\ Draws(l, stored, w)
<1>1. ASSUME NEW c \in Client, NEW o \in Request, Handle(c, o), Alone PROVE Goal
  <2> DEFINE n == IF o \in {"launch", "resume", "retry"} THEN "start" ELSE "idle"
  <2>1. Keeps(c, Changed(o, stored), "save", n)
    BY <1>1, HandleKeeps
  <2>2. Draws("save", stored, Changed(o, stored))
    BY <2>1, HandleDraws DEF Keeps
  <2> HIDE DEF n
  <2> QED
    BY <1>1, <2>1, <2>2, ActorsDiffer DEF Alone
<1>2. ASSUME NEW c \in Client, NEW k \in Kind, NEW f \in BOOLEAN, RequestRender(c, k, f) PROVE Goal
  <2> DEFINE w == WithRender(stored, k, Queued(stored, k, f))
  <2>1. Keeps(c, w, "save", "render")
    BY <1>2, RequestRenderKeeps
  <2>2. Idle(k) /\ threads' = threads
    BY <1>2 DEF RequestRender
  <2>3. Draws("save", stored, w)
    BY <2>1, <2>2, RequestDraws DEF Keeps
  <2> HIDE DEF w
  <2> QED
    BY <2>1, <2>2, <2>3, ActorsDiffer
<1>3. ASSUME NEW a \in Client \cup {Driver}, StartItems(a), Alone PROVE Goal
  <2>1. PICK bad \in SUBSET In(stored, "queued") : Keeps(a, WithJobs(bad), "startSave", AfterStart(a))
    BY <1>3, StartItemsKeeps
  <2>2. stored \in Document
    BY <2>1 DEF Keeps
  <2> DEFINE w == WithJobs(bad)
  <2>3. w \in Document /\ \A i \in Item :
           /\ w.items[i].render = stored.items[i].render
           /\ stored.items[i].status = "completed" => w.items[i].status = "completed"
    <3>1. \A i \in Item : stored.items[i].status = "completed" => i \notin StartedOf(bad)
      BY StartedAreQueued DEF In
    <3> QED
      BY <2>2, <3>1, StartedDocument
  <2> HIDE DEF w
  <2>4. Draws("startSave", stored, w)
    BY <2>2, <2>3, SameDraws
  <2>5. a \in Actor \ {Renderer} /\ Keeps(a, w, "startSave", AfterStart(a))
    BY <2>1, ActorsDiffer DEF w
  <2> QED
    BY <1>3, <2>4, <2>5 DEF Alone
<1>4. ASSUME Sync, Alone PROVE Goal
  <2> DEFINE w == Synced(stored, Status)
  <2>1. Keeps(Driver, w, "syncSave", "reread")
    BY <1>4, SyncKeeps
  <2>2. stored \in Document
    BY <2>1 DEF Keeps
  <2>3. w \in Document /\ \A i \in Item :
           /\ w.items[i].render = stored.items[i].render
           /\ stored.items[i].status # "running" => w.items[i].status = stored.items[i].status
    BY <2>2, SyncedDocument, SyncedItem
  <2> HIDE DEF w
  <2>4. Draws("syncSave", stored, w)
    BY <2>2, <2>3, SameDraws
  <2> QED
    BY <1>4, <2>1, <2>4, ActorsDiffer DEF Alone
<1>5. ASSUME Finishes, Alone PROVE Goal
  <2> DEFINE w == Finished(stored)
  <2>1. Keeps(Driver, w, "finish", "ending")
    BY <1>5 DEF Finishes
  <2>2. stored \in Document
    BY <2>1 DEF Keeps
  <2>3. w \in Document /\ w.items = stored.items
    BY <2>2, FinishedDocument
  <2> HIDE DEF w
  <2>4. Draws("finish", stored, w)
    BY <2>2, <2>3, SameDraws
  <2> QED
    BY <1>5, <2>1, <2>4, ActorsDiffer DEF Alone
<1>6. ASSUME NEW k \in Kind, NEW a \in Client \cup {k}, RenderItems(a, k) PROVE Goal
  <2>1. Keeps(a, WithRender(stored, k, Taken(k)), "renderSave", NextStep(a)) /\ threads' = threads
    BY <1>6, RenderItemsKeeps
  <2>2. Draws("renderSave", stored, WithRender(stored, k, Taken(k)))
    BY <2>1, TakenDraws DEF Keeps
  <2>3. a \in Actor \ {Renderer}
    BY ActorsDiffer
  <2> QED
    BY <2>1, <2>2, <2>3
<1> QED
  BY <1>1, <1>2, <1>3, <1>4, <1>5, <1>6 DEF Makes

LEMMA DrawsStaySmall ==
  ASSUME Placed, DrawsAreSmall, [RenderNext]_renderVars
  PROVE  DrawsAreSmall'
<1>0. pc \in [Actor -> Label] /\ copy \in [Actor -> Copies \cup {None}]
  BY DEF Placed, RenderTypeOK, TypeOK, Copies
<1>1. ASSUME \A a \in Actor \ {Renderer} : pc'[a] \in SavingAt => pc'[a] = pc[a] /\ copy'[a] = copy[a]
      PROVE  DrawsAreSmall'
  <2>1. ASSUME NEW a \in Actor \ {Renderer}, pc'[a] \in SavingAt
        PROVE  Draws(pc'[a], copy'[a].read, copy'[a].write)
    BY <1>1, <2>1 DEF DrawsAreSmall, Reads, Writes
  <2> QED
    BY <2>1 DEF DrawsAreSmall, Reads, Writes
<1>2. CASE UNCHANGED renderVars
  BY <1>1, <1>2 DEF renderVars, vars
<1>3. ASSUME NEW a \in Actor, Saves(a) PROVE DrawsAreSmall'
  <2>1. copy[a].next \notin SavingAt
    BY <1>3 DEF Placed, ActorsArePlaced, Saves, SavingAt, GoesOnAt, AfterStart, NextStep
  <2>2. \A b \in Actor : pc'[b] \in SavingAt => pc'[b] = pc[b] /\ copy'[b] = copy[b]
    BY <1>0, <1>3, <2>1 DEF Saves
  <2> QED
    BY <1>1, <2>2
<1>4. ASSUME Makes PROVE DrawsAreSmall'
  <2>1. CASE \E k \in Kind, i \in Item : Rendered(k, i) /\ stored # None
    <3>1. PICK k \in Kind, i \in Item : Rendered(k, i) /\ stored # None
      BY <2>1
    <3>2. PICK s \in {"completed", "failed"} :
            Keeps(Renderer, [stored EXCEPT !.items[i].render[k] = s], "renderSave", "idle")
      BY <3>1, RenderedKeeps
    <3>3. \A b \in Actor : b # Renderer => pc'[b] = pc[b] /\ copy'[b] = copy[b]
      BY <1>0, <3>2 DEF Keeps
    <3> QED
      BY <1>1, <3>3
  <2>2. CASE \E a \in Actor \ {Renderer} : \E w, l, n : Keeps(a, w, l, n) /\ Draws(l, stored, w)
    <3>1. PICK a \in Actor \ {Renderer} : \E w, l, n : Keeps(a, w, l, n) /\ Draws(l, stored, w)
      BY <2>2
    <3>2. PICK w, l, n : Keeps(a, w, l, n) /\ Draws(l, stored, w)
      BY <3>1
    <3>3. /\ \A b \in Actor : b # a => pc'[b] = pc[b] /\ copy'[b] = copy[b]
          /\ pc'[a] = l /\ copy'[a].read = stored /\ copy'[a].write = w
      BY <1>0, <3>2 DEF Keeps
    <3>4. ASSUME NEW b \in Actor \ {Renderer}, pc'[b] \in SavingAt
          PROVE  Draws(pc'[b], copy'[b].read, copy'[b].write)
      <4>1. CASE b = a
        BY <3>2, <3>3, <4>1
      <4>2. CASE b # a
        BY <3>3, <3>4, <4>2 DEF DrawsAreSmall, Reads, Writes
      <4> QED
        BY <4>1, <4>2
    <3> QED
      BY <3>4 DEF DrawsAreSmall, Reads, Writes
  <2> QED
    BY <1>4, <2>1, <2>2, MakesDraws
<1>5. ASSUME Goes PROVE DrawsAreSmall'
  BY <1>1, <1>5 DEF Goes
<1>6. ASSUME JobEnds PROVE DrawsAreSmall'
  BY <1>1, <1>6, JobEndsSteps
<1>7. ASSUME Restarts PROVE DrawsAreSmall'
  <2>1. \A a \in Actor : pc'[a] \notin SavingAt
    BY <1>7, RestartFinds DEF Restarts, SavingAt
  <2> QED
    BY <1>1, <2>1
<1> QED
  BY <1>2, <1>3, <1>4, <1>5, <1>6, <1>7, StepKinds

\* A save of an actor that neither starts renderings nor delivers one.
LEMMA PlainSaveThreads ==
  ASSUME Placed, ChangesAreSmall, DrawsAreSmall, ThreadsFit,
         NEW a \in Actor \ {Renderer}, Saves(a), pc[a] # "renderSave", "overwritten" \notin lapses'
  PROVE  ThreadsFit'
<1> DEFINE w == Writes(a)
<1>1. stored' = w /\ stored = Reads(a) /\ stored \in Document /\ pc[a] \in SavingAt
  BY SavesSmall
<1>2. /\ threads' = threads /\ died' = died
      /\ pc'[Renderer] = pc[Renderer] /\ copy'[Renderer] = copy[Renderer]
  BY ActorsDiffer DEF Saves, Placed, RenderTypeOK, TypeOK
<1>3. Draws(pc[a], stored, w)
  BY <1>1 DEF DrawsAreSmall
<1>4. stored # None
  BY <1>1, DocumentIsSome
<1> HIDE DEF w
<1>5. RenderOK(w) /\ (w # None => \A k \in Kind, i \in Item : Shows(w, k, i) <=> Shows(stored, k, i))
  BY <1>3 DEF Draws, ThreadsFit, RenderOK
<1>6. \A k \in Kind, i \in Item : BeingSaved(k, i)' <=> BeingSaved(k, i)
  BY <1>2 DEF BeingSaved
<1>7. \A k \in Kind, i \in Item : threads'[k][i] <= 1
  BY <1>2 DEF ThreadsFit
<1>8. ASSUME stored' # None, NEW k \in Kind, NEW i \in Item
      PROVE  /\ threads'[k][i] > 0 => Shows(stored', k, i)
             /\ Shows(stored', k, i) => threads'[k][i] > 0 \/ BeingSaved(k, i)' \/ <<k, i>> \in died'
  BY <1>1, <1>2, <1>4, <1>5, <1>6, <1>8 DEF ThreadsFit
<1>9. pc'[Renderer] = "renderSave" => Delivers(copy'[Renderer].read, copy'[Renderer].write, threads')
  BY <1>2 DEF ThreadsFit, Reads, Writes
<1> QED
  BY <1>1, <1>5, <1>7, <1>8, <1>9 DEF ThreadsFit, Reads, Writes

\* The threads start with the save that shows their items as running.
LEMMA RenderingSaveThreads ==
  ASSUME Placed, ChangesAreSmall, DrawsAreSmall, ThreadsFit,
         NEW a \in Actor \ {Renderer}, Saves(a), pc[a] = "renderSave", "overwritten" \notin lapses'
  PROVE  ThreadsFit'
<1> DEFINE w == Writes(a)
<1>1. stored' = w /\ stored = Reads(a) /\ stored \in Document /\ pc[a] \in SavingAt
  BY SavesSmall
<1>2. \A k \in Kind, i \in Item : threads'[k][i] =
         IF stored.items[i].render[k] = "queued" /\ Shows(w, k, i) THEN threads[k][i] + 1 ELSE threads[k][i]
  BY <1>1 DEF Saves, Reads, Writes, Shows
<1>3. pc'[Renderer] = pc[Renderer] /\ pc[Renderer] # "renderSave" /\ died' = died
  <2>1. lock = a
    BY DEF Placed, ActorsArePlaced, LockedAt
  <2>2. pc[Renderer] = "renderSave" => lock = Renderer
    BY ActorsDiffer DEF Placed, ActorsArePlaced, LockedAt
  <2> QED
    BY <2>1, <2>2, ActorsDiffer DEF Saves, Placed, RenderTypeOK, TypeOK
<1>4. Draws("renderSave", stored, w) /\ stored # None /\ w # None
  <2>1. ChangesStatus("renderSave", stored, w, copy[a].next)
    BY SavesSmall DEF SmallChange
  <2> QED
    BY <1>1, <2>1, DocumentIsSome DEF DrawsAreSmall, ChangesStatus
<1>5. \A k \in Kind, i \in Item : threads[k][i] \in Nat
  BY DEF Placed, BatchTypes
<1> HIDE DEF w
<1>6. /\ RenderOK(w)
      /\ \A k \in Kind, i \in Item : stored.items[i].render[k] # "queued" => (Shows(w, k, i) <=> Shows(stored, k, i))
  BY <1>4 DEF Draws, ThreadsFit
<1>7. ASSUME NEW k \in Kind, NEW i \in Item
      PROVE  /\ threads'[k][i] <= 1
             /\ threads'[k][i] > 0 => Shows(w, k, i)
             /\ Shows(w, k, i) => threads'[k][i] > 0 \/ <<k, i>> \in died
  <2>1. /\ threads[k][i] <= 1
        /\ threads[k][i] > 0 => Shows(stored, k, i)
        /\ Shows(stored, k, i) => threads[k][i] > 0 \/ <<k, i>> \in died
    BY <1>3, <1>4 DEF ThreadsFit, BeingSaved
  <2>2. CASE stored.items[i].render[k] = "queued"
    <3>1. threads[k][i] = 0
      BY <1>5, <2>1, <2>2 DEF Shows
    <3> QED
      BY <1>2, <2>2, <3>1
  <2>3. CASE stored.items[i].render[k] # "queued"
    BY <1>2, <1>6, <2>1, <2>3
  <2> QED
    BY <2>2, <2>3
<1> QED
  BY <1>1, <1>3, <1>6, <1>7 DEF ThreadsFit

\* The save that shows a result.
LEMMA ResultSaveThreads ==
  ASSUME Placed, ChangesAreSmall, ThreadsFit, Saves(Renderer), "overwritten" \notin lapses'
  PROVE  ThreadsFit'
<1> DEFINE w == Writes(Renderer)
<1>0. Renderer \in Actor /\ Renderer \notin Client \cup Kind \cup {Driver}
  BY ActorsDiffer
<1>1. stored' = w /\ stored = Reads(Renderer) /\ stored \in Document /\ pc[Renderer] \in SavingAt
  BY <1>0, SavesSmall
<1>2. pc[Renderer] = "renderSave"
  BY <1>0, <1>1 DEF Placed, ActorsArePlaced, MayBeAt, SavingAt
<1>3. pc'[Renderer] = "idle" /\ threads' = threads /\ died' = died
  <2>1. copy[Renderer].next = "idle"
    BY <1>0, <1>2, SavesSmall DEF GoesOnAt
  <2> QED
    BY <1>0, <2>1 DEF Saves, Placed, RenderTypeOK, TypeOK
<1>4. stored # None /\ RenderOK(stored)
  BY <1>1, DocumentIsSome DEF ThreadsFit
<1>5. PICK k \in Kind, i \in Item :
         /\ threads[k][i] = 0 /\ Shows(stored, k, i) /\ ~Shows(w, k, i)
         /\ \A l \in Kind, m \in Item : l # k \/ m # i => w.items[m].render[l] = stored.items[m].render[l]
         /\ \A m \in Item : w.items[m].status = stored.items[m].status
  BY <1>1, <1>2 DEF ThreadsFit, Delivers
<1>6. \A l \in Kind, m \in Item : BeingSaved(l, m) => w.items[m].render[l] # stored.items[m].render[l]
  BY <1>1 DEF BeingSaved, Reads, Writes
<1> HIDE DEF w
<1>7. ASSUME NEW l \in Kind, NEW m \in Item
      PROVE  /\ threads[l][m] > 0 => Shows(w, l, m)
             /\ Shows(w, l, m) => threads[l][m] > 0 \/ <<l, m>> \in died
             /\ w.items[m].render[l] \in {"running", "completed"} => w.items[m].status = "completed"
  <2>1. stored.items[m].render[l] \in {"running", "completed"} => stored.items[m].status = "completed"
    BY <1>4 DEF RenderOK
  <2>2. CASE l = k /\ m = i
    <3>1. stored.items[m].status = "completed"
      BY <1>5, <2>1, <2>2 DEF Shows
    <3> QED
      BY <1>5, <2>2, <3>1
  <2>3. CASE l # k \/ m # i
    <3>1. w.items[m].render[l] = stored.items[m].render[l] /\ ~BeingSaved(l, m)
      BY <1>5, <1>6, <2>3
    <3>2. /\ threads[l][m] > 0 => Shows(stored, l, m)
          /\ Shows(stored, l, m) => threads[l][m] > 0 \/ <<l, m>> \in died
      BY <1>4, <3>1 DEF ThreadsFit
    <3> QED
      BY <1>5, <2>1, <3>1, <3>2 DEF Shows
  <2> QED
    BY <2>2, <2>3
<1>8. RenderOK(w)
  BY <1>7 DEF RenderOK
<1>9. \A l \in Kind, m \in Item : threads[l][m] <= 1
  BY DEF ThreadsFit
<1> QED
  BY <1>1, <1>3, <1>7, <1>8, <1>9 DEF ThreadsFit

\* A thread ends: its result is in hand until it is saved.
LEMMA ResultThreads ==
  ASSUME Placed, ThreadsFit, NEW k \in Kind, NEW i \in Item, Rendered(k, i), stored # None
  PROVE  ThreadsFit'
<1>1. PICK s \in {"completed", "failed"} :
        Keeps(Renderer, [stored EXCEPT !.items[i].render[k] = s], "renderSave", "idle")
  BY RenderedKeeps
<1> DEFINE w == [stored EXCEPT !.items[i].render[k] = s]
<1>2. /\ stored' = stored /\ stored \in Document
      /\ pc'[Renderer] = "renderSave" /\ copy'[Renderer].read = stored /\ copy'[Renderer].write = w
  BY <1>1, ActorsDiffer DEF Keeps, Placed, RenderTypeOK, TypeOK
<1>3. \A m \in Item :
        /\ w.items[m].status = stored.items[m].status
        /\ \A l \in Kind : w.items[m].render[l] = IF l = k /\ m = i THEN s ELSE stored.items[m].render[l]
  <2>1. s \in RenderStatus
    BY DEF RenderStatus
  <2> QED
    BY <1>2, <2>1, OneRendered
<1>4. pc[Renderer] # "renderSave" /\ died' = died
  BY <1>1, ActorsDiffer DEF Keeps, SavingAt, Rendered
<1>5. /\ threads \in [Kind -> [Item -> Nat]] /\ threads[k][i] > 0
      /\ threads' = [threads EXCEPT ![k][i] = threads[k][i] - 1]
  BY DEF Rendered, Placed, BatchTypes
<1>6. Shows(stored, k, i) /\ threads[k][i] <= 1
  BY <1>5 DEF ThreadsFit
<1>7. /\ threads'[k][i] = 0
      /\ \A l \in Kind, m \in Item : l # k \/ m # i => threads'[l][m] = threads[l][m]
  BY <1>5, <1>6
<1> HIDE DEF w
<1>8. ~Shows(w, k, i)
  BY <1>3 DEF Shows
<1>9. Delivers(stored, w, threads')
  BY <1>3, <1>6, <1>7, <1>8 DEF Delivers
<1>10. ASSUME NEW l \in Kind, NEW m \in Item
       PROVE  /\ threads'[l][m] <= 1
              /\ threads'[l][m] > 0 => Shows(stored, l, m)
              /\ Shows(stored, l, m) => threads'[l][m] > 0 \/ BeingSaved(l, m)' \/ <<l, m>> \in died'
  <2>1. CASE l = k /\ m = i
    <3>1. BeingSaved(k, i)'
      BY <1>2, <1>6, <1>8 DEF BeingSaved, Shows
    <3> QED
      BY <1>7, <2>1, <3>1
  <2>2. CASE l # k \/ m # i
    <3>1. /\ threads[l][m] <= 1
          /\ threads[l][m] > 0 => Shows(stored, l, m)
          /\ Shows(stored, l, m) => threads[l][m] > 0 \/ <<l, m>> \in died
      BY <1>2, <1>4 DEF ThreadsFit, BeingSaved
    <3> QED
      BY <1>4, <1>7, <2>2, <3>1
  <2> QED
    BY <2>1, <2>2
<1>11. RenderOK(stored)
  BY DEF ThreadsFit
<1> QED
  BY <1>2, <1>9, <1>10, <1>11 DEF ThreadsFit, Reads, Writes

\* A step that leaves the document and the renderer leaves the rest too.
LEMMA StillThreads ==
  ASSUME Placed, ThreadsFit, stored' = stored,
         pc'[Renderer] = "renderSave" <=> pc[Renderer] = "renderSave",
         pc[Renderer] = "renderSave" => copy'[Renderer] = copy[Renderer],
         threads' \in [Kind -> [Item -> Nat]], died \subseteq died',
         \A k \in Kind, i \in Item :
            \/ threads'[k][i] = threads[k][i]
            \/ threads'[k][i] = threads[k][i] - 1 /\ (stored = None \/ <<k, i>> \in died')
  PROVE  ThreadsFit'
<1>1. \A k \in Kind, i \in Item : threads[k][i] \in Nat /\ threads'[k][i] \in Nat
  BY DEF Placed, BatchTypes
<1>2. \A k \in Kind, i \in Item :
        /\ threads'[k][i] <= 1
        /\ threads[k][i] = 0 => threads'[k][i] = 0
        /\ threads'[k][i] > 0 => threads[k][i] > 0
        /\ stored # None /\ threads[k][i] > 0 => threads'[k][i] > 0 \/ <<k, i>> \in died'
  <2> SUFFICES ASSUME NEW k \in Kind, NEW i \in Item
               PROVE  /\ threads'[k][i] <= 1
                      /\ threads[k][i] = 0 => threads'[k][i] = 0
                      /\ threads'[k][i] > 0 => threads[k][i] > 0
                      /\ stored # None /\ threads[k][i] > 0 => threads'[k][i] > 0 \/ <<k, i>> \in died'
    OBVIOUS
  <2>1. threads[k][i] <= 1 /\ threads[k][i] \in Nat /\ threads'[k][i] \in Nat
    BY <1>1 DEF ThreadsFit
  <2>2. CASE threads'[k][i] = threads[k][i]
    BY <2>1, <2>2
  <2>3. CASE threads'[k][i] = threads[k][i] - 1 /\ (stored = None \/ <<k, i>> \in died')
    BY <2>1, <2>3
  <2> QED
    BY <2>2, <2>3
<1>3. \A k \in Kind, i \in Item : BeingSaved(k, i)' <=> BeingSaved(k, i)
  BY DEF BeingSaved
<1>4. ASSUME stored' # None, NEW k \in Kind, NEW i \in Item
      PROVE  /\ threads'[k][i] > 0 => Shows(stored', k, i)
             /\ Shows(stored', k, i) => threads'[k][i] > 0 \/ BeingSaved(k, i)' \/ <<k, i>> \in died'
  <2>1. /\ threads[k][i] > 0 => Shows(stored, k, i)
        /\ Shows(stored, k, i) => threads[k][i] > 0 \/ BeingSaved(k, i) \/ <<k, i>> \in died
    BY <1>4 DEF ThreadsFit
  <2> QED
    BY <1>2, <1>3, <1>4, <2>1
<1>5. ASSUME pc'[Renderer] = "renderSave" PROVE Delivers(copy'[Renderer].read, copy'[Renderer].write, threads')
  <2>1. Delivers(copy'[Renderer].read, copy'[Renderer].write, threads)
    BY <1>5 DEF ThreadsFit, Reads, Writes
  <2> QED
    BY <1>2, <2>1 DEF Delivers
<1>6. RenderOK(stored')
  BY DEF ThreadsFit
<1> QED
  BY <1>2, <1>4, <1>5, <1>6 DEF ThreadsFit, Reads, Writes

\* A restart leaves nothing shown as running, and no thread.
LEMMA RestartThreads ==
  ASSUME Placed, ThreadsFit, Restarts
  PROVE  ThreadsFit'
<1>1. PICK d \in Document \cup {None} :
         /\ stored' = Recovered(d, CutStatus)
         /\ d = None <=> stored = None
         /\ d # None => d.items = stored.items
  BY RestartFinds DEF Restarts
<1>2. pc'[Renderer] = "idle" /\ \A k \in Kind, i \in Item : threads'[k][i] = 0
  BY RestartFinds, ActorsDiffer DEF Restarts, NoThreads
<1>3. CASE stored' = None
  BY <1>2, <1>3 DEF ThreadsFit, RenderOK
<1>4. CASE stored' # None
  <2>1. d \in Document /\ stored # None
    BY <1>1, <1>4, RecoveredNone
  <2>2. ASSUME NEW k \in Kind, NEW i \in Item
        PROVE  /\ ~Shows(stored', k, i)
               /\ stored'.items[i].render[k] \in {"running", "completed"} => stored'.items[i].status = "completed"
    <3> DEFINE m == d.items[i]
               n == Recovered(d, CutStatus).items[i]
    <3>1. n.render = Interrupted(m.render) /\ (m.status # "running" => n.status = m.status)
      BY <2>1, RecoveredItem
    <3>2. m.render[k] \in {"running", "completed"} => m.status = "completed"
      BY <1>1, <2>1 DEF ThreadsFit, RenderOK
    <3>3. n = stored'.items[i]
      BY <1>1
    <3> HIDE DEF m, n
    <3>4. n.render[k] = IF m.render[k] \in {"queued", "running"} THEN "failed" ELSE m.render[k]
      BY <3>1 DEF Interrupted
    <3>5. n.render[k] # "running" /\ (n.render[k] = "completed" => n.status = "completed")
      BY <3>1, <3>2, <3>4
    <3> QED
      BY <3>3, <3>5 DEF Shows
  <2> QED
    BY <1>2, <2>2 DEF ThreadsFit, RenderOK
<1> QED
  BY <1>3, <1>4

LEMMA ThreadsFitNext ==
  ASSUME Placed, ChangesAreSmall, DrawsAreSmall, "overwritten" \notin lapses => ThreadsFit,
         [RenderNext]_renderVars, "overwritten" \notin lapses'
  PROVE  ThreadsFit'
<1>0. Renderer \in Actor /\ threads \in [Kind -> [Item -> Nat]]
  BY ActorsDiffer DEF Placed, BatchTypes
<1>1. ASSUME NEW a \in Actor, Saves(a) PROVE ThreadsFit'
  <2>1. ThreadsFit
    BY <1>1 DEF Saves
  <2> QED
    BY <1>1, <2>1, PlainSaveThreads, RenderingSaveThreads, ResultSaveThreads
<1>2. ASSUME Makes PROVE ThreadsFit'
  <2>1. \E a \in Actor : \E w, l, n : Keeps(a, w, l, n) /\ SmallChange(l, stored, w, n)
    BY <1>2, MakesSmall
  <2>2. ThreadsFit /\ stored' = stored /\ died' = died
    BY <1>2, <2>1, MakesSpare DEF Keeps
  <2>3. ASSUME threads' = threads, NEW a \in Actor \ {Renderer}, NEW w, NEW l, NEW n, Keeps(a, w, l, n)
        PROVE  ThreadsFit'
    <3>1. pc'[Renderer] = pc[Renderer] /\ copy'[Renderer] = copy[Renderer]
      BY <1>0, <2>3 DEF Keeps, Placed, RenderTypeOK, TypeOK
    <3> QED
      BY <1>0, <2>2, <2>3, <3>1, StillThreads
  <2> QED
    BY <1>2, <2>2, <2>3, MakesDraws, ResultThreads
<1>3. CASE UNCHANGED renderVars
  <2>1. UNCHANGED <<stored, pc, copy, threads, died, lapses>>
    BY <1>3 DEF renderVars, vars, shared
  <2> QED
    BY <1>0, <2>1, StillThreads
<1>4. ASSUME Goes PROVE ThreadsFit'
  <2>1. /\ stored' = stored /\ "overwritten" \notin lapses
        /\ pc'[Renderer] = "renderSave" <=> pc[Renderer] = "renderSave"
        /\ copy'[Renderer] = copy[Renderer]
    BY <1>0, <1>4 DEF Goes, SavingAt
  <2>2. /\ threads' \in [Kind -> [Item -> Nat]] /\ died \subseteq died'
        /\ \A k \in Kind, i \in Item :
             \/ threads'[k][i] = threads[k][i]
             \/ threads'[k][i] = threads[k][i] - 1 /\ (stored = None \/ <<k, i>> \in died')
    BY <1>4 DEF Goes
  <2> QED
    BY <2>1, <2>2, StillThreads
<1>5. ASSUME JobEnds PROVE ThreadsFit'
  <2>1. UNCHANGED <<stored, pc, copy, threads, died, lapses>>
    BY <1>5, JobEndsSteps
  <2> QED
    BY <1>0, <2>1, StillThreads
<1>6. ASSUME Restarts PROVE ThreadsFit'
  <2>1. "overwritten" \notin lapses
    BY <1>6, RestartStatus DEF Restarts
  <2> QED
    BY <1>6, <2>1, RestartThreads
<1> QED
  BY <1>1, <1>2, <1>3, <1>4, <1>5, <1>6, StepKinds

\* What holds of the threads until an old document is put back.
BatchThreads == DrawsAreSmall /\ (~Overwritten => ThreadsFit)

LEMMA BatchThreadsInit == RenderInit => BatchThreads
<1> SUFFICES ASSUME RenderInit PROVE BatchThreads
  OBVIOUS
<1>1. /\ \A a \in Actor : pc[a] = "idle"
      /\ \A k \in Kind, i \in Item : threads[k][i] = 0
  BY DEF RenderInit, Init, NoThreads
<1>2. \A k \in Kind, i \in Item : stored.items[i].render[k] = "not_started"
  BY DEF RenderInit, Init, Imported, NotStarted
<1>3. DrawsAreSmall
  BY <1>1 DEF DrawsAreSmall, SavingAt
<1>4. ThreadsFit
  BY <1>1, <1>2, ActorsDiffer DEF ThreadsFit, RenderOK, Shows
<1> QED
  BY <1>3, <1>4 DEF BatchThreads

LEMMA BatchThreadsNext ==
  BatchTruth /\ BatchStatus /\ BatchThreads /\ [RenderNext]_renderVars => BatchThreads'
  BY DrawsStaySmall, ThreadsFitNext DEF BatchTruth, BatchStatus, BatchThreads, Overwritten

\* Only completed items show a rendering, an item has at most one thread per
\* kind that renders it, and what shows as running has one or a result that is
\* being saved, unless its thread died, until a save puts an old document back; and
\* everything keeps its type.
THEOREM RenderingsStayFitting == RenderSpec => []RenderingsFitThreads
<1>1. BatchTruth /\ BatchThreads => RenderingsFitThreads
  <2>1. BatchTruth => RenderTypeOK
    BY DEF BatchTruth, Placed
  <2>2. ThreadsFit => RenderedIsCompleted /\ OneRendererPerItem /\ RunningIsRendered
    BY DEF ThreadsFit, RenderOK, Shows, RenderedIsCompleted, OneRendererPerItem, RunningIsRendered
  <2> QED
    BY <2>1, <2>2 DEF BatchThreads, RenderingsFitThreads
<1>2. BatchTruth => Placed
  BY DEF BatchTruth
<1> QED
  BY <1>1, <1>2, BatchThreadsInit, BatchThreadsNext, BatchStatusInit, BatchStatusNext,
     DocumentsStayTruthful, PTL DEF RenderSpec

=============================================================================
