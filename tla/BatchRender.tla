---------------------------- MODULE BatchRender ----------------------------
(***************************************************************************)
(* Rendering the completed items of a batch, beside BatchRunner: for each  *)
(* kind (audio, stems) a loop thread starts a thread per queued item and   *)
(* waits until none is left.  Both save the same batch document under the  *)
(* runner's lock, the request that queues the items saves it without.      *)
(***************************************************************************)
EXTENDS BatchRunner

CONSTANT Renderer  \* whichever render thread has the runner's lock

\* A kind is also the name of its loop thread.
ASSUME RenderAssumption == Helper = Kind \cup {Renderer} /\ Renderer \notin Kind

VARIABLES
    threads,  \* per kind and item: how many threads render it
    died,     \* history: kinds and items whose thread died, since the server started
    wanted    \* per client: the kind it asked for

renderVars == <<vars, threads, died, wanted>>

NoThreads == [k \in Kind |-> [i \in Item |-> 0]]
RenderInit == Init /\ threads = NoThreads /\ died = {} /\ wanted = [c \in Client |-> None]

Rendering(d, k, s) == {i \in Item : d.items[i].render[k] \in s}
Busy == {"queued", "running"}

WithRender(d, k, f) ==
    [d EXCEPT !.items = [i \in Item |-> [@[i] EXCEPT !.render[k] = f[i]]]]

\* render_audio and render_stems
Queued(d, k, failedOnly) ==
    [i \in Item |->
        LET item == d.items[i]
            now  == item.render[k]
        IN  CASE failedOnly /\ now # "failed" -> now
              [] item.status # "completed" -> IF now = "not_started" THEN "skipped" ELSE now
              [] ~failedOnly /\ now = "completed" -> now
              [] OTHER -> "queued"]

\* Neither generation nor rendering of kind k is under way.
Idle(k) ==
    /\ stored.status # "running" /\ In(stored, "running") = {}
    /\ Rendering(stored, k, Busy) = {}

RequestRender(c, k, failedOnly) ==
    /\ pc[c] = "idle" /\ calls < MaxCalls
    /\ stored # None
    /\ Idle(k)
    /\ LET new == Queued(stored, k, failedOnly) IN
         /\ \E i \in Item : new[i] = "queued"
         /\ Keep(c, stored, WithRender(stored, k, new), "render")
    /\ wanted' = [wanted EXCEPT ![c] = k]
    /\ calls' = calls + 1
    /\ GoTo(c, "save")
    /\ UNCHANGED <<shared, lock, again, restarts, strays, lapses, threads, died>>

-----------------------------------------------------------------------------
(* _start_available_audio_items and _start_available_stem_items             *)

AtStart(a, k) == pc[a] = "render" /\ (IF a \in Client THEN wanted[a] = k ELSE a = k) /\ lock = None
NextStep(a) == IF a \in Kind THEN "check" ELSE "ensureRender"
Room(k) == MaxConcurrency - Cardinality(Rendering(stored, k, {"running"}))
HasRoom(k) == Cardinality(Rendering(stored, k, {"running"})) < MaxConcurrency

RenderNothing(a, k) ==
    /\ AtStart(a, k)
    /\ stored # None => ~HasRoom(k)
    /\ GoTo(a, NextStep(a))
    /\ UNCHANGED <<shared, lock, again, copy, bounds, lapses, threads, died, wanted>>

\* Items that are no longer completed fail without taking room.
RenderItems(a, k) ==
    /\ AtStart(a, k)
    /\ stored # None /\ HasRoom(k)
    /\ LET queued  == Rendering(stored, k, {"queued"})
           good    == {i \in queued : stored.items[i].status = "completed"}
           reached == {i \in queued : Before(i, good) < Room(k)}
       IN  Keep(a, stored,
                WithRender(stored, k,
                    [i \in Item |-> CASE i \in reached \cap good -> "running"
                                      [] i \in reached \ good -> "failed"
                                      [] OTHER -> stored.items[i].render[k]]),
                NextStep(a))
    /\ lock' = a
    /\ GoTo(a, "renderSave")
    /\ UNCHANGED <<shared, again, bounds, lapses, threads, died, wanted>>

\* The threads are started once the batch is saved.
SaveRendering(a) ==
    /\ a # Renderer /\ pc[a] = "renderSave"
    /\ threads' = [k \in Kind |-> [i \in Item |->
         IF copy[a].read.items[i].render[k] = "queued" /\ copy[a].write.items[i].render[k] = "running"
         THEN threads[k][i] + 1 ELSE threads[k][i]]]
    /\ Store(a)
    /\ lock' = None
    /\ UNCHANGED <<jobs, attached, again, bounds, died, wanted>>

\* _ensure_audio_thread and _ensure_stem_thread
EnsureRender(c, k) ==
    /\ pc[c] = "ensureRender" /\ wanted[c] = k /\ lock = None
    /\ wanted' = [wanted EXCEPT ![c] = None]
    /\ pc' = [pc EXCEPT ![c] = "idle", ![k] = IF @ = "idle" THEN "render" ELSE @]
    /\ lapses' = IF pc[k] = "ending" THEN lapses \cup {"missed"} ELSE lapses
    /\ UNCHANGED <<shared, lock, again, copy, bounds, threads, died>>

-----------------------------------------------------------------------------
(* _run_batch_audio and _run_batch_stems                                    *)

\* Mutant of CheckRender: queued items do not keep the loop going.
CheckRenderRunning(k) ==
    /\ pc[k] = "check" /\ lock = None
    /\ GoTo(k, IF stored # None /\ Rendering(stored, k, {"running"}) # {} THEN "render" ELSE "ending")
    /\ UNCHANGED <<shared, lock, again, copy, bounds, lapses, threads, died, wanted>>

CheckRender(k) ==
    /\ pc[k] = "check" /\ lock = None
    /\ GoTo(k, IF stored # None /\ Rendering(stored, k, Busy) # {} THEN "render" ELSE "ending")
    /\ UNCHANGED <<shared, lock, again, copy, bounds, lapses, threads, died, wanted>>

EndRender(k) ==
    /\ pc[k] = "ending" /\ lock = None
    /\ GoTo(k, "idle")
    /\ UNCHANGED <<shared, lock, again, copy, bounds, lapses, threads, died, wanted>>

\* _render_audio_item and _render_stem_item: the outcome is taken into the
\* batch as it is then.
Rendered(k, i) ==
    /\ threads[k][i] > 0 /\ lock = None
    /\ threads' = [threads EXCEPT ![k][i] = @ - 1]
    /\ IF stored = None
       THEN UNCHANGED <<pc, copy, lock>>
       ELSE /\ \E s \in {"completed", "failed"} :
                 Keep(Renderer, stored, [stored EXCEPT !.items[i].render[k] = s], "idle")
            /\ lock' = Renderer
            /\ GoTo(Renderer, "renderSave")
    /\ UNCHANGED <<shared, again, bounds, lapses, died, wanted>>

\* An exception that render_job_audio or render_job_stems does not catch, as
\* when the files of the job are deleted meanwhile, ends the thread: the batch
\* is not told.
RenderDies(k, i) ==
    /\ threads[k][i] > 0
    /\ threads' = [threads EXCEPT ![k][i] = @ - 1]
    /\ died' = died \cup {<<k, i>>}
    /\ UNCHANGED <<vars, wanted>>

SaveRendered ==
    /\ pc[Renderer] = "renderSave"
    /\ Store(Renderer)
    /\ lock' = None
    /\ UNCHANGED <<jobs, attached, again, bounds, threads, died, wanted>>

-----------------------------------------------------------------------------
Alone == UNCHANGED <<threads, died, wanted>>

RunnerNext ==
    /\ Next
    /\ IF restarts' = restarts THEN Alone
       ELSE threads' = NoThreads /\ died' = {} /\ wanted' = [c \in Client |-> None]

RenderClientNext(c) ==
    \/ SaveRendering(c)
    \/ \E k \in Kind : RenderNothing(c, k) \/ RenderItems(c, k) \/ EnsureRender(c, k)

LoopNext(k) == RenderNothing(k, k) \/ RenderItems(k, k) \/ SaveRendering(k) \/ CheckRender(k) \/ EndRender(k)

RenderNext ==
    \/ RunnerNext
    \/ \E c \in Client : \/ RenderClientNext(c)
                         \/ \E k \in Kind, f \in BOOLEAN : RequestRender(c, k, f)
    \/ \E k \in Kind : LoopNext(k) \/ \E i \in Item : Rendered(k, i) \/ RenderDies(k, i)
    \/ SaveRendered

RenderSpec == RenderInit /\ [][RenderNext]_renderVars

\* What handlers, renderers and jobs have to do comes to an end, so some step
\* of theirs is taken as long as there is one; the batch thread and the loops
\* poll for ever, and each of them goes on.
Work ==
    \/ \E c \in Client : RenderClientNext(c) \/ (ClientNext(c) /\ Alone)
    \/ SaveRendered \/ \E k \in Kind, i \in Item : Rendered(k, i) \/ RenderDies(k, i)
    \/ (\E j \in DOMAIN jobs : Settle(j)) /\ Alone

FairRenderSpec ==
    /\ RenderSpec
    /\ WF_renderVars(Work)
    /\ WF_renderVars(DriverNext /\ Alone)
    /\ \A k \in Kind : WF_renderVars(LoopNext(k))

-----------------------------------------------------------------------------
(* Properties                                                               *)

RenderTypeOK ==
    /\ TypeOK
    /\ threads \in [Kind -> [Item -> Nat]] /\ died \subseteq Kind \X Item
    /\ wanted \in [Client -> Kind \cup {None}]

\* The result of rendering kind k of item i is being saved.
BeingSaved(k, i) ==
    /\ pc[Renderer] = "renderSave"
    /\ copy[Renderer].write.items[i].render[k] # copy[Renderer].read.items[i].render[k]

\* Two threads never render the same item to the same files: neither a second
\* request nor a restart starts a rendering that is under way.
OneRendererPerItem == \A k \in Kind, i \in Item : threads[k][i] <= 1

\* An item that shows as being rendered has a thread that renders it, after a
\* restart too, unless that thread died: else it would block every later
\* request for its kind.  The death of one blocks no other.
RunningIsRendered ==
    stored # None => \A k \in Kind, i \in Item :
        stored.items[i].render[k] = "running" =>
            threads[k][i] > 0 \/ BeingSaved(k, i) \/ <<k, i>> \in died

\* Only items whose generation is completed are rendered or show a rendering,
\* though the generation may be taken up again while renderers work; after a save
\* that put an old document back, a result can come to an item made again.
RenderedIsCompleted ==
    stored # None => \A k \in Kind, i \in Item :
        stored.items[i].render[k] \in {"running", "completed"} => stored.items[i].status = "completed"

\* The types; and, as long as no save put an old document back, the renderings
\* of the document and the threads that render correspond.
RenderingsFitThreads ==
    RenderTypeOK /\ (~Overwritten => RenderedIsCompleted /\ OneRendererPerItem /\ RunningIsRendered)

\* A rendering that was accepted ends, also for the items that had to wait for
\* room, unless a thread died or one of the two lapses happened.
RenderEnds ==
    \A k \in Kind : stored # None /\ Rendering(stored, k, Busy) # {}
                        ~> \/ stored = None \/ Rendering(stored, k, Busy) = {}
                           \/ lapses # {} \/ \E i \in Item : <<k, i>> \in died
=============================================================================
