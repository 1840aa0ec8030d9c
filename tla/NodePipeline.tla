----------------------------- MODULE NodePipeline -----------------------------
(***************************************************************************)
(* The run directory of one multinode job: ten planner nodes, each with a  *)
(* record in data/nodes, then the song plan, its MIDI file and the         *)
(* validator report.  A job runs all nodes (_run_job, through GraphRunner  *)
(* and generate_multinode_song_plan); a node retry (_run_node_retry)       *)
(* invalidates a node and what depends on it, and runs those again on the  *)
(* recorded outputs of the others.  A run may raise at any point, the      *)
(* server may die at any point, and the user then retries the job or any   *)
(* node.  Provider outputs differ from run to run, so that an output is    *)
(* known by the run that made it.  Each run has a thread of its own: a job *)
(* that is marked stalled may be retried while its thread goes on writing, *)
(* and two clients may both start a retry.                                 *)
(***************************************************************************)
EXTENDS Naturals, Sequences

CONSTANTS
    MaxRuns,  \* bound: runs on the directory, the first one included
    Joining,  \* bound: the runs that may start while another is at work
    Retried   \* bound: the nodes that are retried

VARIABLES
    status,   \* of the job; failed stands for interrupted, too
    runs,     \* runs started
    mode,     \* of each run: the node that is retried, or "all"
    at,       \* where the run is; idle before and after it
    next,     \* place in the order of the node it is at
    record,   \* data/nodes: status, the run that made the output, what that was made from
    plan,     \* song-plan.json: the run that wrote it, 0 when there is none
    midi,     \* song.mid: the plan it was rendered from, and whether it is whole
    report,   \* validator-report.json: the plan it is about
    crossed,  \* history: of the runs since the directory was last at rest, two were at work at once
    mixed     \* history: runs crossed, or one of all nodes began over finished records,
              \* and none of all nodes was finished since

files == <<plan, midi, report>>
threads == <<runs, mode, at, next>>
history == <<crossed, mixed>>
vars == <<status, threads, record, files, history>>

Run == 1..MaxRuns

PIPELINE_NODE_ORDER ==
    <<"brief_planner", "style_planner", "structure_planner", "lyric_planner", "harmony_planner",
      "melody_planner", "arrangement_planner", "critic", "repair", "song_plan_builder">>

Node == {PIPELINE_NODE_ORDER[i] : i \in DOMAIN PIPELINE_NODE_ORDER}
Place(n) == CHOOSE i \in DOMAIN PIPELINE_NODE_ORDER : PIPELINE_NODE_ORDER[i] = n

\* Mutant of NODE_DEPENDENCIES: the arrangement does not depend on the harmony,
\* as before v0.3.2.
DependenciesOfV031 ==
    [brief_planner |-> {},
     style_planner |-> {"brief_planner"},
     structure_planner |-> {"brief_planner", "style_planner"},
     lyric_planner |-> {"brief_planner", "structure_planner"},
     harmony_planner |-> {"brief_planner", "structure_planner"},
     melody_planner |-> {"style_planner", "structure_planner"},
     arrangement_planner |-> {"style_planner", "structure_planner", "melody_planner"},
     critic |-> {"arrangement_planner", "harmony_planner", "lyric_planner"},
     repair |-> {"critic"},
     song_plan_builder |-> {"repair"}]

NODE_DEPENDENCIES ==
    [brief_planner |-> {},
     style_planner |-> {"brief_planner"},
     structure_planner |-> {"brief_planner", "style_planner"},
     lyric_planner |-> {"brief_planner", "structure_planner"},
     harmony_planner |-> {"brief_planner", "structure_planner"},
     melody_planner |-> {"style_planner", "structure_planner"},
     arrangement_planner |-> {"style_planner", "structure_planner", "harmony_planner", "melody_planner"},
     critic |-> {"arrangement_planner", "harmony_planner", "lyric_planner"},
     repair |-> {"critic"},
     song_plan_builder |-> {"repair"}]

\* downstream_nodes visits the dependencies the other way round; so, for each
\* node, all that it depends on.
Ancestors[n \in Node] == NODE_DEPENDENCIES[n] \cup UNION {Ancestors[m] : m \in NODE_DEPENDENCIES[n]}
downstream_nodes(n) == {m \in Node : n \in Ancestors[m]}
affected_nodes_for_retry(n) == {n} \cup downstream_nodes(n)

\* What _run_multinode_pipeline hands to the producer of a node, by what it uses
\* of it: the melody takes the sections' names and bars, which are the
\* structure's, and not their chords and lyrics.
Draft == {"brief_planner", "structure_planner", "harmony_planner", "lyric_planner", "arrangement_planner"}
Inputs ==
    [brief_planner |-> {},
     style_planner |-> {"brief_planner"},
     structure_planner |-> {"brief_planner", "style_planner"},
     lyric_planner |-> {"brief_planner", "structure_planner"},
     harmony_planner |-> {"brief_planner", "structure_planner"},
     melody_planner |-> {"style_planner", "structure_planner"},
     arrangement_planner |-> {"style_planner", "structure_planner", "harmony_planner", "melody_planner"},
     critic |-> Draft,
     repair |-> Draft \cup {"critic"},
     song_plan_builder |-> Draft \cup {"critic", "repair"}]

\* The nodes that a run produces; it takes the others from their records.
Affected(i) == IF mode[i] = "all" THEN Node ELSE affected_nodes_for_retry(mode[i])

\* Which run made an output, as long as no other was at work with it.
Unclear == 0
Maker(i) == IF crossed THEN Unclear ELSE i

NoRecord == [status |-> "none", made |-> 0, from |-> <<>>]

\* "completed", "skipped" and "repaired" are all a node that has an output to reuse.
Finished(n) == record[n].status = "finished"

Busy == {i \in Run : at[i] # "idle"}

ASSUME PipelineAssumption ==
    MaxRuns \in Nat \ {0} /\ Joining \subseteq Run /\ Retried \subseteq Node

TypeOK ==
    /\ status \in {"none", "queued", "running", "completed", "failed", "cancelled", "stalled"}
    /\ runs \in 0..MaxRuns
    /\ mode \in [Run -> Node \cup {"all"}]
    /\ at \in [Run -> {"idle", "normalize", "invalidate", "node", "producing", "plan", "validate", "render",
                       "rendering", "report", "finish"}]
    /\ next \in [Run -> 1..(Len(PIPELINE_NODE_ORDER) + 1)]
    /\ \A n \in Node :
        /\ record[n].status \in {"none", "running", "finished", "failed", "invalidated"}
        /\ record[n].made \in 0..runs
        /\ record[n].made > 0 => record[n].from \in [Inputs[n] -> 0..runs]
    /\ plan \in 0..runs /\ midi \in [of : 0..runs, whole : BOOLEAN] /\ report \in 0..runs
    /\ crossed \in BOOLEAN /\ mixed \in BOOLEAN

Init ==
    /\ status = "none" /\ runs = 0
    /\ mode = [i \in Run |-> "all"] /\ at = [i \in Run |-> "idle"] /\ next = [i \in Run |-> 1]
    /\ record = [n \in Node |-> NoRecord]
    /\ plan = 0 /\ midi = [of |-> 0, whole |-> FALSE] /\ report = 0
    /\ crossed = FALSE /\ mixed = FALSE

-----------------------------------------------------------------------------
(* The user and the server                                                  *)

\* Another handler may have started a run since this one looked at the status.
Accepts(s) == status \in s \/ Busy # {}

Start(m, place, s) ==
    /\ runs < MaxRuns /\ (Busy # {} => runs + 1 \in Joining)
    /\ runs' = runs + 1
    /\ status' = s
    /\ mode' = [mode EXCEPT ![runs'] = m] /\ at' = [at EXCEPT ![runs'] = place]
    /\ next' = [next EXCEPT ![runs'] = 1]
    /\ crossed' = (Busy # {})
    /\ UNCHANGED <<record, files>>

\* create_job, and retry_job of a job that has failed or is marked stalled: all
\* nodes, and the old records stay until they are overwritten.
RunAll ==
    /\ Accepts({"none", "failed", "stalled"})
    /\ Start("all", "normalize", "queued")
    /\ mixed' = (mixed \/ Busy # {} \/ \E n \in Node : Finished(n))

\* retry_job_node, of a node that has a record.
RetryNode(n) ==
    /\ Accepts({"completed", "failed", "stalled"})
    /\ record[n].status # "none"
    /\ Start(n, "invalidate", "running")
    /\ mixed' = (mixed \/ Busy # {})

\* run_watchdog_tick marks a job that was running when it looked; the thread goes on.
Stall ==
    /\ status \notin {"none", "stalled"}
    /\ status' = "stalled"
    /\ UNCHANGED <<threads, record, files, history>>

\* The server dies; load_existing_jobs marks what was under way as interrupted.
Interrupt ==
    /\ Busy # {} \/ status \in {"queued", "running"}
    /\ status' = IF status \in {"queued", "running"} THEN "failed" ELSE status
    /\ at' = [i \in Run |-> "idle"] /\ mode' = [i \in Run |-> "all"] /\ next' = [i \in Run |-> 1]
    /\ UNCHANGED <<runs, record, files, history>>

-----------------------------------------------------------------------------
(* A run                                                                    *)

Goes(i, place) ==
    /\ at' = [at EXCEPT ![i] = place]
    /\ UNCHANGED <<runs, mode>>

\* The thread marks the job as running, and the step normalize_request writes
\* request.json and run-options.json.
Normalize(i) ==
    /\ at[i] = "normalize"
    /\ status' = "running"
    /\ Goes(i, "node")
    /\ UNCHANGED <<next, record, files, history>>

ToInvalidate(i) == {n \in Affected(i) : Place(n) >= next[i] /\ record[n].status # "none"}

\* One record of invalidate_nodes; the output stays.
Invalidate(i) ==
    /\ at[i] = "invalidate"
    /\ \E n \in ToInvalidate(i) :
        /\ \A m \in ToInvalidate(i) : Place(n) <= Place(m)
        /\ record' = [record EXCEPT ![n].status = "invalidated"]
        /\ next' = [next EXCEPT ![i] = Place(n) + 1]
    /\ UNCHANGED <<status, runs, mode, at, files, history>>

Invalidated(i) ==
    /\ at[i] = "invalidate" /\ ToInvalidate(i) = {}
    /\ Goes(i, "node") /\ next' = [next EXCEPT ![i] = 1]
    /\ UNCHANGED <<status, record, files, history>>

AtNode(i, n) == next[i] = Place(n)
Passed(n) == IF n = "song_plan_builder" THEN "plan" ELSE "node"

\* read_required_output of a node that is not run again ...
Reuse(i, n) ==
    /\ at[i] = "node" /\ AtNode(i, n)
    /\ n \notin Affected(i) /\ Finished(n)
    /\ Goes(i, Passed(n)) /\ next' = [next EXCEPT ![i] = @ + 1]
    /\ UNCHANGED <<status, record, files, history>>

Stops(i, s) ==
    /\ status' = s
    /\ at' = [at EXCEPT ![i] = "idle"] /\ mode' = [mode EXCEPT ![i] = "all"] /\ next' = [next EXCEPT ![i] = 1]
    /\ UNCHANGED <<runs, history>>

\* ... and which has no finished output.
Missing(i, n) ==
    /\ at[i] = "node" /\ AtNode(i, n)
    /\ n \notin Affected(i) /\ ~Finished(n)
    /\ Stops(i, "failed")
    /\ UNCHANGED <<record, files>>

\* _run_node writes the record without an output before it produces one ...
Begin(i, n) ==
    /\ at[i] = "node" /\ AtNode(i, n) /\ n \in Affected(i)
    /\ record' = [record EXCEPT ![n] = [status |-> "running", made |-> 0, from |-> <<>>]]
    /\ Goes(i, "producing")
    /\ UNCHANGED <<status, next, files, history>>

\* ... from the values that the run holds: those of the records, which it has
\* read or written.  The last node leaves nothing of an earlier run behind, when
\* this one ran them all by itself.
Produce(i, n) ==
    /\ at[i] = "producing" /\ AtNode(i, n)
    /\ record' = [record EXCEPT ![n] =
                    [status |-> "finished", made |-> Maker(i),
                     from |-> IF crossed THEN <<>> ELSE [m \in Inputs[n] |-> record[m].made]]]
    /\ Goes(i, Passed(n)) /\ next' = [next EXCEPT ![i] = @ + 1]
    /\ mixed' = (mixed /\ ~(Passed(n) = "plan" /\ Affected(i) = Node /\ ~crossed))
    /\ UNCHANGED <<status, files, crossed>>

\* Producing the output raises.
NodeFails(i, n) ==
    /\ at[i] = "producing" /\ AtNode(i, n)
    /\ record' = [record EXCEPT ![n].status = "failed"]
    /\ Stops(i, "failed")
    /\ UNCHANGED files

\* Mutant of WritePlan: a node retry leaves the plan as it is.
WritePlanOnce(i) ==
    /\ at[i] = "plan"
    /\ plan' = IF mode[i] = "all" THEN Maker(i) ELSE plan
    /\ Goes(i, IF mode[i] = "all" THEN "validate" ELSE "render")
    /\ UNCHANGED <<status, next, record, midi, report, history>>

\* The plan that the last node returned is checked and written.
WritePlan(i) ==
    /\ at[i] = "plan"
    /\ plan' = Maker(i)
    /\ Goes(i, IF mode[i] = "all" THEN "validate" ELSE "render")
    /\ UNCHANGED <<status, next, record, midi, report, history>>

\* The step validate_song_plan reads the file.
Validate(i) ==
    /\ at[i] = "validate"
    /\ Goes(i, "render")
    /\ UNCHANGED <<status, next, record, files, history>>

\* render_midi writes the file in place.
OpenMidi(i) ==
    /\ at[i] = "render"
    /\ midi' = [of |-> plan, whole |-> FALSE]
    /\ Goes(i, "rendering")
    /\ UNCHANGED <<status, next, record, plan, report, history>>

CloseMidi(i) ==
    /\ at[i] = "rendering"
    /\ midi' = [midi EXCEPT !.whole = TRUE]
    /\ Goes(i, "report")
    /\ UNCHANGED <<status, next, record, plan, report, history>>

WriteReport(i) ==
    /\ at[i] = "report"
    /\ report' = plan
    /\ Goes(i, "finish")
    /\ UNCHANGED <<status, next, record, plan, midi, history>>

\* The status is not looked at: the job may be marked stalled, or be another run's.
Complete(i) ==
    /\ at[i] = "finish"
    /\ Stops(i, "completed")
    /\ UNCHANGED <<record, files>>

\* Something raises outside the producer of a node, early on outside the try
\* statement of the thread, so that the job stays as it is shown.
Raise(i) ==
    /\ at[i] # "idle"
    /\ \/ Stops(i, "failed")
       \/ at[i] \in {"normalize", "invalidate"} /\ next[i] = 1 /\ Stops(i, status)
    /\ UNCHANGED <<record, files>>

\* The control callback is called before and after each node and each step of
\* the job, and _run_job looks once more after the last step.
ControlPoint(i) ==
    \/ at[i] \in {"node", "plan"}
    \/ mode[i] = "all" /\ at[i] \in {"normalize", "validate", "render", "report"}

Cancel(i) ==
    /\ ControlPoint(i)
    /\ Stops(i, "cancelled")
    /\ UNCHANGED <<record, files>>

\* A step that brings the run forward.
RunStep(i) ==
    \/ Normalize(i) \/ Invalidate(i) \/ Invalidated(i)
    \/ \E n \in Node : Reuse(i, n) \/ Missing(i, n) \/ Begin(i, n) \/ Produce(i, n)
    \/ WritePlan(i) \/ Validate(i) \/ OpenMidi(i) \/ CloseMidi(i) \/ WriteReport(i) \/ Complete(i)

Next ==
    \/ RunAll \/ \E n \in Retried : RetryNode(n)
    \/ Stall \/ Interrupt
    \/ \E i \in Run : RunStep(i) \/ (\E n \in Node : NodeFails(i, n)) \/ Raise(i) \/ Cancel(i)

Spec == Init /\ [][Next]_vars

-----------------------------------------------------------------------------
(* Properties                                                               *)

Agrees(n) == record[n].from = [m \in Inputs[n] |-> record[m].made]

\* A node that counts as finished was made from the outputs that are recorded
\* now, at every moment and after any sequence of failed, stalled and interrupted
\* retries; node retries reuse it and need not look.  The exceptions are runs
\* that were at work at the same time, as the thread of a stalled job and that
\* of its retry, and runs of all nodes over old records, which they do not
\* invalidate; both until a run of all nodes has gone through them by itself.
FinishedAgree == ~mixed => \A n \in Node : Finished(n) => Agrees(n)

\* A job that is shown as completed has a plan that is the last node's output,
\* a whole MIDI file of this plan and a report on it, and no node it has
\* outdated or lost, unless runs crossed since the directory was last at rest.
CompletedIsWhole ==
    status = "completed" /\ ~crossed =>
        /\ \A n \in Node : Finished(n)
        /\ plan = record["song_plan_builder"].made
        /\ midi = [of |-> plan, whole |-> TRUE]
        /\ report = plan

\* The same, and every variable has its type.
DirectoryIsSound == TypeOK /\ CompletedIsWhole
=============================================================================
