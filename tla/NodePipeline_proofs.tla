------------------------- MODULE NodePipeline_proofs -------------------------
(* Theorems about NodePipeline: outputs that are recorded as finished fit    *)
(* together, for any number of runs.                                        *)
EXTENDS NodePipeline, TLAPS

-----------------------------------------------------------------------------
(* The graph                                                                *)

LEMMA Nodes ==
    Node = {"brief_planner", "style_planner", "structure_planner", "lyric_planner",
            "harmony_planner", "melody_planner", "arrangement_planner", "critic", "repair",
            "song_plan_builder"}
<1>1. DOMAIN PIPELINE_NODE_ORDER = 1 .. 10
  BY DEF PIPELINE_NODE_ORDER
<1>2. DOMAIN PIPELINE_NODE_ORDER = {1, 2, 3, 4, 5, 6, 7, 8, 9, 10}
  BY <1>1
<1> QED
  BY <1>2 DEF Node, PIPELINE_NODE_ORDER

\* A node is named by its place.
LEMMA Places ==
    /\ Place("brief_planner") = 1 /\ Place("style_planner") = 2 /\ Place("structure_planner") = 3
    /\ Place("lyric_planner") = 4 /\ Place("harmony_planner") = 5 /\ Place("melody_planner") = 6
    /\ Place("arrangement_planner") = 7 /\ Place("critic") = 8 /\ Place("repair") = 9
    /\ Place("song_plan_builder") = 10
<1>1. DOMAIN PIPELINE_NODE_ORDER = {1, 2, 3, 4, 5, 6, 7, 8, 9, 10}
  BY DEF PIPELINE_NODE_ORDER
<1>2. /\ PIPELINE_NODE_ORDER[1] = "brief_planner" /\ PIPELINE_NODE_ORDER[2] = "style_planner"
      /\ PIPELINE_NODE_ORDER[3] = "structure_planner" /\ PIPELINE_NODE_ORDER[4] = "lyric_planner"
      /\ PIPELINE_NODE_ORDER[5] = "harmony_planner" /\ PIPELINE_NODE_ORDER[6] = "melody_planner"
      /\ PIPELINE_NODE_ORDER[7] = "arrangement_planner" /\ PIPELINE_NODE_ORDER[8] = "critic"
      /\ PIPELINE_NODE_ORDER[9] = "repair" /\ PIPELINE_NODE_ORDER[10] = "song_plan_builder"
  BY DEF PIPELINE_NODE_ORDER
<1>3. ASSUME NEW i \in DOMAIN PIPELINE_NODE_ORDER, NEW j \in DOMAIN PIPELINE_NODE_ORDER,
             PIPELINE_NODE_ORDER[i] = PIPELINE_NODE_ORDER[j]
      PROVE  i = j
  BY <1>1, <1>2, <1>3
<1>4. ASSUME NEW i \in DOMAIN PIPELINE_NODE_ORDER PROVE Place(PIPELINE_NODE_ORDER[i]) = i
  BY <1>3 DEF Place
<1> QED
  BY <1>1, <1>2, <1>4

LEMMA PlaceType ==
    /\ \A n \in Node : Place(n) \in 1 .. 10
    /\ \A m, n \in Node : Place(m) = Place(n) => m = n
BY Nodes, Places

\* A node is produced after what goes into it.
LEMMA InputsBefore ==
    \A k \in Node : \A n \in Inputs[k] : n \in Node /\ Place(n) < Place(k)
<1> SUFFICES ASSUME NEW k \in Node, NEW n \in Inputs[k] PROVE n \in Node /\ Place(n) < Place(k)
  OBVIOUS
<1> QED
  BY Nodes, Places DEF Inputs, Draft

LEMMA DependenciesAre ==
    /\ NODE_DEPENDENCIES["brief_planner"] = {}
    /\ NODE_DEPENDENCIES["style_planner"] = {"brief_planner"}
    /\ NODE_DEPENDENCIES["structure_planner"] = {"brief_planner", "style_planner"}
    /\ NODE_DEPENDENCIES["lyric_planner"] = {"brief_planner", "structure_planner"}
    /\ NODE_DEPENDENCIES["harmony_planner"] = {"brief_planner", "structure_planner"}
    /\ NODE_DEPENDENCIES["melody_planner"] = {"style_planner", "structure_planner"}
    /\ NODE_DEPENDENCIES["arrangement_planner"] =
         {"style_planner", "structure_planner", "harmony_planner", "melody_planner"}
    /\ NODE_DEPENDENCIES["critic"] = {"arrangement_planner", "harmony_planner", "lyric_planner"}
    /\ NODE_DEPENDENCIES["repair"] = {"critic"}
    /\ NODE_DEPENDENCIES["song_plan_builder"] = {"repair"}
BY DEF NODE_DEPENDENCIES

\* All that a node depends on, by what the recursive definition says of it.
Above(f, n) == NODE_DEPENDENCIES[n] \cup UNION {f[m] : m \in NODE_DEPENDENCIES[n]}
IsClosure(f) == f = [n \in Node |-> Above(f, n)]

Form == {"brief_planner", "style_planner", "structure_planner"}
Composed == Form \cup {"lyric_planner", "harmony_planner", "melody_planner", "arrangement_planner"}

\* There is one such function ...
LEMMA ClosureValues ==
    ASSUME NEW f, IsClosure(f)
    PROVE
    /\ f["brief_planner"] = {}
    /\ f["style_planner"] = {"brief_planner"}
    /\ f["structure_planner"] = {"brief_planner", "style_planner"}
    /\ f["lyric_planner"] = Form
    /\ f["harmony_planner"] = Form
    /\ f["melody_planner"] = Form
    /\ f["arrangement_planner"] = Form \cup {"harmony_planner", "melody_planner"}
    /\ f["critic"] = Composed
    /\ f["repair"] = Composed \cup {"critic"}
    /\ f["song_plan_builder"] = Composed \cup {"critic", "repair"}
<1>0. ASSUME NEW n \in Node, NEW x
      PROVE  x \in f[n] <=> x \in NODE_DEPENDENCIES[n] \/ \E m \in NODE_DEPENDENCIES[n] : x \in f[m]
  <2>1. f = [k \in Node |-> Above(f, k)]
    BY DEF IsClosure
  <2>2. f[n] = Above(f, n)
    BY <2>1
  <2> QED
    BY <2>2 DEF Above
<1>1. f["brief_planner"] = {}
  BY <1>0, DependenciesAre, Nodes DEF Form, Composed
<1>2. f["style_planner"] = {"brief_planner"}
  BY <1>0, DependenciesAre, Nodes, <1>1 DEF Form, Composed
<1>3. f["structure_planner"] = {"brief_planner", "style_planner"}
  BY <1>0, DependenciesAre, Nodes, <1>1, <1>2 DEF Form, Composed
<1>4. f["lyric_planner"] = Form
  BY <1>0, DependenciesAre, Nodes, <1>1, <1>3 DEF Form, Composed
<1>5. f["harmony_planner"] = Form
  BY <1>0, DependenciesAre, Nodes, <1>1, <1>3 DEF Form, Composed
<1>6. f["melody_planner"] = Form
  BY <1>0, DependenciesAre, Nodes, <1>2, <1>3 DEF Form, Composed
<1>7. f["arrangement_planner"] = Form \cup {"harmony_planner", "melody_planner"}
  BY <1>0, DependenciesAre, Nodes, <1>2, <1>3, <1>5, <1>6 DEF Form, Composed
<1>8. f["critic"] = Composed
  BY <1>0, DependenciesAre, Nodes, <1>7, <1>5, <1>4 DEF Form, Composed
<1>9. f["repair"] = Composed \cup {"critic"}
  BY <1>0, DependenciesAre, Nodes, <1>8 DEF Form, Composed
<1>10. f["song_plan_builder"] = Composed \cup {"critic", "repair"}
  BY <1>0, DependenciesAre, Nodes, <1>9 DEF Form, Composed
<1> QED
  BY <1>1, <1>2, <1>3, <1>4, <1>5, <1>6, <1>7, <1>8, <1>9, <1>10

\* ... and so the recursive definition is it.
LEMMA AncestorsIsClosure == IsClosure(Ancestors)
<1> DEFINE W == [n \in Node |->
                   CASE n \in {"lyric_planner", "harmony_planner", "melody_planner"} -> Form
                     [] n = "style_planner" -> {"brief_planner"}
                     [] n = "structure_planner" -> {"brief_planner", "style_planner"}
                     [] n = "arrangement_planner" -> Form \cup {"harmony_planner", "melody_planner"}
                     [] n = "critic" -> Composed
                     [] n = "repair" -> Composed \cup {"critic"}
                     [] n = "song_plan_builder" -> Composed \cup {"critic", "repair"}
                     [] OTHER -> {}]
<1>1. /\ W["brief_planner"] = {} /\ W["style_planner"] = {"brief_planner"}
      /\ W["structure_planner"] = {"brief_planner", "style_planner"}
      /\ W["lyric_planner"] = Form /\ W["harmony_planner"] = Form /\ W["melody_planner"] = Form
      /\ W["arrangement_planner"] = Form \cup {"harmony_planner", "melody_planner"}
      /\ W["critic"] = Composed /\ W["repair"] = Composed \cup {"critic"}
      /\ W["song_plan_builder"] = Composed \cup {"critic", "repair"}
  BY Nodes
<1>2. W = [n \in Node |-> W[n]]
  OBVIOUS
<1> HIDE DEF W
<1>3. ASSUME NEW n \in Node PROVE W[n] = Above(W, n)
  <2>1. CASE n \in {"brief_planner", "style_planner", "structure_planner"}
    BY <2>1, <1>1, DependenciesAre DEF Above
  <2>2. CASE n \in {"lyric_planner", "harmony_planner", "melody_planner"}
    BY <2>2, <1>1, DependenciesAre DEF Above, Form
  <2>3. CASE n = "arrangement_planner"
    BY <2>3, <1>1, DependenciesAre DEF Above, Form
  <2>4. CASE n = "critic"
    BY <2>4, <1>1, DependenciesAre DEF Above, Form, Composed
  <2>5. CASE n \in {"repair", "song_plan_builder"}
    BY <2>5, <1>1, DependenciesAre DEF Above
  <2> QED
    BY <2>1, <2>2, <2>3, <2>4, <2>5, Nodes
<1>4. IsClosure(W)
  BY <1>2, <1>3 DEF IsClosure
<1>5. Ancestors = CHOOSE f : IsClosure(f)
  BY DEF Ancestors, IsClosure, Above
<1> QED
  BY <1>4, <1>5

\* Inputs are ancestors, and ancestors of ancestors are ancestors.
LEMMA InputsAbove ==
    \A k \in Node : \A n \in Inputs[k] : n \in Ancestors[k] /\ Ancestors[n] \subseteq Ancestors[k]
<1> SUFFICES ASSUME NEW k \in Node, NEW n \in Inputs[k]
             PROVE  n \in Ancestors[k] /\ Ancestors[n] \subseteq Ancestors[k]
  OBVIOUS
<1>1. CASE k \in {"brief_planner", "style_planner", "structure_planner", "lyric_planner",
                  "harmony_planner", "melody_planner"}
  BY <1>1, ClosureValues, AncestorsIsClosure DEF Inputs, Form
<1>2. CASE k = "arrangement_planner"
  BY <1>2, ClosureValues, AncestorsIsClosure DEF Inputs, Form
<1>3. CASE k \in {"critic", "repair", "song_plan_builder"}
  BY <1>3, ClosureValues, AncestorsIsClosure DEF Inputs, Draft, Form, Composed
<1> QED
  BY <1>1, <1>2, <1>3, Nodes

\* What is made from an output that is produced again is produced again, too.
LEMMA AffectedClosed ==
    \A i \in Run : \A k \in Node : \A n \in Inputs[k] : n \in Affected(i) => k \in Affected(i)
<1> SUFFICES ASSUME NEW i \in Run, NEW k \in Node, NEW n \in Inputs[k], n \in Affected(i)
             PROVE  k \in Affected(i)
  OBVIOUS
<1> QED
  BY InputsAbove DEF Affected, affected_nodes_for_retry, downstream_nodes

LEMMA AffectedNodes == \A i \in Run : mode[i] \in Node \cup {"all"} => Affected(i) \subseteq Node
BY DEF Affected, affected_nodes_for_retry, downstream_nodes

-----------------------------------------------------------------------------
(* Threads                                                                  *)

Statuses == {"none", "queued", "running", "completed", "failed", "cancelled", "stalled"}
After == {"plan", "validate", "render", "rendering", "report", "finish"}
Stations == {"idle", "normalize", "invalidate", "node", "producing"} \cup After

ThreadsFit ==
    /\ status \in Statuses /\ runs \in 0..MaxRuns
    /\ mode \in [Run -> Node \cup {"all"}] /\ at \in [Run -> Stations] /\ next \in [Run -> 1..11]
    /\ \A i \in Run : at[i] # "idle" => i <= runs
    /\ crossed \in BOOLEAN /\ mixed \in BOOLEAN

\* The steps of one run.
RunMoves(i) ==
    RunStep(i) \/ (\E n \in Node : NodeFails(i, n)) \/ Raise(i) \/ Cancel(i)

\* The other runs stay where they are.
OthersStay(i) ==
    \A j \in Run \ {i} : at'[j] = at[j] /\ next'[j] = next[j] /\ mode'[j] = mode[j]

LEMMA RunsAre == Run \subseteq Nat /\ MaxRuns \in Nat
BY PipelineAssumption DEF Run

\* Where a step that goes on leaves its run ...
LEMMA GoesTo ==
    ASSUME ThreadsFit, NEW i \in Run, NEW place \in Stations, Goes(i, place)
    PROVE  /\ at' \in [Run -> Stations] /\ at'[i] = place
           /\ \A j \in Run \ {i} : at'[j] = at[j]
           /\ UNCHANGED <<runs, mode>> /\ Affected(i)' = Affected(i)
BY DEF ThreadsFit, Goes, Affected

\* ... and one that ends it.
LEMMA StopsAt ==
    ASSUME ThreadsFit, NEW i \in Run, NEW s \in Statuses, Stops(i, s)
    PROVE  /\ status' = s /\ at'[i] = "idle" /\ OthersStay(i)
           /\ at' \in [Run -> Stations] /\ next' \in [Run -> 1..11]
           /\ mode' \in [Run -> Node \cup {"all"}]
           /\ UNCHANGED <<runs, crossed, mixed>>
BY DEF ThreadsFit, Stops, OthersStay, Stations, history

LEMMA MovesOn ==
    ASSUME ThreadsFit, NEW i \in Run, NEW k \in 1..11, next' = [next EXCEPT ![i] = k]
    PROVE  next' \in [Run -> 1..11] /\ next'[i] = k /\ \A j \in Run \ {i} : next'[j] = next[j]
BY DEF ThreadsFit

LEMMA NextPlace ==
    ASSUME ThreadsFit, NEW i \in Run, NEW n \in Node, AtNode(i, n), next' = [next EXCEPT ![i] = @ + 1]
    PROVE  /\ next[i] = Place(n) /\ next'[i] = Place(n) + 1 /\ next' \in [Run -> 1..11]
           /\ \A j \in Run \ {i} : next'[j] = next[j]
<1>1. next[i] = Place(n) /\ Place(n) \in 1..10
  BY PlaceType DEF AtNode
<1>2. Place(n) + 1 \in 1..11
  BY <1>1
<1>3. next' = [next EXCEPT ![i] = Place(n) + 1]
  BY <1>1
<1> QED
  BY <1>1, <1>2, <1>3, MovesOn

\* What all steps of a run have in common.
LEMMA Moves ==
    ASSUME ThreadsFit, NEW i \in Run, RunMoves(i)
    PROVE  /\ ThreadsFit' /\ at[i] # "idle" /\ OthersStay(i)
           /\ runs' = runs /\ crossed' = crossed
<1> DEFINE Common == /\ at[i] # "idle" /\ OthersStay(i) /\ status' \in Statuses
                     /\ at' \in [Run -> Stations] /\ next' \in [Run -> 1..11]
                     /\ mode' \in [Run -> Node \cup {"all"}]
                     /\ runs' = runs /\ crossed' = crossed /\ mixed' \in BOOLEAN
<1>0. /\ status \in Statuses /\ at \in [Run -> Stations] /\ next \in [Run -> 1..11]
      /\ mode \in [Run -> Node \cup {"all"}] /\ mixed \in BOOLEAN
  BY DEF ThreadsFit
<1>1. ASSUME NEW place \in Stations, Goes(i, place), at[i] # "idle", status' \in Statuses,
             next' \in [Run -> 1..11], \A j \in Run \ {i} : next'[j] = next[j],
             crossed' = crossed, mixed' \in BOOLEAN
      PROVE  Common
  BY <1>0, <1>1, GoesTo DEF OthersStay
<1>2. ASSUME NEW s \in Statuses, Stops(i, s), at[i] # "idle" PROVE Common
  BY <1>0, <1>2, StopsAt
<1>3. ASSUME Normalize(i) \/ WritePlan(i) \/ Validate(i) \/ OpenMidi(i) \/ CloseMidi(i) \/ WriteReport(i)
      PROVE  Common
  <2>1. PICK place \in Stations : Goes(i, place)
    BY <1>3 DEF Normalize, WritePlan, Validate, OpenMidi, CloseMidi, WriteReport, Stations, After
  <2>2. at[i] # "idle" /\ status' \in Statuses /\ next' = next /\ crossed' = crossed /\ mixed' = mixed
    BY <1>0, <1>3
       DEF Normalize, WritePlan, Validate, OpenMidi, CloseMidi, WriteReport, history, Statuses
  <2> QED
    BY <1>0, <1>1, <2>1, <2>2
<1>4. ASSUME Invalidate(i) PROVE Common
  <2>1. PICK n \in ToInvalidate(i) : next' = [next EXCEPT ![i] = Place(n) + 1]
    BY <1>4 DEF Invalidate
  <2>2. n \in Node
    BY <1>0, <2>1, AffectedNodes DEF ToInvalidate
  <2>3. Place(n) + 1 \in 1..11
    BY <2>2, PlaceType
  <2>4. at[i] # "idle" /\ status' = status /\ at' = at /\ mode' = mode /\ runs' = runs
        /\ crossed' = crossed /\ mixed' = mixed
    BY <1>4 DEF Invalidate, history
  <2>5. next' \in [Run -> 1..11] /\ \A j \in Run \ {i} : next'[j] = next[j]
    BY <2>1, <2>3, MovesOn
  <2> QED
    BY <1>0, <2>4, <2>5 DEF OthersStay
<1>5. ASSUME Invalidated(i) PROVE Common
  <2>1. Goes(i, "node") /\ next' = [next EXCEPT ![i] = 1] /\ at[i] # "idle" /\ status' = status
        /\ crossed' = crossed /\ mixed' = mixed
    BY <1>5 DEF Invalidated, history
  <2>2. 1 \in 1..11 /\ "node" \in Stations
    BY DEF Stations
  <2>3. next' \in [Run -> 1..11] /\ \A j \in Run \ {i} : next'[j] = next[j]
    BY <2>1, <2>2, MovesOn
  <2> QED
    BY <1>0, <1>1, <2>1, <2>2, <2>3
<1>6. ASSUME NEW n \in Node, Reuse(i, n) \/ Produce(i, n) PROVE Common
  <2>1. /\ Goes(i, Passed(n)) /\ at[i] # "idle" /\ status' = status /\ crossed' = crossed
        /\ AtNode(i, n) /\ next' = [next EXCEPT ![i] = @ + 1]
    BY <1>6 DEF Reuse, Produce, history
  <2>2. mixed' \in BOOLEAN
    <3>1. CASE Reuse(i, n)
      BY <1>0, <3>1 DEF Reuse, history
    <3>2. CASE Produce(i, n)
      BY <1>0, <3>2, Zenon DEF Produce
    <3> QED
      BY <1>6, <3>1, <3>2
  <2>3. Passed(n) \in Stations
    BY DEF Passed, Stations, After
  <2> QED
    BY <1>0, <1>1, <2>1, <2>2, <2>3, NextPlace
<1>7. ASSUME NEW n \in Node, Begin(i, n) PROVE Common
  <2>1. /\ Goes(i, "producing") /\ at[i] # "idle" /\ status' = status /\ crossed' = crossed
        /\ next' = next /\ mixed' = mixed
    BY <1>7 DEF Begin, history
  <2>2. "producing" \in Stations
    BY DEF Stations
  <2> QED
    BY <1>0, <1>1, <2>1, <2>2
<1>8. ASSUME (\E n \in Node : Missing(i, n) \/ NodeFails(i, n)) \/ Complete(i) \/ Raise(i) \/ Cancel(i)
      PROVE  Common
  <2>1. PICK s \in Statuses : at[i] # "idle" /\ Stops(i, s)
    BY <1>0, <1>8
       DEF Missing, NodeFails, Complete, Raise, Cancel, ControlPoint, Statuses
  <2> QED
    BY <1>2, <2>1
<1>9. Common
  BY <1>3, <1>4, <1>5, <1>6, <1>7, <1>8 DEF RunMoves, RunStep
<1>10. \A j \in Run : at'[j] # "idle" => at[j] # "idle"
  BY <1>9 DEF OthersStay
<1> QED
  BY <1>9, <1>10 DEF ThreadsFit

\* A new run.
LEMMA Starts ==
    ASSUME ThreadsFit, NEW m \in Node \cup {"all"}, NEW place \in {"normalize", "invalidate"},
           NEW s \in {"queued", "running"}, Start(m, place, s)
    PROVE  /\ runs' = runs + 1 /\ runs' \in Run /\ runs' \in 0..MaxRuns /\ status' = s
           /\ mode' \in [Run -> Node \cup {"all"}] /\ at' \in [Run -> Stations] /\ next' \in [Run -> 1..11]
           /\ at'[runs'] = place /\ next'[runs'] = 1
           /\ \A j \in Run \ {runs'} : at'[j] = at[j]
           /\ crossed' = (Busy # {}) /\ record' = record /\ UNCHANGED files
<1>1. runs' = runs + 1 /\ runs \in 0..MaxRuns /\ runs < MaxRuns
  BY DEF Start, ThreadsFit
<1>2. runs' \in Run /\ runs' \in 0..MaxRuns
  BY <1>1, RunsAre DEF Run
<1>3. /\ mode \in [Run -> Node \cup {"all"}] /\ at \in [Run -> Stations] /\ next \in [Run -> 1..11]
      /\ place \in Stations /\ 1 \in 1..11
  BY DEF ThreadsFit, Stations
<1>4. /\ mode' = [mode EXCEPT ![runs'] = m] /\ at' = [at EXCEPT ![runs'] = place]
      /\ next' = [next EXCEPT ![runs'] = 1]
      /\ status' = s /\ crossed' = (Busy # {}) /\ record' = record /\ UNCHANGED files
  BY DEF Start
<1> QED
  BY <1>1, <1>2, <1>3, <1>4

LEMMA StepThreads == ThreadsFit /\ [Next]_vars => ThreadsFit'
<1> SUFFICES ASSUME ThreadsFit, [Next]_vars PROVE ThreadsFit'
  OBVIOUS
<1>1. ASSUME NEW m \in Node \cup {"all"}, NEW place \in {"normalize", "invalidate"},
             NEW s \in {"queued", "running"}, Start(m, place, s), mixed' \in BOOLEAN
      PROVE  ThreadsFit'
  <2>1. \A j \in Run : at'[j] # "idle" => j <= runs'
    <3> SUFFICES ASSUME NEW j \in Run, at'[j] # "idle", j # runs' PROVE j <= runs'
      BY <1>1, Starts, RunsAre
    <3>1. j <= runs /\ runs' = runs + 1 /\ runs \in Nat
      BY <1>1, Starts, RunsAre DEF ThreadsFit
    <3> QED
      BY <3>1, RunsAre
  <2>2. crossed' \in BOOLEAN
    BY <1>1, Starts
  <2>3. status' \in Statuses
    BY <1>1, Starts DEF Statuses
  <2> QED
    BY <1>1, <2>1, <2>2, <2>3, Starts DEF ThreadsFit
<1>2. CASE RunAll
  <2>1. Start("all", "normalize", "queued") /\ mixed' \in BOOLEAN
    BY <1>2, Zenon DEF RunAll
  <2> QED
    BY <1>1, <2>1
<1>3. ASSUME NEW n \in Retried, RetryNode(n) PROVE ThreadsFit'
  <2>1. Start(n, "invalidate", "running") /\ mixed' \in BOOLEAN /\ n \in Node
    BY <1>3, PipelineAssumption, Zenon DEF RetryNode
  <2> QED
    BY <1>1, <2>1
<1>4. CASE Stall
  BY <1>4 DEF Stall, ThreadsFit, threads, history, Statuses
<1>5. CASE Interrupt
  BY <1>5 DEF Interrupt, ThreadsFit, history, Statuses, Stations
<1>6. ASSUME NEW i \in Run, RunMoves(i) PROVE ThreadsFit'
  BY <1>6, Moves
<1>7. CASE UNCHANGED vars
  BY <1>7 DEF vars, threads, history, ThreadsFit
<1> QED
  BY <1>2, <1>3, <1>4, <1>5, <1>6, <1>7 DEF Next, RunMoves

-----------------------------------------------------------------------------
(* The invariant                                                            *)

\* A record has its fields; what an output was made from is a function.
From == UNION {[S -> Nat] : S \in SUBSET Node}
RecordType ==
    [status : {"none", "running", "finished", "failed", "invalidated"}, made : Nat, from : From]

PipelineType == ThreadsFit /\ record \in [Node -> RecordType]

Working(i) == at[i] \in {"node", "producing"}

\* Only affected nodes are produced.
AffectedProduced(i) == at[i] = "producing" => \A n \in Node : AtNode(i, n) => n \in Affected(i)

\* A run of all nodes that is not known to be over old records begins with none.
FreshStart(i) == at[i] = "normalize" => next[i] = 1 /\ (~mixed => \A n \in Node : ~Finished(n))

\* Invalidation goes through the affected nodes in their order ...
InvalidatedBefore(i) ==
    at[i] = "invalidate" => \A m \in Node : m \in Affected(i) /\ Place(m) < next[i] => ~Finished(m)

\* ... so that no node ahead of the run is finished, which what it has still to
\* produce could outdate.
NoneAhead(i) ==
    Working(i) /\ ~mixed => \A m \in Node : m \in Affected(i) /\ Place(m) >= next[i] => ~Finished(m)

\* A run that produces all nodes has brought those behind it together.
AgreeBehind(i) ==
    Working(i) /\ Affected(i) = Node => \A m \in Node : Place(m) < next[i] => Agrees(m)

OneRun(i) ==
    /\ AffectedProduced(i) /\ FreshStart(i) /\ InvalidatedBefore(i)
    /\ NoneAhead(i) /\ AgreeBehind(i)

\* As long as runs do not cross, one at most is at work.
OneAtWork == \A i, j \in Run : at[i] # "idle" /\ at[j] # "idle" => i = j

PipelineInvariant ==
    /\ PipelineType /\ FinishedAgree
    /\ crossed => mixed
    /\ ~crossed => OneAtWork /\ \A i \in Run : OneRun(i)

LEMMA IdleRun == \A i \in Run : at[i] = "idle" => OneRun(i)
BY DEF OneRun, AffectedProduced, FreshStart, InvalidatedBefore, NoneAhead, AgreeBehind, Working

LEMMA EmptyFrom == <<>> \in From
<1>1. <<>> \in [{} -> Nat] /\ {} \in SUBSET Node
  OBVIOUS
<1> QED
  BY <1>1 DEF From

LEMMA InitInvariant == Init => PipelineInvariant
<1> SUFFICES ASSUME Init PROVE PipelineInvariant
  OBVIOUS
<1>1. record \in [Node -> RecordType] /\ \A n \in Node : ~Finished(n)
  <2>1. NoRecord \in RecordType
    BY EmptyFrom DEF NoRecord, RecordType
  <2> QED
    BY <2>1 DEF Init, Finished, NoRecord
<1>2. ThreadsFit
  <2>1. 0 \in 0..MaxRuns /\ 1 \in 1..11
    BY RunsAre
  <2> QED
    BY <2>1 DEF Init, ThreadsFit, Statuses, Stations
<1>3. \A i \in Run : at[i] = "idle"
  BY DEF Init
<1> QED
  BY <1>1, <1>2, <1>3, IdleRun DEF Init, PipelineInvariant, PipelineType, FinishedAgree, OneAtWork

\* A step that leaves the records alone.
LEMMA RecordsKept ==
    ASSUME PipelineInvariant, record' = record
    PROVE  /\ \A n \in Node : Finished(n)' = Finished(n)
           /\ \A n \in Node : Agrees(n)' = Agrees(n)
           /\ mixed' = mixed => FinishedAgree'
<1>1. FinishedAgree
  BY DEF PipelineInvariant
<1>2. \A n \in Node : Finished(n)' = Finished(n) /\ Agrees(n)' = Agrees(n)
  BY DEF Finished, Agrees
<1> QED
  BY <1>1, <1>2 DEF FinishedAgree

\* One record is written anew or changed; others stay as they are.
LEMMA OneRecord ==
    ASSUME record \in [Node -> RecordType], NEW n \in Node, NEW r \in RecordType,
           record' = [record EXCEPT ![n] = r]
    PROVE  /\ (record \in [Node -> RecordType])'
           /\ record'[n] = r
           /\ \A m \in Node \ {n} : record'[m] = record[m] /\ Finished(m)' = Finished(m)
           /\ \A m \in Node \ {n} : n \notin Inputs[m] => Agrees(m)' = Agrees(m)
           /\ r.made = record[n].made => \A m \in Node \ {n} : Agrees(m)' = Agrees(m)
<1>2. /\ record' \in [Node -> RecordType] /\ record'[n] = r
      /\ \A m \in Node \ {n} : record'[m] = record[m]
  OBVIOUS
<1>3. ASSUME NEW m \in Node \ {n}, n \notin Inputs[m] \/ r.made = record[n].made
      PROVE  Agrees(m)' = Agrees(m)
  <2>1. \A k \in Inputs[m] : k \in Node /\ record'[k].made = record[k].made
    BY <1>2, <1>3, InputsBefore
  <2>2. [k \in Inputs[m] |-> record'[k].made] = [k \in Inputs[m] |-> record[k].made]
    BY <2>1
  <2> QED
    BY <2>2, <1>2 DEF Agrees
<1> QED
  BY <1>2, <1>3 DEF Finished

LEMMA WithStatus ==
    ASSUME record \in [Node -> RecordType], NEW n \in Node, NEW s \in {"invalidated", "failed"},
           record' = [record EXCEPT ![n].status = s]
    PROVE  /\ record' \in [Node -> RecordType]
           /\ \A m \in Node : Finished(m)' => m # n /\ Finished(m)
           /\ \A m \in Node \ {n} : Finished(m)' = Finished(m) /\ Agrees(m)' = Agrees(m)
<1> DEFINE r == [record[n] EXCEPT !.status = s]
<1>1. /\ r \in RecordType /\ record' = [record EXCEPT ![n] = r] /\ r.made = record[n].made
      /\ r.status = s
  BY DEF RecordType
<1> HIDE DEF r
<1>2. /\ record' \in [Node -> RecordType] /\ record'[n] = r
      /\ \A m \in Node \ {n} : Finished(m)' = Finished(m) /\ Agrees(m)' = Agrees(m)
  BY <1>1, OneRecord
<1>3. ~Finished(n)'
  BY <1>1, <1>2 DEF Finished
<1> QED
  BY <1>2, <1>3

\* What a run at work by itself can count on ...
LEMMA AloneFacts ==
    ASSUME PipelineInvariant, ~crossed, NEW i \in Run
    PROVE  /\ ThreadsFit /\ record \in [Node -> RecordType] /\ FinishedAgree
           /\ AffectedProduced(i) /\ FreshStart(i) /\ InvalidatedBefore(i) /\ NoneAhead(i) /\ AgreeBehind(i)
           /\ Affected(i) \subseteq Node /\ next[i] \in 1..11
           /\ i \in Nat /\ \A m \in Node : Place(m) \in 1..10
<1>1. mode[i] \in Node \cup {"all"} /\ next[i] \in 1..11
  BY DEF PipelineInvariant, PipelineType, ThreadsFit
<1> QED
  BY <1>1, AffectedNodes, RunsAre, PlaceType DEF PipelineInvariant, PipelineType, OneRun

\* ... and has to keep.
Keeps(i) == FinishedAgree' /\ OneRun(i)'

\* A step that ends the run, or is one of the steps after its nodes.
LEMMA NodesDone ==
    ASSUME PipelineInvariant, record' = record, mixed' = mixed, NEW i \in Run,
           at'[i] \notin {"normalize", "invalidate", "node", "producing"}
    PROVE  Keeps(i)
BY RecordsKept
   DEF Keeps, OneRun, FreshStart, InvalidatedBefore, NoneAhead, AgreeBehind, AffectedProduced, Working

LEMMA KeepsNormalize ==
    ASSUME PipelineInvariant, ~crossed, NEW i \in Run, Normalize(i) PROVE Keeps(i)
<1>0. ThreadsFit /\ FreshStart(i) /\ \A m \in Node : Place(m) \in 1..10
  BY AloneFacts
<1>1. /\ record' = record /\ next' = next /\ mixed' = mixed /\ at[i] = "normalize"
      /\ Goes(i, "node") /\ "node" \in Stations
  BY DEF Normalize, history, Stations
<1>2. at'[i] = "node" /\ Affected(i)' = Affected(i)
  BY <1>0, <1>1, GoesTo
<1>3. next[i] = 1 /\ (~mixed => \A m \in Node : ~Finished(m))
  BY <1>0, <1>1 DEF FreshStart
<1>4. FinishedAgree' /\ \A m \in Node : Finished(m)' = Finished(m)
  BY <1>1, RecordsKept
<1>5. \A m \in Node : ~(Place(m) < 1)
  BY <1>0
<1> QED
  BY <1>1, <1>2, <1>3, <1>4, <1>5
     DEF Keeps, OneRun, AffectedProduced, FreshStart, InvalidatedBefore, NoneAhead, AgreeBehind, Working

LEMMA KeepsInvalidate ==
    ASSUME PipelineInvariant, ~crossed, NEW i \in Run, Invalidate(i) PROVE Keeps(i)
<1>0. /\ ThreadsFit /\ record \in [Node -> RecordType] /\ FinishedAgree
      /\ InvalidatedBefore(i) /\ Affected(i) \subseteq Node /\ next[i] \in 1..11
      /\ \A m \in Node : Place(m) \in 1..10
  BY AloneFacts
<1>1. PICK n \in ToInvalidate(i) :
        /\ \A m \in ToInvalidate(i) : Place(n) <= Place(m)
        /\ record' = [record EXCEPT ![n].status = "invalidated"]
        /\ next' = [next EXCEPT ![i] = Place(n) + 1]
  BY DEF Invalidate
<1>2. at[i] = "invalidate" /\ at' = at /\ mixed' = mixed /\ Affected(i)' = Affected(i)
  BY DEF Invalidate, Affected, history
<1>3. n \in Node /\ Place(n) + 1 \in 1..11
  BY <1>0, <1>1 DEF ToInvalidate
<1>4. next'[i] = Place(n) + 1
  BY <1>0, <1>1, <1>3, MovesOn
<1>5. /\ \A m \in Node : Finished(m)' => m # n /\ Finished(m)
      /\ \A m \in Node \ {n} : Finished(m)' = Finished(m) /\ Agrees(m)' = Agrees(m)
  BY <1>0, <1>1, <1>3, WithStatus
<1>6. FinishedAgree'
  BY <1>0, <1>2, <1>5 DEF FinishedAgree
<1>7. ASSUME NEW m \in Node, m \in Affected(i), Place(m) < Place(n) + 1 PROVE ~Finished(m)'
  <2>1. CASE m = n
    BY <2>1, <1>5
  <2>2. CASE m # n /\ m \in ToInvalidate(i)
    <3>1. Place(m) = Place(n)
      BY <2>2, <1>1, <1>3, <1>7, PlaceType
    <3> QED
      BY <3>1, <2>2, <1>3, PlaceType
  <2>3. CASE m # n /\ m \notin ToInvalidate(i)
    <3>1. ~Finished(m)
      BY <2>3, <1>0, <1>2, <1>7 DEF ToInvalidate, InvalidatedBefore, Finished
    <3> QED
      BY <3>1, <2>3, <1>5
  <2> QED
    BY <2>1, <2>2, <2>3
<1>8. InvalidatedBefore(i)'
  BY <1>2, <1>4, <1>7 DEF InvalidatedBefore
<1> QED
  BY <1>2, <1>6, <1>8
     DEF Keeps, OneRun, AffectedProduced, FreshStart, NoneAhead, AgreeBehind, Working

LEMMA KeepsInvalidated ==
    ASSUME PipelineInvariant, ~crossed, NEW i \in Run, Invalidated(i) PROVE Keeps(i)
<1>0. /\ ThreadsFit /\ InvalidatedBefore(i) /\ Affected(i) \subseteq Node /\ next[i] \in 1..11
      /\ \A m \in Node : Place(m) \in 1..10
  BY AloneFacts
<1>1. /\ record' = record /\ mixed' = mixed /\ at[i] = "invalidate" /\ ToInvalidate(i) = {}
      /\ Goes(i, "node") /\ next' = [next EXCEPT ![i] = 1] /\ "node" \in Stations /\ 1 \in 1..11
  BY DEF Invalidated, history, Stations
<1>2. at'[i] = "node" /\ Affected(i)' = Affected(i) /\ next'[i] = 1
  BY <1>0, <1>1, GoesTo, MovesOn
<1>3. FinishedAgree' /\ \A m \in Node : Finished(m)' = Finished(m)
  BY <1>1, RecordsKept
<1>4. \A m \in Node : m \in Affected(i) => ~Finished(m)
  BY <1>0, <1>1 DEF ToInvalidate, InvalidatedBefore, Finished
<1>5. \A m \in Node : ~(Place(m) < 1)
  BY <1>0
<1> QED
  BY <1>1, <1>2, <1>3, <1>4, <1>5
     DEF Keeps, OneRun, AffectedProduced, FreshStart, InvalidatedBefore, NoneAhead, AgreeBehind, Working

LEMMA KeepsReuse ==
    ASSUME PipelineInvariant, ~crossed, NEW i \in Run, NEW n \in Node, Reuse(i, n) PROVE Keeps(i)
<1>0. /\ ThreadsFit /\ NoneAhead(i) /\ AgreeBehind(i) /\ Affected(i) \subseteq Node
      /\ next[i] \in 1..11 /\ \A m \in Node : Place(m) \in 1..10
  BY AloneFacts
<1>1. /\ record' = record /\ mixed' = mixed /\ at[i] = "node" /\ n \notin Affected(i)
      /\ Goes(i, Passed(n)) /\ Passed(n) \in {"plan", "node"} /\ Passed(n) \in Stations
      /\ AtNode(i, n) /\ next' = [next EXCEPT ![i] = @ + 1]
  BY DEF Reuse, history, Passed, Stations, After
<1>2. at'[i] \in {"plan", "node"} /\ Affected(i)' = Affected(i)
  BY <1>0, <1>1, GoesTo
<1>3. next[i] = Place(n) /\ next'[i] = Place(n) + 1
  BY <1>0, <1>1, NextPlace
<1>4. FinishedAgree' /\ \A m \in Node : Finished(m)' = Finished(m)
  BY <1>1, RecordsKept
<1>5. NoneAhead(i)'
  BY <1>0, <1>1, <1>2, <1>3, <1>4 DEF NoneAhead, Working
<1>6. Affected(i) # Node
  BY <1>1
<1> QED
  BY <1>1, <1>2, <1>4, <1>5, <1>6
     DEF Keeps, OneRun, AffectedProduced, FreshStart, InvalidatedBefore, AgreeBehind

LEMMA KeepsBegin ==
    ASSUME PipelineInvariant, ~crossed, NEW i \in Run, NEW n \in Node, Begin(i, n) PROVE Keeps(i)
<1>0. /\ ThreadsFit /\ record \in [Node -> RecordType] /\ FinishedAgree
      /\ NoneAhead(i) /\ AgreeBehind(i) /\ next[i] \in 1..11 /\ \A m \in Node : Place(m) \in 1..10
  BY AloneFacts
<1> DEFINE r == [status |-> "running", made |-> 0, from |-> <<>>]
<1>1. /\ at[i] = "node" /\ mixed' = mixed /\ next' = next /\ next[i] = Place(n) /\ n \in Affected(i)
      /\ Goes(i, "producing") /\ "producing" \in Stations /\ record' = [record EXCEPT ![n] = r]
  BY DEF Begin, AtNode, history, Stations
<1>2. r \in RecordType /\ r.status = "running"
  BY EmptyFrom DEF RecordType
<1> HIDE DEF r
<1>3. at'[i] = "producing" /\ Affected(i)' = Affected(i)
  BY <1>0, <1>1, GoesTo
<1>4. /\ record'[n] = r
      /\ \A m \in Node \ {n} : Finished(m)' = Finished(m)
      /\ \A m \in Node \ {n} : n \notin Inputs[m] => Agrees(m)' = Agrees(m)
  BY <1>0, <1>1, <1>2, OneRecord
<1>5. ~Finished(n)'
  BY <1>2, <1>4 DEF Finished
<1>6. FinishedAgree'
  <2> SUFFICES ASSUME ~mixed, NEW m \in Node, Finished(m)' PROVE Agrees(m)'
    BY <1>1 DEF FinishedAgree
  <2>1. m # n /\ Finished(m)
    BY <1>4, <1>5
  <2>2. n \notin Inputs[m]
    <3> SUFFICES ASSUME n \in Inputs[m] PROVE FALSE
      OBVIOUS
    <3>1. m \in Affected(i) /\ Place(n) < Place(m)
      BY <1>1, AffectedClosed, InputsBefore
    <3> QED
      BY <3>1, <2>1, <1>0, <1>1 DEF NoneAhead, Working
  <2> QED
    BY <2>1, <2>2, <1>0, <1>4 DEF FinishedAgree
<1>7. NoneAhead(i)'
  BY <1>0, <1>1, <1>3, <1>4, <1>5 DEF NoneAhead, Working
<1>8. AgreeBehind(i)'
  <2> SUFFICES ASSUME Affected(i) = Node, NEW m \in Node, Place(m) < next[i] PROVE Agrees(m)'
    BY <1>1, <1>3 DEF AgreeBehind
  <2>1. m # n /\ n \notin Inputs[m]
    BY <1>0, <1>1, InputsBefore
  <2> QED
    BY <2>1, <1>0, <1>1, <1>4 DEF AgreeBehind, Working
<1>9. AffectedProduced(i)'
  BY <1>1, <1>3, PlaceType DEF AffectedProduced, AtNode
<1> QED
  BY <1>3, <1>6, <1>7, <1>8, <1>9 DEF Keeps, OneRun, FreshStart, InvalidatedBefore

LEMMA KeepsProduce ==
    ASSUME PipelineInvariant, ~crossed, NEW i \in Run, NEW n \in Node, Produce(i, n) PROVE Keeps(i)
<1>0. /\ ThreadsFit /\ record \in [Node -> RecordType] /\ FinishedAgree /\ AffectedProduced(i)
      /\ NoneAhead(i) /\ AgreeBehind(i) /\ next[i] \in 1..11 /\ i \in Nat
      /\ Affected(i) \subseteq Node /\ \A m \in Node : Place(m) \in 1..10
  BY AloneFacts
<1> DEFINE r == [status |-> "finished", made |-> i, from |-> [m \in Inputs[n] |-> record[m].made]]
<1>1. /\ at[i] = "producing" /\ Goes(i, Passed(n)) /\ AtNode(i, n)
      /\ Passed(n) \in {"plan", "node"} /\ Passed(n) \in Stations
      /\ mixed' = (mixed /\ ~(Passed(n) = "plan" /\ Affected(i) = Node))
      /\ next' = [next EXCEPT ![i] = @ + 1] /\ record' = [record EXCEPT ![n] = r]
  BY DEF Produce, Maker, Passed, Stations, After
<1>2. r \in RecordType /\ r.from = [m \in Inputs[n] |-> record[m].made]
  <2>1. Inputs[n] \subseteq Node
    BY InputsBefore
  <2>2. \A m \in Inputs[n] : record[m].made \in Nat
    BY <2>1, <1>0 DEF RecordType
  <2>3. [m \in Inputs[n] |-> record[m].made] \in From
    BY <2>1, <2>2 DEF From
  <2> QED
    BY <2>3, <1>0 DEF RecordType
<1> HIDE DEF r
<1>3. at'[i] = Passed(n) /\ Affected(i)' = Affected(i)
  BY <1>0, <1>1, GoesTo
<1>4. next[i] = Place(n) /\ next'[i] = Place(n) + 1
  BY <1>0, <1>1, NextPlace
<1>5. n \in Affected(i)
  BY <1>0, <1>1 DEF AffectedProduced
<1>6. /\ record'[n] = r
      /\ \A m \in Node \ {n} : record'[m] = record[m] /\ Finished(m)' = Finished(m)
      /\ \A m \in Node \ {n} : n \notin Inputs[m] => Agrees(m)' = Agrees(m)
  BY <1>0, <1>1, <1>2, OneRecord
<1>7. Agrees(n)'
  <2>1. \A m \in Inputs[n] : record'[m].made = record[m].made
    BY <1>6, InputsBefore, PlaceType
  <2> QED
    BY <2>1, <1>2, <1>6 DEF Agrees
<1>8. Affected(i) = Node => \A m \in Node : Place(m) < Place(n) + 1 => Agrees(m)'
  <2> SUFFICES ASSUME Affected(i) = Node, NEW m \in Node, Place(m) < Place(n) + 1 PROVE Agrees(m)'
    OBVIOUS
  <2>1. CASE m = n
    BY <2>1, <1>7
  <2>2. CASE m # n
    <3>1. Place(m) < Place(n)
      BY <2>2, <1>0, PlaceType
    <3>2. n \notin Inputs[m]
      BY <3>1, <1>0, InputsBefore
    <3> QED
      BY <3>1, <3>2, <2>2, <1>0, <1>1, <1>4, <1>6 DEF AgreeBehind, Working
  <2> QED
    BY <2>1, <2>2
<1>9. FinishedAgree'
  <2>1. CASE ~mixed
    <3> SUFFICES ASSUME NEW m \in Node, Finished(m)' PROVE Agrees(m)'
      BY DEF FinishedAgree
    <3>1. CASE m = n
      BY <3>1, <1>7
    <3>2. CASE m # n
      <4>1. Finished(m) /\ (n \in Inputs[m] => m \in Affected(i) /\ Place(n) < Place(m))
        BY <3>2, <1>5, <1>6, AffectedClosed, InputsBefore
      <4>2. n \notin Inputs[m]
        BY <4>1, <2>1, <1>0, <1>1, <1>4 DEF NoneAhead, Working
      <4> QED
        BY <4>1, <4>2, <3>2, <2>1, <1>0, <1>6 DEF FinishedAgree
    <3> QED
      BY <3>1, <3>2
  <2>2. CASE mixed
    <3> SUFFICES ASSUME ~mixed', NEW m \in Node PROVE Agrees(m)'
      BY DEF FinishedAgree
    <3>1. n = "song_plan_builder" /\ Affected(i) = Node
      BY <2>2, <1>1 DEF Passed
    <3>2. Place(m) < Place(n) + 1
      BY <3>1, <1>0, Places
    <3> QED
      BY <3>1, <3>2, <1>8
  <2> QED
    BY <2>1, <2>2
<1>10. NoneAhead(i)'
  <2> SUFFICES ASSUME at'[i] = "node", ~mixed', NEW m \in Node, m \in Affected(i), Place(m) >= Place(n) + 1
               PROVE  ~Finished(m)'
    BY <1>1, <1>3, <1>4 DEF NoneAhead, Working
  <2>1. ~mixed
    BY <1>1, <1>3
  <2>2. Place(m) >= Place(n) /\ m # n
    BY <1>0
  <2> QED
    BY <2>1, <2>2, <1>0, <1>1, <1>4, <1>6 DEF NoneAhead, Working
<1>11. AgreeBehind(i)'
  BY <1>3, <1>4, <1>8 DEF AgreeBehind
<1> QED
  BY <1>1, <1>3, <1>9, <1>10, <1>11 DEF Keeps, OneRun, AffectedProduced, FreshStart, InvalidatedBefore

LEMMA KeepsNodeFails ==
    ASSUME PipelineInvariant, ~crossed, NEW i \in Run, NEW n \in Node, NodeFails(i, n) PROVE Keeps(i)
<1>0. ThreadsFit /\ record \in [Node -> RecordType] /\ FinishedAgree
  BY AloneFacts
<1>1. Stops(i, "failed") /\ "failed" \in Statuses /\ record' = [record EXCEPT ![n].status = "failed"]
  BY DEF NodeFails, Statuses
<1>2. at'[i] = "idle" /\ mixed' = mixed
  BY <1>0, <1>1, StopsAt
<1>3. /\ \A m \in Node : Finished(m)' => m # n /\ Finished(m)
      /\ \A m \in Node \ {n} : Finished(m)' = Finished(m) /\ Agrees(m)' = Agrees(m)
  BY <1>0, <1>1, WithStatus
<1>4. FinishedAgree'
  BY <1>0, <1>2, <1>3 DEF FinishedAgree
<1> QED
  BY <1>2, <1>4
     DEF Keeps, OneRun, AffectedProduced, FreshStart, InvalidatedBefore, NoneAhead, AgreeBehind, Working

LEMMA KeepsRun ==
    ASSUME PipelineInvariant, ~crossed, NEW i \in Run, RunMoves(i) PROVE Keeps(i)
<1>0. ThreadsFit
  BY AloneFacts
<1>1. ASSUME NEW n \in Node, Missing(i, n) PROVE Keeps(i)
  <2>1. Stops(i, "failed") /\ "failed" \in Statuses /\ record' = record
    BY <1>1 DEF Missing, Statuses
  <2>2. at'[i] = "idle" /\ mixed' = mixed
    BY <1>0, <2>1, StopsAt
  <2> QED
    BY <2>1, <2>2, NodesDone
<1>2. ASSUME WritePlan(i) \/ Validate(i) \/ OpenMidi(i) \/ CloseMidi(i) \/ WriteReport(i) PROVE Keeps(i)
  <2>1. PICK place \in After : Goes(i, place) /\ record' = record /\ mixed' = mixed
    BY <1>2 DEF WritePlan, Validate, OpenMidi, CloseMidi, WriteReport, After, history
  <2>2. at'[i] = place /\ place \notin {"normalize", "invalidate", "node", "producing"}
    BY <1>0, <2>1, GoesTo DEF After, Stations
  <2> QED
    BY <2>1, <2>2, NodesDone
<1>3. ASSUME Complete(i) \/ Raise(i) \/ Cancel(i) PROVE Keeps(i)
  <2>1. PICK s \in Statuses : Stops(i, s) /\ record' = record
    BY <1>0, <1>3 DEF Complete, Raise, Cancel, Statuses, ThreadsFit
  <2>2. at'[i] = "idle" /\ mixed' = mixed
    BY <1>0, <2>1, StopsAt
  <2> QED
    BY <2>1, <2>2, NodesDone
<1> QED
  BY <1>1, <1>2, <1>3, KeepsNormalize, KeepsInvalidate, KeepsInvalidated, KeepsReuse, KeepsBegin,
     KeepsProduce, KeepsNodeFails
     DEF RunMoves, RunStep

LEMMA StepRecordType ==
    PipelineType /\ [Next]_vars => (record \in [Node -> RecordType])'
<1> SUFFICES ASSUME PipelineType, [Next]_vars PROVE record' \in [Node -> RecordType]
  OBVIOUS
<1>0. record \in [Node -> RecordType] /\ ThreadsFit
  BY DEF PipelineType
<1>1. CASE UNCHANGED record
  BY <1>0, <1>1
<1>2. ASSUME NEW i \in Run, Invalidate(i) PROVE record' \in [Node -> RecordType]
  <2>1. Affected(i) \subseteq Node
    BY <1>0, AffectedNodes DEF ThreadsFit
  <2>2. PICK n \in ToInvalidate(i) : record' = [record EXCEPT ![n].status = "invalidated"]
    BY <1>2 DEF Invalidate
  <2>3. n \in Node
    BY <2>1 DEF ToInvalidate
  <2> QED
    BY <1>0, <2>2, <2>3, WithStatus
<1>3. ASSUME NEW i \in Run, NEW n \in Node, NodeFails(i, n) PROVE record' \in [Node -> RecordType]
  BY <1>0, <1>3, WithStatus DEF NodeFails
<1>4. ASSUME NEW i \in Run, NEW n \in Node, Begin(i, n) PROVE record' \in [Node -> RecordType]
  <2>1. [status |-> "running", made |-> 0, from |-> <<>>] \in RecordType
    BY EmptyFrom DEF RecordType
  <2> QED
    BY <1>0, <1>4, <2>1 DEF Begin
<1>5. ASSUME NEW i \in Run, NEW n \in Node, Produce(i, n) PROVE record' \in [Node -> RecordType]
  <2> DEFINE f == IF crossed THEN <<>> ELSE [m \in Inputs[n] |-> record[m].made]
  <2>1. Inputs[n] \subseteq Node /\ \A m \in Inputs[n] : record[m].made \in Nat
    BY <1>0, InputsBefore DEF RecordType
  <2>2. [m \in Inputs[n] |-> record[m].made] \in From
    BY <2>1 DEF From
  <2>3. f \in From
    BY <2>2, EmptyFrom
  <2>4. Maker(i) \in Nat
    BY RunsAre DEF Maker, Unclear
  <2>5. record' = [record EXCEPT ![n] = [status |-> "finished", made |-> Maker(i), from |-> f]]
    BY <1>5 DEF Produce
  <2> HIDE DEF f
  <2>6. [status |-> "finished", made |-> Maker(i), from |-> f] \in RecordType
    BY <2>3, <2>4 DEF RecordType
  <2> QED
    BY <1>0, <2>5, <2>6
<1>6. ASSUME RunAll \/ (\E n \in Retried : RetryNode(n)) \/ Stall \/ Interrupt \/ UNCHANGED vars
      PROVE  UNCHANGED record
  BY <1>6 DEF RunAll, RetryNode, Start, Stall, Interrupt, vars
<1>7. ASSUME NEW i \in Run,
             Normalize(i) \/ Invalidated(i) \/ WritePlan(i) \/ Validate(i) \/ OpenMidi(i) \/ CloseMidi(i)
               \/ WriteReport(i) \/ Complete(i) \/ Raise(i) \/ Cancel(i)
               \/ \E n \in Node : Reuse(i, n) \/ Missing(i, n)
      PROVE  UNCHANGED record
  BY <1>7 DEF Normalize, Invalidated, WritePlan, Validate, OpenMidi, CloseMidi, WriteReport, Complete,
              Raise, Cancel, Reuse, Missing
<1> QED
  BY <1>1, <1>2, <1>3, <1>4, <1>5, <1>6, <1>7 DEF Next, RunStep

LEMMA StepInvariant == PipelineInvariant /\ [Next]_vars => PipelineInvariant'
<1> SUFFICES ASSUME PipelineInvariant, [Next]_vars PROVE PipelineInvariant'
  OBVIOUS
<1>0. PipelineType /\ ThreadsFit /\ (crossed => mixed)
  BY DEF PipelineInvariant, PipelineType
<1>1. PipelineType'
  BY <1>0, StepThreads, StepRecordType DEF PipelineType
<1>2. ASSUME NEW i \in Run, RunMoves(i) PROVE PipelineInvariant'
  <2>1. at[i] # "idle" /\ OthersStay(i) /\ crossed' = crossed
    BY <1>0, <1>2, Moves
  <2>2. CASE crossed
    <3>1. mixed' = mixed
      <4>1. ASSUME NEW n \in Node, Produce(i, n) PROVE mixed' = mixed
        BY <1>0, <2>2, <4>1 DEF Produce
      <4>2. ASSUME NEW s, Stops(i, s) PROVE mixed' = mixed
        BY <4>2 DEF Stops, history
      <4> QED
        BY <1>2, <4>1, <4>2
           DEF RunMoves, RunStep, Normalize, Invalidate, Invalidated, Reuse, Missing, Begin, WritePlan,
               Validate, OpenMidi, CloseMidi, WriteReport, Complete, NodeFails, Raise, Cancel, history
    <3> QED
      BY <1>0, <1>1, <2>1, <2>2, <3>1 DEF PipelineInvariant, FinishedAgree
  <2>3. CASE ~crossed
    <3>1. Keeps(i)
      BY <1>2, <2>3, KeepsRun
    <3>2. \A j \in Run \ {i} : at'[j] = "idle"
      BY <2>1, <2>3 DEF PipelineInvariant, OneAtWork, OthersStay
    <3>3. \A j \in Run \ {i} : OneRun(j)'
      BY <3>2 DEF OneRun, AffectedProduced, FreshStart, InvalidatedBefore, NoneAhead, AgreeBehind, Working
    <3>4. OneAtWork'
      BY <3>2 DEF OneAtWork
    <3> QED
      BY <1>1, <2>1, <2>3, <3>1, <3>3, <3>4 DEF PipelineInvariant, Keeps
  <2> QED
    BY <2>2, <2>3
<1>3. ASSUME NEW m \in Node \cup {"all"}, NEW place \in {"normalize", "invalidate"},
             NEW s \in {"queued", "running"}, Start(m, place, s),
             Busy # {} => mixed', mixed => mixed',
             place = "normalize" /\ ~mixed' => \A n \in Node : ~Finished(n)
      PROVE  PipelineInvariant'
  <2>1. /\ runs' \in Run /\ at'[runs'] = place /\ next'[runs'] = 1 /\ record' = record
        /\ \A j \in Run \ {runs'} : at'[j] = at[j]
        /\ crossed' = (Busy # {})
    BY <1>0, <1>3, Starts
  <2>2. \A n \in Node : Finished(n)' = Finished(n) /\ Agrees(n)' = Agrees(n)
    BY <2>1, RecordsKept
  <2>3. FinishedAgree'
    BY <1>3, <2>2 DEF PipelineInvariant, FinishedAgree
  <2>4. CASE Busy # {}
    BY <1>1, <1>3, <2>1, <2>3, <2>4 DEF PipelineInvariant
  <2>5. CASE Busy = {}
    <3>1. \A j \in Run \ {runs'} : at'[j] = "idle"
      BY <2>1, <2>5 DEF Busy
    <3>2. \A j \in Run \ {runs'} : OneRun(j)'
      BY <3>1 DEF OneRun, AffectedProduced, FreshStart, InvalidatedBefore, NoneAhead, AgreeBehind, Working
    <3>3. OneRun(runs)'
      <4>1. \A n \in Node : ~(Place(n) < 1)
        BY PlaceType
      <4> QED
        BY <1>3, <2>1, <2>2, <4>1
           DEF OneRun, AffectedProduced, FreshStart, InvalidatedBefore, NoneAhead, AgreeBehind, Working
    <3>4. OneAtWork'
      BY <3>1 DEF OneAtWork
    <3> QED
      BY <1>1, <2>1, <2>3, <2>5, <3>2, <3>3, <3>4 DEF PipelineInvariant
  <2> QED
    BY <2>4, <2>5
<1>4. CASE RunAll
  <2>1. /\ Start("all", "normalize", "queued")
        /\ Busy # {} => mixed'
        /\ mixed => mixed'
        /\ ~mixed' => \A n \in Node : ~Finished(n)
    BY <1>4, Zenon DEF RunAll
  <2> QED
    BY <1>3, <2>1
<1>5. ASSUME NEW n \in Retried, RetryNode(n) PROVE PipelineInvariant'
  <2>1. n \in Node /\ Start(n, "invalidate", "running") /\ (Busy # {} => mixed') /\ (mixed => mixed')
    BY <1>5, PipelineAssumption, Zenon DEF RetryNode
  <2> QED
    BY <1>3, <2>1
<1>6. CASE Interrupt
  <2>1. record' = record /\ crossed' = crossed /\ mixed' = mixed /\ \A i \in Run : at'[i] = "idle"
    BY <1>6 DEF Interrupt, history
  <2>2. \A i \in Run : OneRun(i)'
    BY <2>1 DEF OneRun, AffectedProduced, FreshStart, InvalidatedBefore, NoneAhead, AgreeBehind, Working
  <2> QED
    BY <1>0, <1>1, <2>1, <2>2, RecordsKept DEF PipelineInvariant, OneAtWork
<1>7. CASE Stall \/ UNCHANGED vars
  <2>1. UNCHANGED <<at, next, mode, record, crossed, mixed>>
    BY <1>7 DEF Stall, vars, threads, history
  <2>2. FinishedAgree' /\ \A n \in Node : Finished(n)' = Finished(n) /\ Agrees(n)' = Agrees(n)
    BY <2>1, RecordsKept
  <2>3. ASSUME NEW i \in Run, OneRun(i) PROVE OneRun(i)'
    <3>1. Affected(i)' = Affected(i) /\ \A n \in Node : AtNode(i, n)' = AtNode(i, n)
      BY <2>1 DEF Affected, AtNode
    <3> QED
      BY <2>1, <2>2, <2>3, <3>1
         DEF OneRun, AffectedProduced, FreshStart, InvalidatedBefore, NoneAhead, AgreeBehind, Working
  <2> QED
    BY <1>1, <2>1, <2>2, <2>3 DEF PipelineInvariant, OneAtWork
<1> QED
  BY <1>2, <1>4, <1>5, <1>6, <1>7 DEF Next, RunMoves

\* Whatever runs failed, stalled or were cut short: outputs that count as
\* finished were made from the outputs that are recorded now, unless runs
\* crossed, or one of all nodes over finished records was cut short.
THEOREM OutputsAgree == Spec => []FinishedAgree
<1>1. Init => PipelineInvariant
  BY InitInvariant
<1>2. PipelineInvariant /\ [Next]_vars => PipelineInvariant'
  BY StepInvariant
<1>3. PipelineInvariant => FinishedAgree
  BY DEF PipelineInvariant
<1> QED
  BY <1>1, <1>2, <1>3, PTL DEF Spec

-----------------------------------------------------------------------------
(* Completed jobs                                                           *)

\* Every retry ends with the song plan.
LEMMA PlanAffected == \A i \in Run : mode[i] \in Node \cup {"all"} => "song_plan_builder" \in Affected(i)
<1>1. Ancestors["song_plan_builder"] = Node \ {"song_plan_builder"}
  BY ClosureValues, AncestorsIsClosure, Nodes DEF Form, Composed
<1> QED
  BY <1>1, Nodes DEF Affected, affected_nodes_for_retry, downstream_nodes

\* The type invariant in three parts: the threads, the records, the files.
RecordsFit ==
    \A n \in Node :
        /\ record[n].status \in {"none", "running", "finished", "failed", "invalidated"}
        /\ record[n].made \in 0..runs
        /\ record[n].made > 0 => record[n].from \in [Inputs[n] -> 0..runs]

FilesFit == plan \in 0..runs /\ midi \in [of : 0..runs, whole : BOOLEAN] /\ report \in 0..runs

LEMMA TypeParts == ThreadsFit /\ RecordsFit /\ FilesFit => TypeOK
<1>1. Len(PIPELINE_NODE_ORDER) + 1 = 11
  BY DEF PIPELINE_NODE_ORDER
<1> QED
  BY <1>1 DEF TypeOK, ThreadsFit, RecordsFit, FilesFit, Statuses, Stations, After

\* A run that is at work has been started.
LEMMA MakerFits == ASSUME ThreadsFit, NEW i \in Run, at[i] # "idle" PROVE Maker(i) \in 0..runs
<1>1. i \in 1..MaxRuns /\ i <= runs /\ runs \in 0..MaxRuns
  BY DEF ThreadsFit, Run
<1> QED
  BY <1>1, RunsAre DEF Maker, Unclear

LEMMA RunsGrow == ASSUME ThreadsFit, [Next]_vars PROVE runs' \in Nat /\ 0..runs \subseteq 0..runs'
<1>1. runs \in Nat
  BY RunsAre DEF ThreadsFit
<1>2. runs' = runs \/ runs' = runs + 1
  <2>1. ASSUME NEW i \in Run, RunMoves(i) PROVE runs' = runs
    BY <2>1, Moves
  <2> QED
    BY <2>1 DEF Next, RunMoves, RunAll, RetryNode, Start, Stall, Interrupt, vars, threads
<1> QED
  BY <1>1, <1>2

LEMMA StepFiles == ThreadsFit /\ FilesFit /\ [Next]_vars => FilesFit'
<1> SUFFICES ASSUME ThreadsFit, FilesFit, [Next]_vars PROVE FilesFit'
  OBVIOUS
<1>0. /\ 0..runs \subseteq 0..runs' /\ plan \in 0..runs /\ report \in 0..runs
      /\ midi \in [of : 0..runs, whole : BOOLEAN]
  BY RunsGrow DEF FilesFit
<1>1. CASE UNCHANGED files
  <2>1. plan' = plan /\ midi' = midi /\ report' = report
    BY <1>1 DEF files
  <2> QED
    BY <1>0, <2>1 DEF FilesFit
<1>2. ASSUME NEW i \in Run, WritePlan(i) PROVE FilesFit'
  <2>1. plan' = Maker(i) /\ midi' = midi /\ report' = report /\ at[i] # "idle"
    BY <1>2 DEF WritePlan
  <2>2. Maker(i) \in 0..runs
    BY <2>1, MakerFits
  <2> QED
    BY <1>0, <2>1, <2>2 DEF FilesFit
<1>3. ASSUME NEW i \in Run, OpenMidi(i) PROVE FilesFit'
  BY <1>0, <1>3 DEF OpenMidi, FilesFit
<1>4. ASSUME NEW i \in Run, CloseMidi(i) PROVE FilesFit'
  BY <1>0, <1>4 DEF CloseMidi, FilesFit
<1>5. ASSUME NEW i \in Run, WriteReport(i) PROVE FilesFit'
  BY <1>0, <1>5 DEF WriteReport, FilesFit
<1>6. ASSUME RunAll \/ (\E n \in Retried : RetryNode(n)) \/ Stall \/ Interrupt \/ UNCHANGED vars
      PROVE  UNCHANGED files
  BY <1>6 DEF RunAll, RetryNode, Start, Stall, Interrupt, vars
<1>7. ASSUME NEW i \in Run,
             Normalize(i) \/ Invalidate(i) \/ Invalidated(i) \/ Validate(i) \/ Complete(i) \/ Raise(i)
               \/ Cancel(i)
               \/ \E n \in Node : Reuse(i, n) \/ Missing(i, n) \/ Begin(i, n) \/ Produce(i, n) \/ NodeFails(i, n)
      PROVE  UNCHANGED files
  BY <1>7 DEF Normalize, Invalidate, Invalidated, Validate, Complete, Raise, Cancel, Reuse, Missing,
              Begin, Produce, NodeFails
<1> QED
  BY <1>1, <1>2, <1>3, <1>4, <1>5, <1>6, <1>7 DEF Next, RunStep

\* The records, when one of them changes and the others do not.
LEMMA OneFits ==
    ASSUME RecordsFit, runs' = runs, NEW n \in Node,
           \A m \in Node \ {n} : record'[m] = record[m],
           record'[n].status \in {"none", "running", "finished", "failed", "invalidated"},
           record'[n].made \in 0..runs,
           record'[n].made > 0 => record'[n].from \in [Inputs[n] -> 0..runs]
    PROVE  RecordsFit'
BY DEF RecordsFit

LEMMA StepRecords == PipelineType /\ RecordsFit /\ [Next]_vars => RecordsFit'
<1> SUFFICES ASSUME PipelineType, RecordsFit, [Next]_vars PROVE RecordsFit'
  OBVIOUS
<1>0. record \in [Node -> RecordType] /\ ThreadsFit /\ 0..runs \subseteq 0..runs' /\ runs \in Nat
  BY RunsGrow, RunsAre DEF PipelineType, ThreadsFit
<1>1. CASE record' = record
  BY <1>0, <1>1 DEF RecordsFit
<1>2. ASSUME NEW n \in Node, runs' = runs, NEW s \in {"invalidated", "failed"},
             record' = [record EXCEPT ![n].status = s]
      PROVE  RecordsFit'
  <2>1. /\ \A m \in Node \ {n} : record'[m] = record[m]
        /\ record'[n].status = s /\ record'[n].made = record[n].made
        /\ record'[n].from = record[n].from
    BY <1>0, <1>2 DEF RecordType
  <2> QED
    BY <1>2, <2>1, OneFits DEF RecordsFit
<1>3. ASSUME NEW i \in Run, NEW n \in Node, Begin(i, n) PROVE RecordsFit'
  <2>1. /\ \A m \in Node \ {n} : record'[m] = record[m]
        /\ record'[n].status = "running" /\ record'[n].made = 0 /\ runs' = runs
    BY <1>0, <1>3 DEF Begin, Goes
  <2> QED
    BY <1>0, <2>1, OneFits
<1>4. ASSUME NEW i \in Run, NEW n \in Node, Produce(i, n) PROVE RecordsFit'
  <2> DEFINE f == IF crossed THEN <<>> ELSE [m \in Inputs[n] |-> record[m].made]
  <2>1. at[i] # "idle" /\ runs' = runs
        /\ record' = [record EXCEPT ![n] = [status |-> "finished", made |-> Maker(i), from |-> f]]
    BY <1>4 DEF Produce, Goes
  <2>2. Maker(i) > 0 => f \in [Inputs[n] -> 0..runs]
    <3>1. \A m \in Inputs[n] : record[m].made \in 0..runs
      BY InputsBefore DEF RecordsFit
    <3> QED
      BY <3>1 DEF Maker, Unclear
  <2>3. Maker(i) \in 0..runs
    BY <1>0, <2>1, MakerFits
  <2> HIDE DEF f
  <2>4. /\ \A m \in Node \ {n} : record'[m] = record[m]
        /\ record'[n].status = "finished" /\ record'[n].made = Maker(i) /\ record'[n].from = f
    BY <1>0, <2>1
  <2> QED
    BY <2>1, <2>2, <2>3, <2>4, OneFits
<1>5. ASSUME NEW i \in Run, Invalidate(i) PROVE RecordsFit'
  <2>1. PICK n \in ToInvalidate(i) : record' = [record EXCEPT ![n].status = "invalidated"]
    BY <1>5 DEF Invalidate
  <2>2. n \in Node /\ runs' = runs
    BY <1>0, <1>5, <2>1, AffectedNodes DEF Invalidate, ToInvalidate, ThreadsFit
  <2> QED
    BY <2>1, <2>2, <1>2
<1>6. ASSUME NEW i \in Run, NEW n \in Node, NodeFails(i, n) PROVE RecordsFit'
  BY <1>2, <1>6 DEF NodeFails, Stops
<1>7. ASSUME RunAll \/ (\E n \in Retried : RetryNode(n)) \/ Stall \/ Interrupt \/ UNCHANGED vars
      PROVE  record' = record
  BY <1>7 DEF RunAll, RetryNode, Start, Stall, Interrupt, vars
<1>8. ASSUME NEW i \in Run,
             Normalize(i) \/ Invalidated(i) \/ WritePlan(i) \/ Validate(i) \/ OpenMidi(i) \/ CloseMidi(i)
               \/ WriteReport(i) \/ Complete(i) \/ Raise(i) \/ Cancel(i)
               \/ \E n \in Node : Reuse(i, n) \/ Missing(i, n)
      PROVE  record' = record
  BY <1>8 DEF Normalize, Invalidated, WritePlan, Validate, OpenMidi, CloseMidi, WriteReport, Complete,
              Raise, Cancel, Reuse, Missing
<1> QED
  BY <1>1, <1>3, <1>4, <1>5, <1>6, <1>7, <1>8 DEF Next, RunStep

\* What a run by itself that has come so far has done.
Progress(i) ==
    /\ at[i] # "idle" => status # "completed"
    /\ Working(i) => \A n \in Node : Place(n) < next[i] => Finished(n)
    /\ at[i] \in After => (\A n \in Node : Finished(n)) /\ record["song_plan_builder"].made = i
    /\ at[i] \in After \ {"plan"} => plan = i
    /\ at[i] \in {"rendering", "report", "finish"} => midi.of = plan
    /\ at[i] \in {"report", "finish"} => midi.whole
    /\ at[i] = "finish" => report = plan

DirectoryInvariant ==
    /\ PipelineInvariant /\ FilesFit /\ RecordsFit /\ CompletedIsWhole
    /\ ~crossed => \A i \in Run : Progress(i)

LEMMA IdleProgress == \A i \in Run : at[i] = "idle" => Progress(i)
BY DEF Progress, Working, After

\* A run that has not come to its nodes, or has stopped.
LEMMA NoProgress ==
    ASSUME NEW i \in Run, at'[i] \in {"idle", "normalize", "invalidate"}, status' # "completed"
    PROVE  Progress(i)' /\ CompletedIsWhole'
BY DEF Progress, Working, After, CompletedIsWhole

LEMMA ProgressPlaces ==
    ASSUME DirectoryInvariant, ~crossed, NEW i \in Run, NEW n \in Node, Reuse(i, n) \/ Produce(i, n)
    PROVE  Progress(i)' /\ CompletedIsWhole'
<1>0. /\ ThreadsFit /\ record \in [Node -> RecordType] /\ Progress(i) /\ i \in Nat
      /\ "song_plan_builder" \in Affected(i) /\ next[i] \in 1..11
  BY AloneFacts, PlanAffected DEF DirectoryInvariant, PipelineInvariant, PipelineType, ThreadsFit
<1>1. /\ Working(i) /\ AtNode(i, n) /\ next' = [next EXCEPT ![i] = @ + 1] /\ Goes(i, Passed(n))
      /\ Passed(n) \in Stations /\ status' = status /\ at[i] # "idle" /\ status # "completed"
  BY <1>0 DEF Reuse, Produce, Passed, Stations, After, Working, Progress
<1>2. next[i] = Place(n) /\ next'[i] = Place(n) + 1 /\ at'[i] = Passed(n)
  BY <1>0, <1>1, NextPlace, GoesTo
<1>3. \A m \in Node : Place(m) < next'[i] => Finished(m)'
  <2>1. \A m \in Node : Place(m) < next'[i] => Place(m) < next[i] \/ m = n
    BY <1>2, PlaceType
  <2>2. \A m \in Node \ {n} : Finished(m)' = Finished(m)
    BY <1>0 DEF Reuse, Produce, Finished
  <2>3. Finished(n)'
    BY <1>0 DEF Reuse, Produce, Finished
  <2> QED
    BY <1>0, <1>1, <2>1, <2>2, <2>3 DEF Progress
<1>4. CASE n = "song_plan_builder"
  <2>1. Produce(i, n)
    BY <1>0, <1>4 DEF Reuse
  <2>2. record'[n].made = i
    BY <1>0, <2>1 DEF Produce, Maker
  <2>3. \A m \in Node : Place(m) < next'[i]
    BY <1>2, <1>4, Places, PlaceType
  <2> QED
    BY <1>1, <1>2, <1>3, <1>4, <2>2, <2>3 DEF Progress, Passed, Working, After, CompletedIsWhole
<1>5. CASE n # "song_plan_builder"
  BY <1>1, <1>2, <1>3, <1>5 DEF Progress, Passed, Working, After, CompletedIsWhole
<1> QED
  BY <1>4, <1>5

LEMMA ProgressFiles ==
    ASSUME DirectoryInvariant, ~crossed, NEW i \in Run,
           WritePlan(i) \/ Validate(i) \/ OpenMidi(i) \/ CloseMidi(i) \/ WriteReport(i)
    PROVE  Progress(i)' /\ CompletedIsWhole'
<1>0. /\ ThreadsFit /\ Progress(i) /\ midi \in [of : 0..runs, whole : BOOLEAN]
  BY DEF DirectoryInvariant, PipelineInvariant, PipelineType, FilesFit
<1>1. PICK place \in After \ {"plan"} :
        /\ Goes(i, place)
        /\ WritePlan(i) => place \in {"validate", "render"}
        /\ Validate(i) => place = "render"
        /\ OpenMidi(i) => place = "rendering"
        /\ CloseMidi(i) => place = "report"
        /\ WriteReport(i) => place = "finish"
  BY DEF WritePlan, Validate, OpenMidi, CloseMidi, WriteReport, After
<1>2. at'[i] = place
  BY <1>0, <1>1, GoesTo DEF Stations
<1>3. record' = record /\ status' = status /\ status # "completed" /\ at[i] \in After
  BY <1>0 DEF WritePlan, Validate, OpenMidi, CloseMidi, WriteReport, After, Progress
<1>4. plan' = i /\ (place = "finish" => report' = plan')
  BY <1>0, <1>1 DEF WritePlan, Validate, OpenMidi, CloseMidi, WriteReport, After, Progress, files, Maker
<1>5. /\ place \in {"rendering", "report", "finish"} => midi'.of = plan'
      /\ place \in {"report", "finish"} => midi'.whole
  BY <1>0, <1>1 DEF WritePlan, Validate, OpenMidi, CloseMidi, WriteReport, After, Progress, files
<1>6. (\A n \in Node : Finished(n)') /\ record'["song_plan_builder"].made = i
  BY <1>0, <1>3 DEF Progress, Finished
<1> QED
  BY <1>1, <1>2, <1>3, <1>4, <1>5, <1>6 DEF Progress, Working, After, CompletedIsWhole

LEMMA ProgressRun ==
    ASSUME DirectoryInvariant, ~crossed, NEW i \in Run, RunMoves(i)
    PROVE  Progress(i)' /\ CompletedIsWhole'
<1>0. /\ ThreadsFit /\ Progress(i) /\ record \in [Node -> RecordType] /\ FreshStart(i)
      /\ next[i] \in 1..11 /\ midi \in [of : 0..runs, whole : BOOLEAN]
  BY AloneFacts DEF DirectoryInvariant, FilesFit
<1>1. at[i] # "idle" /\ status # "completed"
  BY <1>0, Moves DEF Progress
<1>2. CASE Normalize(i) \/ Invalidated(i)
  <2>1. Goes(i, "node") /\ status' # "completed" /\ "node" \in Stations
    BY <1>1, <1>2 DEF Normalize, Invalidated, Stations
  <2>2. next'[i] = 1
    <3>1. CASE Normalize(i)
      BY <1>0, <3>1 DEF Normalize, FreshStart
    <3>2. CASE Invalidated(i)
      BY <1>0, <3>2 DEF Invalidated, ThreadsFit
    <3> QED
      BY <1>2, <3>1, <3>2
  <2>3. at'[i] = "node"
    BY <1>0, <2>1, GoesTo
  <2> QED
    BY <2>1, <2>2, <2>3, PlaceType DEF Progress, Working, After, CompletedIsWhole
<1>3. CASE Invalidate(i)
  <2>1. at'[i] = "invalidate" /\ status' # "completed"
    BY <1>1, <1>3 DEF Invalidate
  <2> QED
    BY <2>1, NoProgress
<1>4. ASSUME NEW n \in Node, Begin(i, n) PROVE Progress(i)' /\ CompletedIsWhole'
  <2>1. /\ Goes(i, "producing") /\ Working(i) /\ next[i] = Place(n) /\ next' = next
        /\ status' = status /\ "producing" \in Stations
    BY <1>4 DEF Begin, AtNode, Working, Stations
  <2>2. at'[i] = "producing"
    BY <1>0, <2>1, GoesTo
  <2>3. \A m \in Node \ {n} : Finished(m)' = Finished(m)
    BY <1>0, <1>4 DEF Begin, Finished
  <2> QED
    BY <1>0, <1>1, <2>1, <2>2, <2>3, PlaceType DEF Progress, Working, After, CompletedIsWhole
<1>5. CASE Complete(i)
  <2>1. Stops(i, "completed") /\ at[i] = "finish" /\ record' = record
        /\ plan' = plan /\ midi' = midi /\ report' = report
    BY <1>5 DEF Complete, files
  <2>2. at'[i] = "idle"
    BY <1>0, <2>1, StopsAt DEF Statuses
  <2>3. (\A n \in Node : Finished(n)') /\ plan' = record'["song_plan_builder"].made
    BY <1>0, <2>1 DEF Progress, After, Finished
  <2>4. midi' = [of |-> plan', whole |-> TRUE] /\ report' = plan'
    BY <1>0, <2>1 DEF Progress, After
  <2> QED
    BY <2>2, <2>3, <2>4, IdleProgress DEF Progress, Working, After, CompletedIsWhole
<1>6. CASE Raise(i) \/ Cancel(i) \/ \E n \in Node : Missing(i, n) \/ NodeFails(i, n)
  <2>1. PICK s \in Statuses \ {"completed"} : Stops(i, s)
    BY <1>0, <1>1, <1>6 DEF Raise, Cancel, Missing, NodeFails, ThreadsFit, Statuses
  <2>2. at'[i] = "idle" /\ status' # "completed"
    BY <1>0, <2>1, StopsAt
  <2> QED
    BY <2>2, NoProgress
<1> QED
  BY <1>2, <1>3, <1>4, <1>5, <1>6, ProgressPlaces, ProgressFiles DEF RunMoves, RunStep

\* A run that stays idle.
LEMMA StaysIdle == \A i \in Run : at'[i] = "idle" => Progress(i)'
BY DEF Progress, Working, After

LEMMA StepProgress ==
    DirectoryInvariant /\ [Next]_vars => CompletedIsWhole' /\ (~crossed' => \A i \in Run : Progress(i)')
<1> SUFFICES ASSUME DirectoryInvariant, [Next]_vars
             PROVE  CompletedIsWhole' /\ (~crossed' => \A i \in Run : Progress(i)')
  OBVIOUS
<1>0. ThreadsFit /\ CompletedIsWhole /\ (~crossed => OneAtWork /\ \A i \in Run : Progress(i))
  BY DEF DirectoryInvariant, PipelineInvariant, PipelineType
<1>1. ASSUME NEW i \in Run, RunMoves(i)
      PROVE  CompletedIsWhole' /\ (~crossed' => \A j \in Run : Progress(j)')
  <2>1. at[i] # "idle" /\ OthersStay(i) /\ crossed' = crossed
    BY <1>0, <1>1, Moves
  <2>2. CASE crossed
    BY <2>1, <2>2 DEF CompletedIsWhole
  <2>3. CASE ~crossed
    <3>1. \A j \in Run \ {i} : at'[j] = "idle"
      BY <1>0, <2>1, <2>3 DEF OneAtWork, OthersStay
    <3> QED
      BY <1>1, <2>3, <3>1, StaysIdle, ProgressRun
  <2> QED
    BY <2>2, <2>3
<1>2. ASSUME NEW m \in Node \cup {"all"}, NEW place \in {"normalize", "invalidate"},
             NEW s \in {"queued", "running"}, Start(m, place, s)
      PROVE  CompletedIsWhole' /\ (~crossed' => \A j \in Run : Progress(j)')
  <2>1. /\ runs' \in Run /\ at'[runs'] = place /\ status' = s
        /\ \A j \in Run \ {runs'} : at'[j] = at[j]
        /\ crossed' = (Busy # {})
    BY <1>0, <1>2, Starts
  <2>2. CompletedIsWhole'
    BY <2>1 DEF CompletedIsWhole
  <2>3. ASSUME Busy = {}, NEW j \in Run PROVE Progress(j)'
    <3>1. CASE j = runs'
      <4>1. at'[j] \in {"idle", "normalize", "invalidate"} /\ status' # "completed"
        BY <2>1, <3>1
      <4> QED
        BY <4>1, NoProgress
    <3>2. CASE j # runs'
      BY <2>1, <2>3, <3>2, StaysIdle DEF Busy
    <3> QED
      BY <3>1, <3>2
  <2> QED
    BY <2>1, <2>2, <2>3
<1>3. CASE RunAll
  BY <1>2, <1>3, Zenon DEF RunAll
<1>4. ASSUME NEW n \in Retried, RetryNode(n)
      PROVE  CompletedIsWhole' /\ (~crossed' => \A j \in Run : Progress(j)')
  <2>1. n \in Node /\ Start(n, "invalidate", "running")
    BY <1>4, PipelineAssumption, Zenon DEF RetryNode
  <2> QED
    BY <1>2, <2>1
<1>5. CASE Interrupt \/ UNCHANGED vars
  <2>1. record' = record /\ plan' = plan /\ midi' = midi /\ report' = report /\ crossed' = crossed
    BY <1>5 DEF Interrupt, vars, files, history
  <2>2. status' = "completed" => status = "completed"
    BY <1>5 DEF Interrupt, vars
  <2>3. CompletedIsWhole'
    BY <1>0, <2>1, <2>2 DEF CompletedIsWhole, Finished
  <2>4. CASE Interrupt
    <3>1. \A i \in Run : at'[i] = "idle"
      BY <2>4 DEF Interrupt
    <3> QED
      BY <2>3, <3>1, StaysIdle
  <2>5. CASE UNCHANGED vars
    <3>1. at' = at /\ next' = next /\ status' = status
      BY <2>5 DEF vars, threads
    <3>2. \A i \in Run : Progress(i)' = Progress(i)
      BY <2>1, <3>1 DEF Progress, Working, Finished
    <3> QED
      BY <1>0, <2>1, <2>3, <3>2
  <2> QED
    BY <1>5, <2>4, <2>5
<1>6. CASE Stall
  <2>1. /\ record' = record /\ plan' = plan /\ midi' = midi /\ report' = report /\ crossed' = crossed
        /\ at' = at /\ next' = next /\ status' = "stalled"
    BY <1>6 DEF Stall, files, threads, history
  <2>2. \A i \in Run : Progress(i) => Progress(i)'
    BY <2>1 DEF Progress, Working, Finished
  <2> QED
    BY <1>0, <2>1, <2>2 DEF CompletedIsWhole
<1> QED
  BY <1>1, <1>3, <1>4, <1>5, <1>6 DEF Next, RunMoves

\* A job that is shown as completed has a plan that is its last node's output,
\* the whole MIDI file of it and a report on it, for any number of runs that
\* fail, are cancelled or cut short at any step, or are marked stalled and go
\* on, unless runs crossed since the directory was last at rest.
THEOREM JobsAreWhole == Spec => []DirectoryIsSound
<1>1. Init => DirectoryInvariant
  <2> SUFFICES ASSUME Init PROVE DirectoryInvariant
    OBVIOUS
  <2>1. PipelineInvariant
    BY InitInvariant
  <2>2. runs = 0 /\ 0..runs = {0}
    BY DEF Init
  <2>3. FilesFit
    BY <2>2 DEF Init, FilesFit
  <2>4. RecordsFit
    BY <2>2 DEF Init, RecordsFit, NoRecord
  <2>5. \A i \in Run : Progress(i)
    BY IdleProgress DEF Init
  <2>6. CompletedIsWhole
    BY DEF Init, CompletedIsWhole
  <2> QED
    BY <2>1, <2>3, <2>4, <2>5, <2>6 DEF DirectoryInvariant
<1>2. DirectoryInvariant /\ [Next]_vars => DirectoryInvariant'
  <2> SUFFICES ASSUME DirectoryInvariant, [Next]_vars PROVE DirectoryInvariant'
    OBVIOUS
  <2>1. PipelineInvariant' /\ RecordsFit' /\ FilesFit'
    BY StepInvariant, StepRecords, StepFiles DEF DirectoryInvariant, PipelineInvariant, PipelineType
  <2> QED
    BY <2>1, StepProgress DEF DirectoryInvariant
<1>3. DirectoryInvariant => DirectoryIsSound
  BY TypeParts DEF DirectoryInvariant, PipelineInvariant, PipelineType, DirectoryIsSound
<1> QED
  BY <1>1, <1>2, <1>3, PTL DEF Spec
=============================================================================
