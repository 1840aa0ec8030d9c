-------------------------- MODULE SignoffLifecycle --------------------------
(***************************************************************************)
(* The sign-off of a program's Continuity Command Center                   *)
(* (domains/program/unified_release_program_continuity_command_center_     *)
(* signoff.py, platform/lifecycle): sign, change request, approval, reset  *)
(* and the archive and handoff packages.  Every call but a verification    *)
(* runs under the workspace lock: it reads what it needs, then makes its   *)
(* writes one by one, and may be cut short before any of them.  What the   *)
(* program's sign-off is, is decided by its history, a chain of hashes; a  *)
(* file carries the number of its sign-off where the code has hashes.      *)
(***************************************************************************)
EXTENDS Integers, Sequences, FiniteSets, SequencesExt

CONSTANTS Client,      \* threads that call the store
          Request,     \* ids of change requests
          Source,      \* fingerprints of the Command Center package
          MaxSignoffs, \* bound: sign-offs
          MaxFaults,   \* bound: calls cut short and files deleted behind the store
          None

ASSUME SignoffAssumption ==
    /\ None \notin Client \cup Request \cup Source
    /\ MaxSignoffs \in Nat /\ MaxFaults \in Nat

Package == {"archive", "handoff"}
Part == {"dir", "zip", "report"}
Document == {"signoff", "binding", "policy", "proof"}
Number == 1 .. MaxSignoffs

\* A directory or zip that is not complete; a report that does not pass; a row not linked.
Bad == -1

VARIABLES
    history,   \* the rows of the history file
    file,      \* the single documents; 0: no file
    source,    \* per sign-off: the Command Center package it signed
    state,     \* the state document
    out,       \* per package: its directory, its zip, its verification report
    kept,      \* per sign-off: the copy of its material that a reset makes
    request,   \* the change requests
    approval,  \* the change requests whose approval proof is written
    evidence,  \* the current Command Center package; None: it does not pass
    holder,    \* who has the workspace lock
    todo,      \* per client: the writes it has still to make
    report,    \* per client: what its verification found, not yet written
    cuts, losses

disk == <<history, file, source, state, out, kept, request, approval>>
vars == <<disk, evidence, holder, todo, report, cuts, losses>>

Row(t, n, r) == [type |-> t, of |-> n, request |-> r, prev |-> Bad]
Exported(p) == IF p = "archive" THEN "archive exported" ELSE "handoff exported"
Built(p) == IF p = "archive" THEN "archive built" ELSE "handoff built"

Init ==
    /\ history = << >>
    /\ file = [f \in Document |-> 0]
    /\ source = [n \in Number |-> None]
    /\ state = [status |-> "none", of |-> 0]
    /\ out = [p \in Package |-> [x \in Part |-> 0]]
    /\ kept = [n \in Number |-> "none"]
    /\ request = [r \in Request |-> [status |-> "none", of |-> 0]]
    /\ approval = {}
    /\ evidence \in Source
    /\ holder = None
    /\ todo = [c \in Client |-> << >>]
    /\ report = [c \in Client |-> None]
    /\ cuts = 0 /\ losses = 0

-----------------------------------------------------------------------------
(* What the calls read                                                      *)

\* HistoryChain.validate: every row is whole and carries the hash of the row before it.
Linked(h) == \A i \in DOMAIN h : h[i].prev = i - 1

\* The places of the rows that decide whether the program is signed, and the last of them.
Transitions == {i \in DOMAIN history : history[i].type \in {"signed", "reset"}}
LatestRow == history[Max(Transitions)]

\* latest_signoff_state
IsSigned == Transitions # {} /\ LatestRow.type = "signed"
Latest == IF Transitions = {} THEN 0 ELSE LatestRow.of
NextNumber == Cardinality({i \in DOMAIN history : history[i].type = "signed"}) + 1

\* _find_history_event
Recorded(t, n) == \E i \in DOMAIN history : history[i].type = t /\ history[i].of = n

\* The documents of the sign-off in force are there and agree with the history.
Bound ==
    /\ IsSigned /\ Linked(history)
    /\ file["signoff"] = Latest /\ file["binding"] = Latest /\ file["policy"] # 0
    /\ state.status # "none" /\ state.of = Latest

\* _signed_context
SignedContext == Bound /\ evidence = source[Latest]

\* _verify_archive_runtime, _verify_handoff_runtime
Passes(p) ==
    LET n == out[p]["zip"] IN
    /\ n \in Number /\ out["archive"]["zip"] = n
    /\ file["binding"] = n /\ evidence = source[n]
    /\ p = "handoff" => out["archive"]["report"] = n

\* _signed_context for the archive, _handoff_context for the handoff
Context(p) ==
    /\ SignedContext
    /\ p = "handoff" => out["archive"]["report"] = Latest /\ Passes("archive")

Outputs == \E p \in Package, x \in Part : out[p][x] # 0

\* Mutant of MaySign: an unsigned program is one without a sign-off document.
MaySignByFile == Linked(history) /\ file["signoff"] = 0

\* Mutant of MaySign: the outputs of the last sign-off are not looked for.
MaySignOverRemains ==
    /\ Linked(history)
    /\ history # << >> => Last(history).type = "reset" /\ state = [status |-> "reset", of |-> Latest]

\* _assert_signoff_transition_allowed
MaySign ==
    \/ /\ history = << >>
       /\ file = [f \in Document |-> 0] /\ state.status = "none" /\ ~Outputs
       /\ \A r \in Request : request[r].status = "none"
       /\ \A n \in Number : kept[n] = "none"
    \/ /\ history # << >> /\ Linked(history) /\ Last(history).type = "reset"
       /\ file["signoff"] = 0 /\ file["binding"] = 0 /\ ~Outputs
       /\ state = [status |-> "reset", of |-> Latest] /\ file["proof"] = Latest

\* Mutant of MayReset: the request need not be about the sign-off in force.
MayResetByApproval(r) == SignedContext /\ request[r].status = "approved" /\ r \in approval

\* The checks of reset_signoff, with _assert_request_current
MayReset(r) ==
    /\ SignedContext
    /\ request[r] = [status |-> "approved", of |-> Latest] /\ r \in approval

-----------------------------------------------------------------------------
(* The writes of the calls, in the order of the code                        *)

Effect(do, what, n, value) == << [do |-> do, what |-> what, of |-> n, value |-> value] >>

Write(f, n)      == Effect("document", f, n, None)
WriteState(s, n) == Effect("state", None, n, s)
Put(p, x, n)     == Effect("output", p, n, x)
Mark(r, s, n)    == Effect("request", r, n, s)
Approval(r)      == Effect("approval", r, 0, None)
Add(t, n, r)     == Effect("append", None, n, Row(t, n, r))

\* signoff
SignWrites(n) ==
    Effect("document", "signoff", n, evidence) \o Add("signed", n, None)
    \o Write("binding", n) \o Write("policy", n) \o WriteState("signed", n)

\* _preserve_current_archive: a copy that is there is taken for complete.
KeepWrites(n) ==
    IF kept[n] = "none" THEN Effect("keep", None, n, "part") \o Effect("keep", None, n, "full")
    ELSE << >>

\* Mutant of ClearWrites: the handoff's zip is forgotten.
ClearAllButOne ==
    Put("archive", "dir", 0) \o Put("handoff", "dir", 0) \o Put("archive", "zip", 0)
    \o Put("archive", "report", 0) \o Put("handoff", "report", 0)

\* _clear_current_outputs
ClearWrites ==
    Put("archive", "dir", 0) \o Put("handoff", "dir", 0) \o Put("archive", "zip", 0)
    \o Put("archive", "report", 0) \o Put("handoff", "zip", 0) \o Put("handoff", "report", 0)

\* Mutant of ResetWrites: the material is copied after the reset is recorded.
ResetThenKeep(r, n) ==
    Add("reset", n, r) \o KeepWrites(n) \o Write("proof", n) \o Mark(r, "applied", n)
    \o Write("signoff", 0) \o Write("binding", 0) \o WriteState("reset", n) \o ClearWrites

\* reset_signoff
ResetWrites(r, n) ==
    KeepWrites(n) \o Add("reset", n, r) \o Write("proof", n) \o Mark(r, "applied", n)
    \o Write("signoff", 0) \o Write("binding", 0) \o WriteState("reset", n) \o ClearWrites

\* Mutant of ExportWrites: the directory first, then the event.
ExportThenRecord(p, n) ==
    Put(p, "dir", Bad) \o Put(p, "dir", n) \o Add(Exported(p), n, None)

\* export_archive, export_final_handoff; the state document only gains the event's hash.
ExportWrites(p, n) ==
    Add(Exported(p), n, None) \o Put(p, "dir", Bad) \o Put(p, "dir", n)

\* build_archive_zip, build_final_handoff_zip
BuildWrites(p, n) ==
    (IF out[p]["dir"] = 0 THEN ExportWrites(p, n) ELSE << >>)
    \o Put(p, "zip", Bad) \o Put(p, "zip", n) \o Add(Built(p), n, None)

-----------------------------------------------------------------------------
(* The calls                                                                *)

\* Mutant of MayEnter: the lock is not taken.
MayEnterAnyway(c) == todo[c] = << >> /\ report[c] = None

\* WorkspaceLock.acquire
MayEnter(c) == holder = None /\ todo[c] = << >> /\ report[c] = None

\* A call that passes its checks has the lock, and its writes before it.
Call(c, writes) ==
    /\ holder' = c
    /\ todo' = [todo EXCEPT ![c] = writes]
    /\ UNCHANGED <<disk, evidence, report, cuts, losses>>

Sign(c) ==
    /\ MayEnter(c) /\ MaySign /\ evidence # None /\ NextNumber \in Number
    /\ Call(c, SignWrites(NextNumber))

CreateRequest(c, r) ==
    /\ MayEnter(c) /\ SignedContext /\ request[r].status = "none"
    /\ Call(c, Mark(r, "submitted", Latest))

Approve(c, r) ==
    /\ MayEnter(c) /\ SignedContext /\ request[r] = [status |-> "submitted", of |-> Latest]
    /\ Call(c, Mark(r, "approved", Latest) \o Approval(r))

Reset(c, r) == MayEnter(c) /\ MayReset(r) /\ Call(c, ResetWrites(r, Latest))

Export(c, p) ==
    /\ MayEnter(c) /\ Context(p) /\ out[p]["dir"] = 0 /\ ~Recorded(Exported(p), Latest)
    /\ Call(c, ExportWrites(p, Latest))

\* A directory of this sign-off must be complete; one that was deleted is not made anew.
Build(c, p) ==
    /\ MayEnter(c) /\ Context(p) /\ out[p]["zip"] = 0 /\ ~Recorded(Built(p), Latest)
    /\ out[p]["dir"] \in {0, Latest}
    /\ (out[p]["dir"] = 0) # Recorded(Exported(p), Latest)
    /\ Call(c, BuildWrites(p, Latest))

\* The verification of a zip runs without the lock; a missing zip gives a failed report.
Verify(c, p) ==
    /\ todo[c] = << >> /\ report[c] = None
    /\ report' = [report EXCEPT ![c] = [of |-> p, result |-> IF Passes(p) THEN out[p]["zip"] ELSE Bad]]
    /\ UNCHANGED <<disk, evidence, holder, todo, cuts, losses>>

\* Its report is written under the lock.
WriteReport(c) ==
    /\ report[c] # None /\ holder = None
    /\ out' = [out EXCEPT ![report[c].of]["report"] = report[c].result]
    /\ report' = [report EXCEPT ![c] = None]
    /\ UNCHANGED <<history, file, source, state, kept, request, approval,
                   evidence, holder, todo, cuts, losses>>

-----------------------------------------------------------------------------
(* The writes, made one by one                                              *)

\* The first half of HistoryChain.append: the row takes the hash of the last one.
Link(c) ==
    /\ todo[c] # << >> /\ Head(todo[c]).do = "append" /\ Head(todo[c]).value.prev = Bad
    /\ todo' = [todo EXCEPT ![c][1].value.prev = Len(history)]
    /\ UNCHANGED <<disk, evidence, holder, report, cuts, losses>>

Perform(e) ==
    \/ /\ e.do = "append" /\ e.value.prev # Bad
       /\ history' = Append(history, e.value)
       /\ UNCHANGED <<file, source, state, out, kept, request, approval>>
    \/ /\ e.do = "document"
       /\ file' = [file EXCEPT ![e.what] = e.of]
       /\ source' = IF e.value # None THEN [source EXCEPT ![e.of] = e.value] ELSE source
       /\ UNCHANGED <<history, state, out, kept, request, approval>>
    \/ /\ e.do = "state"
       /\ state' = [status |-> e.value, of |-> e.of]
       /\ UNCHANGED <<history, file, source, out, kept, request, approval>>
    \/ /\ e.do = "output"
       /\ out' = [out EXCEPT ![e.what][e.value] = e.of]
       /\ UNCHANGED <<history, file, source, state, kept, request, approval>>
    \/ /\ e.do = "keep"
       /\ kept' = [kept EXCEPT ![e.of] = e.value]
       /\ UNCHANGED <<history, file, source, state, out, request, approval>>
    \/ /\ e.do = "request"
       /\ request' = [request EXCEPT ![e.what] = [status |-> e.value, of |-> e.of]]
       /\ UNCHANGED <<history, file, source, state, out, kept, approval>>
    \/ /\ e.do = "approval"
       /\ approval' = approval \cup {e.what}
       /\ UNCHANGED <<history, file, source, state, out, kept, request>>

\* The next write of c's call; after the last one the lock is released.
Step(c) ==
    /\ todo[c] # << >> /\ Perform(Head(todo[c]))
    /\ todo' = [todo EXCEPT ![c] = Tail(@)]
    /\ holder' = IF Len(todo[c]) = 1 THEN None ELSE holder
    /\ UNCHANGED <<evidence, report, cuts, losses>>

\* The process dies or a write fails: the rest is not done, a row may be half written.
Cut(c) ==
    /\ todo[c] # << >> /\ cuts + losses < MaxFaults
    /\ history' \in {history} \cup
         (IF Head(todo[c]).do = "append" THEN {Append(history, Row("torn", 0, None))} ELSE {})
    /\ todo' = [todo EXCEPT ![c] = << >>]
    /\ holder' = None /\ cuts' = cuts + 1
    /\ UNCHANGED <<file, source, state, out, kept, request, approval, evidence, report, losses>>

\* A file is deleted behind the store's back.
Lose ==
    /\ holder = None /\ cuts + losses < MaxFaults /\ losses' = losses + 1
    /\ \/ \E f \in Document : file[f] # 0 /\ file' = [file EXCEPT ![f] = 0] /\ UNCHANGED <<history, out>>
       \/ history # << >> /\ history' = << >> /\ UNCHANGED <<file, out>>
       \/ \E p \in Package, x \in Part :
            out[p][x] # 0 /\ out' = [out EXCEPT ![p][x] = 0] /\ UNCHANGED <<file, history>>
    /\ UNCHANGED <<source, state, kept, request, approval, evidence, holder, todo, report, cuts>>

\* The Command Center package is built or verified anew, under the same lock.
Rebuild ==
    /\ holder = None
    /\ evidence' \in (Source \cup {None}) \ {evidence}
    /\ UNCHANGED <<disk, holder, todo, report, cuts, losses>>

Next ==
    \/ \E c \in Client :
         \/ Sign(c) \/ Link(c) \/ Step(c) \/ Cut(c) \/ WriteReport(c)
         \/ \E r \in Request : CreateRequest(c, r) \/ Approve(c, r) \/ Reset(c, r)
         \/ \E p \in Package : Export(c, p) \/ Build(c, p) \/ Verify(c, p)
    \/ Lose
    \/ Rebuild

Spec == Init /\ [][Next]_vars

-----------------------------------------------------------------------------
(* Properties                                                               *)

\* Types, and: the lock is held exactly while a call has writes left, and by that call.
TypeOK ==
    /\ \A c \in Client : todo[c] # << >> <=> holder = c
    /\ history \in Seq([type : {"signed", "reset", "torn"} \cup {Exported(p) : p \in Package}
                                 \cup {Built(p) : p \in Package},
                        of : 0 .. MaxSignoffs, request : Request \cup {None}, prev : Nat \cup {Bad}])
    /\ file \in [Document -> 0 .. MaxSignoffs]
    /\ source \in [Number -> Source \cup {None}]
    /\ state \in [status : {"none", "signed", "reset"}, of : 0 .. MaxSignoffs]
    /\ out \in [Package -> [Part -> Bad .. MaxSignoffs]]
    /\ kept \in [Number -> {"none", "part", "full"}]
    /\ request \in [Request -> [status : {"none", "submitted", "approved", "applied"},
                                of : 0 .. MaxSignoffs]]
    /\ approval \subseteq Request
    /\ evidence \in Source \cup {None}
    /\ holder \in Client \cup {None}
    /\ \A c \in Client : report[c] = None \/ report[c] \in [of : Package, result : Bad .. MaxSignoffs]
    /\ cuts \in Nat /\ losses \in Nat /\ cuts + losses <= MaxFaults

\* Calls of several clients never fork the chain of hashes: each whole row follows the row
\* before it, and only a call that was cut short leaves a row that breaks the chain.
HistoryIsChain == Linked(history) \/ (cuts > 0 /\ Linked(Front(history)) /\ Last(history).type = "torn")

\* The types, the lock and the chain.
HistoryIsSound == TypeOK /\ HistoryIsChain

\* Sign-offs and resets take turns, each reset withdrawing the sign-off before it: no file
\* that is lost makes a signed program look unsigned (material/v12.10.0, "unsigned fallback").
SignoffsTakeTurns ==
    \A i \in Transitions :
        LET before == Cardinality({j \in Transitions : j < i}) IN
        /\ history[i].type = IF before % 2 = 0 THEN "signed" ELSE "reset"
        /\ history[i].of = before \div 2 + 1

\* Every reset names a change request that was made and approved for the sign-off it
\* withdraws, and no request is used twice, also when marking it applied was cut off.
ResetIsAuthorised ==
    \A i \in DOMAIN history : history[i].type = "reset" =>
        /\ history[i].request \in approval /\ request[history[i].request].of = history[i].of
        /\ \A j \in DOMAIN history \ {i} : history[j].type = "reset" => history[j].request # history[i].request

\* Under a sign-off whose documents are in force, no package of an earlier sign-off remains.
\* (A report may: a verification that ran through a reset writes it; Context tells it apart.)
OutputsAreCurrent ==
    Bound => \A p \in Package, x \in {"dir", "zip"} : out[p][x] \in {0, Bad, Latest}

\* A sign-off's package is exported and built at most once, whatever is deleted or cut off.
PackagedOnce ==
    \A i, j \in DOMAIN history :
        history[i].type \notin {"signed", "reset", "torn"} /\ history[i].type = history[j].type
            /\ history[i].of = history[j].of => i = j

\* There is no package on disk that the history does not record as exported.
PackagesAreRecorded ==
    losses = 0 => \A p \in Package, x \in {"dir", "zip"} :
        out[p][x] \in Number => Recorded(Exported(p), out[p][x])

\* A handoff is exported only after the archive of the same sign-off was.
HandoffFollowsArchive ==
    \A i \in DOMAIN history : history[i].type = Exported("handoff") =>
        \E j \in 1 .. i : history[j].type = Exported("archive") /\ history[j].of = history[i].of

\* Packages on disk and the history's account of them correspond.
PackagesFitHistory == PackagedOnce /\ PackagesAreRecorded /\ HandoffFollowsArchive

\* A withdrawn sign-off's material was copied first: in full, unless a call was cut short.
ResetKeepsMaterial ==
    \A i \in DOMAIN history : history[i].type = "reset" =>
        kept[history[i].of] # "none" /\ (cuts = 0 => kept[history[i].of] = "full")

\* Without faults the program can be signed, or its sign-off is in force.  The one
\* exception is a verification report written while no sign-off is in force: it stops
\* every later sign-off, since only a reset removes it.
NeverStuck ==
    holder = None /\ cuts = 0 /\ losses = 0 =>
        MaySign \/ Bound \/ (~IsSigned /\ \E p \in Package : out[p]["report"] # 0)
=============================================================================
