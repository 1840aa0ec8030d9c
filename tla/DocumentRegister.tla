-------------------------- MODULE DocumentRegister --------------------------
(***************************************************************************)
(* What ProgramStateRepository promises to the stores that use it: each    *)
(* document is an atomic register.  A write takes effect at most once and  *)
(* at one moment, a read returns what was written last; locks, authority   *)
(* objects, projections, replays, crashes and migrations are invisible.    *)
(***************************************************************************)
CONSTANTS Doc, Payload, Writer, Reader, None

VARIABLES value,    \* per document: the JSON that a read returns, None without one
          request,  \* per caller: the document and the payload of its call
          written,  \* the writers whose write has taken effect
          answer    \* per reader: what its last successful read returned

Init ==
    /\ value \in [Doc -> Payload \cup {None}]
    /\ request = [c \in Writer \cup Reader |-> [doc |-> None, payload |-> None]]
    /\ written = {}
    /\ answer = [r \in Reader |-> None]

Call(c, d, p) ==
    /\ c \notin written
    /\ request' = [request EXCEPT ![c] = [doc |-> d, payload |-> p]]
    /\ UNCHANGED <<value, written, answer>>

Write(w) ==
    /\ w \notin written
    /\ request[w].doc \in Doc
    /\ value' = [value EXCEPT ![request[w].doc] = request[w].payload]
    /\ written' = written \cup {w}
    /\ UNCHANGED <<request, answer>>

Read(r) ==
    /\ request[r].doc \in Doc
    /\ answer' = [answer EXCEPT ![r] = value[request[r].doc]]
    /\ UNCHANGED <<value, request, written>>

Next ==
    \/ \E c \in Writer \cup Reader, d \in Doc \cup {None}, p \in Payload \cup {None} : Call(c, d, p)
    \/ \E w \in Writer : Write(w)
    \/ \E r \in Reader : Read(r)

Spec == Init /\ [][Next]_<<value, request, written, answer>>
=============================================================================
