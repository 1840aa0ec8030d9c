--------------------------- MODULE ExclusiveLock ---------------------------
(***************************************************************************)
(* What WorkspaceLock promises to its callers (locks.py:33): at most one   *)
(* thread of any process has the workspace at a time, and a holder loses   *)
(* it only by releasing it or by dying with its process.                   *)
(***************************************************************************)
CONSTANTS Thread, None

VARIABLE holder

Init == holder = None

Acquire(t) == holder = None /\ holder' = t

\* The outermost release, or the death of the holder's process.
LetGo == holder # None /\ holder' = None

Next == LetGo \/ \E t \in Thread : Acquire(t)

Spec == Init /\ [][Next]_holder
=============================================================================
