-------------------------- MODULE MCWorkspaceLock --------------------------
(* Small instances of WorkspaceLock for TLC. *)
EXTENDS WorkspaceLock, TLC

CONSTANTS p1, p2, p3, t1, t2, t3, k1, k2, k3

\* Two threads in one process and one in another.
TwoProcs == t1 :> p1 @@ t2 :> p1 @@ t3 :> p2

\* One thread in each of three processes.
ThreeProcs == t1 :> p1 @@ t2 :> p2 @@ t3 :> p3

\* One thread in each of two processes.
OneEach == t1 :> p1 @@ t2 :> p2

TokenSymmetry == Permutations(Token)
=============================================================================
