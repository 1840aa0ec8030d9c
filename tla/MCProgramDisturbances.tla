----------------------- MODULE MCProgramDisturbances -----------------------
(* A small instance of ProgramDisturbances for TLC. *)
EXTENDS ProgramDisturbances, TLC

\* Writers, documents and payloads are interchangeable.
Symmetric == Permutations(Writer) \cup Permutations(Doc) \cup Permutations(Payload)
=============================================================================
