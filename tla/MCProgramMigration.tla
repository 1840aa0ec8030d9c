------------------------- MODULE MCProgramMigration -------------------------
(* A small instance of ProgramMigration for TLC. *)
EXTENDS ProgramMigration, TLC

\* Migrators, documents and payloads are interchangeable.
Symmetric == Permutations(Migrator) \cup Permutations(Doc) \cup Permutations(Payload)
=============================================================================
