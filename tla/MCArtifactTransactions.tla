---------------------- MODULE MCArtifactTransactions ----------------------
(* Small instances of ArtifactTransactions for TLC. *)
EXTENDS ArtifactTransactions

CONSTANTS n1, n2

\* All transactions in one namespace.
OneNamespace == [t \in Tx |-> n1]
=============================================================================
