------------------------- MODULE ConditionalPublish -------------------------
(***************************************************************************)
(* What FileUnitOfWork and PersistenceRecovery promise together to the     *)
(* readers of a namespace: current.json is a register changed only by      *)
(* compare-and-set.  A transaction becomes current only in place of the    *)
(* generation it was prepared against, and is withdrawn only in favour of  *)
(* that same generation.                                                   *)
(***************************************************************************)
CONSTANTS Tx, Namespace, nsOf, None

VARIABLES current,  \* per namespace: the transaction whose generation readers see
          base      \* per transaction: the generation it was prepared against

Init ==
    /\ current = [n \in Namespace |-> None]
    /\ base = [t \in Tx |-> None]

Prepare(t) ==
    /\ base' = [base EXCEPT ![t] = current[nsOf[t]]]
    /\ UNCHANGED current

Publish(t) ==
    /\ current[nsOf[t]] = base[t]
    /\ current' = [current EXCEPT ![nsOf[t]] = t]
    /\ UNCHANGED base

Withdraw(t) ==
    /\ current[nsOf[t]] = t
    /\ current' = [current EXCEPT ![nsOf[t]] = base[t]]
    /\ UNCHANGED base

Next == \E t \in Tx : Prepare(t) \/ Publish(t) \/ Withdraw(t)

Spec == Init /\ [][Next]_<<current, base>>
=============================================================================
