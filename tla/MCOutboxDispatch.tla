--------------------------- MODULE MCOutboxDispatch ---------------------------
(***************************************************************************)
(* Instances of OutboxDispatch for TLC.                                    *)
(***************************************************************************)
EXTENDS OutboxDispatch, TLC

CONSTANTS u1, x1, x2, x3, t1, t2

\* All transactions are about one user.
MCPartitionKey == [t \in Transactions |-> u1]

\* One transaction that may insert two rows, as one location that enters one
\* area and leaves another does, and one that may insert one.
MCTransaction == [x \in Rows |-> IF x \in {x1, x2} THEN t1 ELSE t2]

\* A row of each transaction.
MCTransactionEach == [x \in Rows |-> IF x = x1 THEN t1 ELSE t2]

\* The rows of one transaction are interchangeable, and so are the instances.
MCSymmetry == Permutations({x1, x2}) \cup Permutations(Pollers)
=============================================================================
