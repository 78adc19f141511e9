-------------------------- MODULE TransitionDelivery --------------------------
(***************************************************************************)
(* What the three services promise of a transition, with no tables, no     *)
(* pollers, no topic and no failures: the transitions of a location are    *)
(* recorded together, and each recorded transition gets one row in the     *)
(* log, in any order, in the end.  A transition that was never recorded is *)
(* never logged, and none is logged twice.                                 *)
(*                                                                         *)
(* GeofencePipeline implements this specification.                         *)
(***************************************************************************)
EXTENDS Naturals

CONSTANT Transitions    \* the transitions that may happen

VARIABLES
    recorded,   \* the transitions that the location service has recorded
    logRows     \* logRows[e]: the rows that the log has for e

vars == <<recorded, logRows>>

Init ==
    /\ recorded = {}
    /\ logRows = [e \in Transitions |-> 0]

\* A location changes the membership of its user.
Record(E) ==
    /\ E # {}
    /\ E \cap recorded = {}
    /\ recorded' = recorded \cup E
    /\ UNCHANGED logRows

\* A recorded transition is logged.
Log(e) ==
    /\ e \in recorded
    /\ logRows[e] = 0
    /\ logRows' = [logRows EXCEPT ![e] = 1]
    /\ UNCHANGED recorded

Next ==
    \/ \E E \in SUBSET Transitions : Record(E)
    \/ \E e \in Transitions : Log(e)

Spec == Init /\ [][Next]_vars

\* No recorded transition is left out for ever.
FairSpec == Spec /\ \A e \in Transitions : WF_vars(Log(e))
=============================================================================
