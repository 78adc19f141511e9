----------------------------- MODULE OutboxRelay -----------------------------
(***************************************************************************)
(* What the outbox promises of each row, with no pollers, no batches and   *)
(* no failures: a committed row is sent, so often at most as the retries   *)
(* that were counted allow; it is closed when it has been sent, and        *)
(* nothing is sent or counted after that.                                  *)
(*                                                                         *)
(* OutboxDispatch implements this specification.                           *)
(***************************************************************************)
EXTENDS Naturals

CONSTANTS
    Rows,       \* ids of the outbox rows that may be inserted
    SendTries   \* how many copies one send may leave

VARIABLES
    visible,    \* the rows that some transaction has committed
    copies,     \* copies[x]: how many messages of x there are
    retries,    \* retries[x]: how many retries of x were counted
    closed      \* the rows that are done with

vars == <<visible, copies, retries, closed>>

Init ==
    /\ visible = {}
    /\ copies = [x \in Rows |-> 0]
    /\ retries = [x \in Rows |-> 0]
    /\ closed = {}

\* A transaction commits the rows B.
Commit(B) ==
    /\ B \cap visible = {}
    /\ visible' = visible \cup B
    /\ UNCHANGED <<copies, retries, closed>>

Open(x) == x \in visible \ closed

\* A message of x is sent: one of the first send, or of one that was counted.
Send(x) ==
    /\ Open(x)
    /\ copies[x] < SendTries * (retries[x] + 1)
    /\ copies' = [copies EXCEPT ![x] = @ + 1]
    /\ UNCHANGED <<visible, retries, closed>>

Retry(x) ==
    /\ Open(x)
    /\ retries' = [retries EXCEPT ![x] = @ + 1]
    /\ UNCHANGED <<visible, copies, closed>>

\* Row x has been sent and is never looked at again.
Close(x) ==
    /\ Open(x)
    /\ copies[x] > 0
    /\ closed' = closed \cup {x}
    /\ UNCHANGED <<visible, copies, retries>>

Next ==
    \/ \E B \in SUBSET Rows : Commit(B)
    \/ \E x \in Rows : Send(x) \/ Retry(x) \/ Close(x)

Spec == Init /\ [][Next]_vars
=============================================================================
