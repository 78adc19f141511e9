--------------------------- MODULE AreaTransitions ---------------------------
(***************************************************************************)
(* What location processing promises, with no requests in flight, no       *)
(* locks, no transactions and no failures: each user's locations are taken *)
(* one at a time in strictly increasing timestamp order, and taking one    *)
(* makes the user's membership exactly the observed set of areas, records  *)
(* one event for each area whose membership changed, and advances the      *)
(* watermark, all in a single step.                                        *)
(*                                                                         *)
(* LocationProcessing implements this specification.                       *)
(***************************************************************************)
EXTENDS UserAreaState

CONSTANTS
    Users,          \* user ids
    Areas,          \* area ids
    Requests,       \* identities of the requests that report a location
    Timestamps,     \* the timestamps a location may carry
    LegacyStamps    \* updated_at of rows that predate the watermark table

VARIABLES
    userAreaState,  \* userAreaState[u][a]: stamp of u's row for a, or NoRow
    watermark,      \* watermark[u]: newest timestamp taken, or NoRow
    outbox          \* the events recorded so far

vars == <<userAreaState, watermark, outbox>>

Init ==
    /\ userAreaState \in [Users -> [Areas -> LegacyStamps \cup {NoRow}]]
    /\ watermark = [u \in Users |-> NoRow]
    /\ outbox = {}

\* The location is newer than all that was taken for the user.
Newer(u, timestamp) ==
    /\ watermark[u] < timestamp
    /\ \A a \in Areas : userAreaState[u][a] < timestamp

\* The stamp of a row that stays is kept; a new row gets the location's.
Membership(u, current, timestamp) ==
    [a \in Areas |->
        IF a \notin current THEN NoRow
        ELSE IF userAreaState[u][a] = NoRow THEN timestamp
        ELSE userAreaState[u][a]]

Events(r, u, current, timestamp) ==
    OutboxInputs(r, [userId |-> u, timestamp |-> timestamp],
                 computeTransitions(Inside(userAreaState[u]), current))

\* Request r reports that user u is, at the timestamp, inside exactly `current`.
Observe(r, u, current, timestamp) ==
    /\ Newer(u, timestamp)
    /\ \A e \in outbox : e.request # r
    /\ userAreaState' =
         [userAreaState EXCEPT ![u] = Membership(u, current, timestamp)]
    /\ watermark' = [watermark EXCEPT ![u] = timestamp]
    /\ outbox' = outbox \cup Events(r, u, current, timestamp)

Next ==
    \E r \in Requests, u \in Users, current \in SUBSET Areas,
       timestamp \in Timestamps : Observe(r, u, current, timestamp)

Spec == Init /\ [][Next]_vars
=============================================================================
