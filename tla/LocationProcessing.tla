-------------------------- MODULE LocationProcessing --------------------------
(***************************************************************************)
(* POST /locations of the location service: concurrent requests, each of   *)
(* which runs ProcessLocationUseCase.execute against PostgreSQL.           *)
(*                                                                         *)
(* A request first asks PostGIS which areas contain the reported point,    *)
(* outside any transaction, and then opens a transaction that takes the    *)
(* advisory lock of its user, checks that the location is not stale, loads *)
(* the user's membership rows, and writes the changed rows, one outbox row *)
(* per change, and the user's watermark.  Every await of the handler ends  *)
(* a step, so any two requests interleave between any two queries.         *)
(*                                                                         *)
(* The transaction runs at READ COMMITTED: what it wrote is visible to the *)
(* others only from its commit on, and a guarded write is evaluated        *)
(* against the row's committed version.  The statements a transaction has  *)
(* executed are therefore kept in `writes` and take effect in its commit.  *)
(***************************************************************************)
EXTENDS UserAreaState, FiniteSets

CONSTANTS
    Users,          \* user ids
    Areas,          \* ids of the areas that can ever exist
    Points,         \* the points a location may report
    Covers,         \* Covers[p]: the areas whose boundary covers p (ST_Covers)
    LockKeys,       \* the 32-bit keys of the advisory locks
    hashtext,       \* hashtext[u]: the lock key of a user; not injective
    Requests,       \* one identity per HTTP request
    NoRequest,      \* the owner of a free lock
    NoCommand,      \* the command of a request that was not received
    Timestamps,     \* the timestamps a location may carry
    LegacyStamps,   \* updated_at of rows that predate the watermark table
    PoolSize        \* database connections of one service instance

ASSUME CoversAssumption   == Covers \in [Points -> SUBSET Areas]
ASSUME HashtextAssumption == hashtext \in [Users -> LockKeys]
ASSUME RequestAssumption  == NoRequest \notin Requests
ASSUME CommandAssumption  ==
    NoCommand \notin [userId : Users, point : Points, timestamp : Timestamps]
ASSUME StampAssumption    == /\ Timestamps \subseteq Nat \ {NoRow}
                             /\ LegacyStamps \subseteq Nat \ {NoRow}
ASSUME PoolAssumption     == PoolSize \in Nat \ {0}

VARIABLES
    areas,          \* the rows of geofence.areas: the areas created so far
    userAreaState,  \* userAreaState[u][a]: updated_at of the row, or NoRow
    watermark,      \* watermark[u]: last_processed_at, or NoRow
    outbox,         \* the committed rows of location.outbox_events
    pc,             \* pc[r]: where the handler of r stands
    cmd,            \* cmd[r]: the command of r
    seen,           \* seen[r]: currentInsideSet, the answer of the spatial query
    transitions,    \* transitions[r]: computed transitions; once done, the response
    writes,         \* writes[r]: tables the open transaction of r has written
    lock            \* lock[k]: the request that holds advisory lock k

tables   == <<areas, userAreaState, watermark, outbox>>
requests == <<pc, cmd, seen, transitions, writes>>
vars     == <<areas, userAreaState, watermark, outbox,
              pc, cmd, seen, transitions, writes, lock>>

Command == [userId : Users, point : Points, timestamp : Timestamps]

\* A transaction that owns its user's advisory lock, by its next statement.
Holding == {"locked", "loading", "applying", "inserting", "advancing",
            "committing"}

InTransaction == Holding \cup {"waiting"}

InFlight == InTransaction \cup {"received", "queried"}

Transitions == [enteredAreaIds : SUBSET Areas, exitedAreaIds : SUBSET Areas]

OutboxEvent == [request : Requests, userId : Users, areaId : Areas,
                type : {UserEnteredArea, UserExitedArea},
                timestamp : Timestamps]

TypeOK ==
    /\ areas \subseteq Areas
    /\ userAreaState \in
         [Users -> [Areas -> Timestamps \cup LegacyStamps \cup {NoRow}]]
    /\ watermark \in [Users -> Timestamps \cup {NoRow}]
    /\ outbox \subseteq OutboxEvent
    /\ pc \in [Requests -> InFlight \cup {"new", "done", "failed"}]
    /\ cmd \in [Requests -> Command \cup {NoCommand}]
    /\ seen \in [Requests -> SUBSET Areas]
    /\ transitions \in [Requests -> Transitions]
    /\ writes \in [Requests -> SUBSET {"state", "outbox", "watermark"}]
    /\ lock \in [LockKeys -> Requests \cup {NoRequest}]

(***************************************************************************)
(* At the start no request was sent.  Membership rows written before the   *)
(* watermark table was introduced may exist, for existing areas, without a *)
(* watermark.                                                              *)
(***************************************************************************)
Init ==
    /\ areas \in SUBSET Areas
    /\ userAreaState \in [Users -> [Areas -> LegacyStamps \cup {NoRow}]]
    /\ \A u \in Users : Inside(userAreaState[u]) \subseteq areas
    /\ watermark = [u \in Users |-> NoRow]
    /\ outbox = {}
    /\ pc = [r \in Requests |-> "new"]
    /\ cmd = [r \in Requests |-> NoCommand]
    /\ seen = [r \in Requests |-> {}]
    /\ transitions = [r \in Requests |-> NoTransitions]
    /\ writes = [r \in Requests |-> {}]
    /\ lock = [k \in LockKeys |-> NoRequest]

-----------------------------------------------------------------------------
Key(r) == hashtext[cmd[r].userId]

Goto(r, label) == pc' = [pc EXCEPT ![r] = label]

FreeConnection ==
    Cardinality({r \in Requests : pc[r] \in InTransaction}) < PoolSize

(***************************************************************************)
(* Mutated forms of definitions below.                                     *)
(***************************************************************************)
\* No advisory lock: a transaction starts whoever else is in one.
AlwaysAvailable(k) == TRUE

\* The outbox rows are inserted on a connection of their own, not in the
\* transaction, and are visible at once.
InsertBatchOutsideTransaction(r) ==
    /\ pc[r] = "inserting"
    /\ outbox' = outbox \cup OutboxInputs(r, cmd[r], transitions[r])
    /\ Goto(r, "advancing")
    /\ UNCHANGED <<areas, userAreaState, watermark, cmd, seen, transitions,
                   writes, lock>>

\* There is no watermark check.
CheckNothing(r) ==
    /\ pc[r] = "locked"
    /\ Goto(r, "loading")
    /\ UNCHANGED <<tables, cmd, seen, transitions, writes, lock>>

\* The callback returns early when there are no transitions.
LoadAndReturnEarly(r) ==
    LET rows == userAreaState[cmd[r].userId]
        computed == computeTransitions(Inside(rows), seen[r])
    IN  /\ pc[r] = "loading"
        /\ IF HasNewerRow(rows, cmd[r].timestamp) \/ ~hasTransitions(computed)
             THEN /\ Goto(r, "committing")
                  /\ UNCHANGED transitions
             ELSE /\ Goto(r, "applying")
                  /\ transitions' = [transitions EXCEPT ![r] = computed]
        /\ UNCHANGED <<tables, cmd, seen, writes, lock>>

\* The rows are loaded on a second connection from the pool.
LoadFromThePool(r) ==
    LET rows == userAreaState[cmd[r].userId]
        computed == computeTransitions(Inside(rows), seen[r])
    IN  /\ pc[r] = "loading"
        /\ FreeConnection
        /\ Goto(r, IF HasNewerRow(rows, cmd[r].timestamp) THEN "committing"
                   ELSE IF hasTransitions(computed) THEN "applying"
                   ELSE "advancing")
        /\ transitions' = IF HasNewerRow(rows, cmd[r].timestamp)
                            THEN transitions
                            ELSE [transitions EXCEPT ![r] = computed]
        /\ UNCHANGED <<tables, cmd, seen, writes, lock>>

\* pg_advisory_xact_lock waits while another transaction holds the key.
LockAvailable(k) == lock[k] = NoRequest

\* The advisory lock is released by the end of the transaction that holds it.
Release(r) ==
    lock' = [k \in LockKeys |-> IF lock[k] = r THEN NoRequest ELSE lock[k]]

\* The geofence service inserts an area; areas are never changed or deleted.
CreateArea(a) ==
    /\ a \notin areas
    /\ areas' = areas \cup {a}
    /\ UNCHANGED <<userAreaState, watermark, outbox, requests, lock>>

(***************************************************************************)
(* The handler of request r.                                               *)
(***************************************************************************)
\* The request arrives and its value objects are valid.
Receive(r) ==
    /\ pc[r] = "new"
    /\ \E c \in Command : cmd' = [cmd EXCEPT ![r] = c]
    /\ Goto(r, "received")
    /\ UNCHANGED <<tables, seen, transitions, writes, lock>>

\* A value object throws: 400, and no table was touched.
Reject(r) ==
    /\ pc[r] = "new"
    /\ Goto(r, "failed")
    /\ UNCHANGED <<tables, cmd, seen, transitions, writes, lock>>

\* The spatial query, outside the transaction and before the lock.
findContainingAreaIds(r) ==
    /\ pc[r] = "received"
    /\ FreeConnection
    /\ seen' = [seen EXCEPT ![r] = areas \cap Covers[cmd[r].point]]
    /\ Goto(r, "queried")
    /\ UNCHANGED <<tables, cmd, transitions, writes, lock>>

\* BEGIN: the transaction keeps its connection while it waits for the lock.
BeginTransaction(r) ==
    /\ pc[r] = "queried"
    /\ FreeConnection
    /\ Goto(r, "waiting")
    /\ UNCHANGED <<tables, cmd, seen, transitions, writes, lock>>

AcquireLock(r) ==
    /\ pc[r] = "waiting"
    /\ LockAvailable(Key(r))
    /\ lock' = [lock EXCEPT ![Key(r)] = r]
    /\ Goto(r, "locked")
    /\ UNCHANGED <<tables, cmd, seen, transitions, writes>>

\* 2a. A stale location leaves the callback with no transitions and no write.
CheckWatermark(r) ==
    /\ pc[r] = "locked"
    /\ IF IsStale(watermark[cmd[r].userId], cmd[r].timestamp)
         THEN Goto(r, "committing")
         ELSE Goto(r, "loading")
    /\ UNCHANGED <<tables, cmd, seen, transitions, writes, lock>>

\* 2b-2d. Load the rows, check them for staleness, compute the transitions.
LoadInsideAreas(r) ==
    LET rows == userAreaState[cmd[r].userId]
        computed == computeTransitions(Inside(rows), seen[r])
    IN  /\ pc[r] = "loading"
        /\ IF HasNewerRow(rows, cmd[r].timestamp)
             THEN /\ Goto(r, "committing")
                  /\ UNCHANGED transitions
             ELSE /\ Goto(r, IF hasTransitions(computed) THEN "applying"
                                                         ELSE "advancing")
                  /\ transitions' = [transitions EXCEPT ![r] = computed]
        /\ UNCHANGED <<tables, cmd, seen, writes, lock>>

\* 2e. DELETE and INSERT of membership rows, in the open transaction.
ApplyState(r) ==
    /\ pc[r] = "applying"
    /\ writes' = [writes EXCEPT ![r] = @ \cup {"state"}]
    /\ Goto(r, "inserting")
    /\ UNCHANGED <<tables, cmd, seen, transitions, lock>>

\* 2f-2g. INSERT of the outbox rows, in the same transaction.
InsertBatch(r) ==
    /\ pc[r] = "inserting"
    /\ writes' = [writes EXCEPT ![r] = @ \cup {"outbox"}]
    /\ Goto(r, "advancing")
    /\ UNCHANGED <<tables, cmd, seen, transitions, lock>>

\* 2h. Upsert of the watermark: the last statement of the callback.
AdvanceWatermark(r) ==
    /\ pc[r] = "advancing"
    /\ writes' = [writes EXCEPT ![r] = @ \cup {"watermark"}]
    /\ Goto(r, "committing")
    /\ UNCHANGED <<tables, cmd, seen, transitions, lock>>

\* COMMIT: every statement of the transaction takes effect, the lock is freed.
ApplyWrites(r) ==
    LET u == cmd[r].userId
        t == cmd[r].timestamp
    IN  /\ userAreaState' =
             IF "state" \in writes[r]
               THEN [userAreaState EXCEPT
                       ![u] = applyStateChanges(@, transitions[r], t)]
               ELSE userAreaState
        /\ outbox' =
             IF "outbox" \in writes[r]
               THEN outbox \cup OutboxInputs(r, cmd[r], transitions[r])
               ELSE outbox
        /\ watermark' =
             IF "watermark" \in writes[r]
               THEN [watermark EXCEPT ![u] = upsertWatermark(@, t)]
               ELSE watermark
        /\ writes' = [writes EXCEPT ![r] = {}]
        /\ seen' = [seen EXCEPT ![r] = {}]
        /\ Release(r)
        /\ UNCHANGED <<areas, cmd>>

\* The commit succeeds and the response reports the transitions.
Commit(r) ==
    /\ pc[r] = "committing"
    /\ ApplyWrites(r)
    /\ Goto(r, "done")
    /\ UNCHANGED transitions

\* The commit succeeds but its acknowledgement is lost: the client gets an error.
CommitUnacked(r) ==
    /\ pc[r] = "committing"
    /\ ApplyWrites(r)
    /\ Goto(r, "failed")
    /\ transitions' = [transitions EXCEPT ![r] = NoTransitions]

(***************************************************************************)
(* The request ends in an error before its commit: a query fails, no       *)
(* connection comes free within maxWait, the transaction exceeds its       *)
(* timeout, or the process dies.  The database rolls the transaction back, *)
(* which frees the lock.                                                   *)
(***************************************************************************)
Fail(r) ==
    /\ pc[r] \in InFlight
    /\ Goto(r, "failed")
    /\ seen' = [seen EXCEPT ![r] = {}]
    /\ transitions' = [transitions EXCEPT ![r] = NoTransitions]
    /\ writes' = [writes EXCEPT ![r] = {}]
    /\ Release(r)
    /\ UNCHANGED <<tables, cmd>>

\* The steps the handler takes by itself when nothing goes wrong.
Handle(r) ==
    \/ findContainingAreaIds(r)
    \/ BeginTransaction(r)
    \/ AcquireLock(r)
    \/ CheckWatermark(r)
    \/ LoadInsideAreas(r)
    \/ ApplyState(r)
    \/ InsertBatch(r)
    \/ AdvanceWatermark(r)
    \/ Commit(r)

Next ==
    \/ \E a \in Areas : CreateArea(a)
    \/ \E r \in Requests :
         \/ Receive(r)
         \/ Reject(r)
         \/ Handle(r)
         \/ CommitUnacked(r)
         \/ Fail(r)

Spec == Init /\ [][Next]_vars

(***************************************************************************)
(* The case in which nobody creates an area while requests run: all areas  *)
(* exist from the start.                                                   *)
(***************************************************************************)
FixedAreasInit == Init /\ areas = Areas

FixedAreasSpec == FixedAreasInit /\ [][Next]_vars

(***************************************************************************)
(* The event loop and the database serve every request that is in flight;  *)
(* nothing says that a request arrives or that one fails.                  *)
(***************************************************************************)
FixedAreasFairSpec ==
    FixedAreasSpec /\ \A r \in Requests : WF_vars(Handle(r))

-----------------------------------------------------------------------------
(***************************************************************************)
(* Safety.                                                                 *)
(***************************************************************************)
About(e, u, a) == e.userId = u /\ e.areaId = a

(***************************************************************************)
(* No duplicate ENTER and no duplicate EXIT: between two events of one     *)
(* type for a user and an area there is one of the other type.  It is what *)
(* the advisory lock and the stale checks are for: two concurrent requests *)
(* of a user that both saw "outside" must not both record an ENTER.        *)
(***************************************************************************)
EventsAlternate ==
    \A e, f \in outbox :
        (/\ About(f, e.userId, e.areaId)
         /\ f.type = e.type
         /\ e.timestamp < f.timestamp)
        => \E g \in outbox :
              /\ About(g, e.userId, e.areaId)
              /\ g.type # e.type
              /\ e.timestamp < g.timestamp
              /\ g.timestamp < f.timestamp

(***************************************************************************)
(* The outbox tells the state: the newest event of a user and an area is   *)
(* an ENTER exactly when the membership row exists.  A guarded DELETE or   *)
(* upsert that is skipped while its event is written breaks it.            *)
(***************************************************************************)
MembershipMatchesEvents ==
    \A e \in outbox :
        (\A f \in outbox : About(f, e.userId, e.areaId)
                              => f.timestamp <= e.timestamp)
        => (e.type = UserEnteredArea
              <=> e.areaId \in Inside(userAreaState[e.userId]))

(***************************************************************************)
(* Replays are inert: all the events of a user that carry one timestamp    *)
(* come from one request, so a retry after a lost answer, or two requests  *)
(* with the same timestamp, never record transitions twice.                *)
(***************************************************************************)
OneRequestPerTimestamp ==
    \A e, f \in outbox :
        e.userId = f.userId /\ e.timestamp = f.timestamp
            => e.request = f.request

(***************************************************************************)
(* A response reports exactly the transitions that are in the outbox, and  *)
(* a request that did not reach its end has left nothing there.            *)
(***************************************************************************)
Recorded(r, type) ==
    {e.areaId : e \in {f \in outbox : f.request = r /\ f.type = type}}

ResponseMatchesOutbox ==
    \A r \in Requests :
        /\ pc[r] = "done" =>
             /\ Recorded(r, UserEnteredArea) = transitions[r].enteredAreaIds
             /\ Recorded(r, UserExitedArea) = transitions[r].exitedAreaIds
        /\ pc[r] \notin {"done", "failed"} =>
             Recorded(r, UserEnteredArea) \cup Recorded(r, UserExitedArea) = {}

(***************************************************************************)
(* A location that was answered with 200 is accounted for: the watermark   *)
(* has reached it, unless a row that predates the watermark is newer still *)
(* and made it stale.  A location taken without transitions counts too: it *)
(* must make older locations stale even when no row is left to show it.    *)
(***************************************************************************)
AnsweredIsAccountedFor ==
    \A r \in Requests :
        pc[r] = "done" =>
            LET u == cmd[r].userId
                t == cmd[r].timestamp
            IN  watermark[u] >= t \/ HasNewerRow(userAreaState[u], t)

(***************************************************************************)
(* The following two hold while no area is created behind the back of a    *)
(* request.  The first: the membership of a user is what PostGIS says of   *)
(* the newest location taken, whatever the order in which the requests     *)
(* arrived, were scheduled and failed.                                     *)
(***************************************************************************)
MembershipIsNewestLocation ==
    \A u \in Users :
        watermark[u] # NoRow =>
            \E r \in Requests :
                /\ pc[r] \in {"done", "failed"}
                /\ cmd[r] # NoCommand
                /\ cmd[r].userId = u
                /\ cmd[r].timestamp = watermark[u]
                /\ Inside(userAreaState[u]) = areas \cap Covers[cmd[r].point]

\* The second: an EXIT is recorded only for an area that the point is not in.
ExitMeansOutside ==
    \A e \in outbox :
        e.type = UserExitedArea => e.areaId \notin Covers[cmd[e.request].point]

(***************************************************************************)
(* Action property: state and intent are one write.  A step that changes   *)
(* whether a user is inside an area adds one event for that change, and a  *)
(* step that adds an event makes its change; no event is ever removed.     *)
(***************************************************************************)
Added(u, a) == {e \in outbox' \ outbox : About(e, u, a)}

AtomicDualWrite ==
    /\ outbox \subseteq outbox'
    /\ \A u \in Users, a \in Areas :
         LET before == userAreaState[u][a] # NoRow
             after  == userAreaState'[u][a] # NoRow
         IN  CASE ~before /\ after -> {e.type : e \in Added(u, a)} = {UserEnteredArea}
               [] before /\ ~after -> {e.type : e \in Added(u, a)} = {UserExitedArea}
               [] OTHER            -> Added(u, a) = {}

DualWriteAtomic == [][AtomicDualWrite]_vars

(***************************************************************************)
(* The service implements the one-location-at-a-time specification.        *)
(***************************************************************************)
A == INSTANCE AreaTransitions WITH
        Users <- Users, Areas <- Areas, Requests <- Requests,
        Timestamps <- Timestamps, LegacyStamps <- LegacyStamps,
        userAreaState <- userAreaState, watermark <- watermark,
        outbox <- outbox

ImplementsTransitions == A!Spec

(***************************************************************************)
(* Liveness: a request that is in flight is answered, whatever requests    *)
(* wait for the same lock and however few connections there are.  A        *)
(* connection is held while its transaction waits for the lock, so a pool  *)
(* smaller than the number of waiting requests must not block the one that *)
(* has the lock.                                                           *)
(***************************************************************************)
EveryRequestAnswered ==
    \A r \in Requests : pc[r] = "received" ~> pc[r] \in {"done", "failed"}

-----------------------------------------------------------------------------
(***************************************************************************)
(* The inductive invariant behind the safety properties.                   *)
(***************************************************************************)
\* Only a request that was rejected, or never received, has no command.
CommandKnown ==
    \A r \in Requests : pc[r] \in InFlight \cup {"done"} => cmd[r] \in Command

\* Mutual exclusion: at most one transaction per lock key is past the lock.
LockOwned ==
    \A r \in Requests : pc[r] \in Holding => lock[Key(r)] = r

\* The transaction of r has decided to take the location of r.
Decided(r) ==
    \/ pc[r] \in {"applying", "inserting", "advancing"}
    \/ pc[r] = "committing" /\ writes[r] # {}

\* The tables a transaction has written follow from where it stands.
StatementsOf(r) ==
    IF hasTransitions(transitions[r]) THEN {"state", "outbox"} ELSE {}

WritesFollowControl ==
    \A r \in Requests :
        /\ ~Decided(r) => writes[r] = {}
        /\ ~Decided(r) /\ pc[r] # "done" => transitions[r] = NoTransitions
        /\ pc[r] \in {"applying", "inserting"} => hasTransitions(transitions[r])
        /\ pc[r] = "applying" => writes[r] = {}
        /\ pc[r] = "inserting" => writes[r] = {"state"}
        /\ pc[r] = "advancing" => writes[r] = StatementsOf(r)
        /\ pc[r] = "committing" /\ Decided(r)
             => writes[r] = StatementsOf(r) \cup {"watermark"}

\* What a transaction has read stays true until it ends: nobody else writes.
ReadsValid(r) ==
    LET u == cmd[r].userId
        t == cmd[r].timestamp
    IN  /\ pc[r] = "loading" => watermark[u] < t
        /\ pc[r] = "committing" /\ ~Decided(r)
             => watermark[u] >= t \/ HasNewerRow(userAreaState[u], t)
        /\ Decided(r) =>
             /\ watermark[u] < t
             /\ \A a \in Areas : userAreaState[u][a] < t
             /\ transitions[r] =
                  computeTransitions(Inside(userAreaState[u]), seen[r])

ReadsStayValid == \A r \in Requests : ReadsValid(r)

\* Every event belongs to a finished request and is not above the watermark.
EventsAreTaken ==
    \A e \in outbox :
        /\ pc[e.request] \in {"done", "failed"}
        /\ cmd[e.request] \in Command
        /\ cmd[e.request].userId = e.userId
        /\ cmd[e.request].timestamp = e.timestamp
        /\ e.timestamp <= watermark[e.userId]

\* The events of a request are the outbox rows of the transitions it computed.
EventsOfRequest ==
    \A r \in Requests :
        LET recorded == {e \in outbox : e.request = r}
        IN  /\ pc[r] = "done"
                 => recorded = OutboxInputs(r, cmd[r], transitions[r])
            /\ pc[r] \notin {"done", "failed"} => recorded = {}

\* An event that the membership row contradicts was undone by a later event.
UndoneByLater(e) ==
    \E g \in outbox :
        /\ About(g, e.userId, e.areaId)
        /\ g.type # e.type
        /\ e.timestamp < g.timestamp

EventsExplainRows ==
    \A e \in outbox :
        (e.type = UserEnteredArea
            <=> userAreaState[e.userId][e.areaId] = NoRow)
        => UndoneByLater(e)

IInv ==
    /\ TypeOK
    /\ CommandKnown
    /\ LockOwned
    /\ WritesFollowControl
    /\ ReadsStayValid
    /\ EventsAreTaken
    /\ EventsExplainRows
    /\ EventsAlternate
    /\ OneRequestPerTimestamp
    /\ EventsOfRequest
    /\ AnsweredIsAccountedFor

\* What the two properties about fixed areas need besides: the areas a request
\* found are those that contain its point, whenever it looked.
SeenIsCurrent ==
    \A r \in Requests :
        pc[r] \in InTransaction \cup {"queried"}
            => seen[r] = Areas \cap Covers[cmd[r].point]

FixedAreasInv ==
    /\ IInv
    /\ areas = Areas
    /\ SeenIsCurrent
    /\ MembershipIsNewestLocation
    /\ ExitMeansOutside
=============================================================================
