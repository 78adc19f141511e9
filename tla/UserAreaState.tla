---------------------------- MODULE UserAreaState ----------------------------
(***************************************************************************)
(* The pure part of location processing: what one accepted location does   *)
(* to a user's membership rows, to the user's watermark and to the outbox. *)
(*                                                                         *)
(* A user's rows in location.user_area_state are a function from areas to  *)
(* the row's updated_at; the table stores only INSIDE rows, so an area     *)
(* without a row maps to NoRow.  Timestamps are positive naturals: the     *)
(* code compares them and nothing else.  NoRow is below all of them, which *)
(* lets one comparison stand for both "INSERT" and "ON CONFLICT DO UPDATE  *)
(* ... WHERE updated_at <= EXCLUDED.updated_at".                           *)
(***************************************************************************)
EXTENDS Naturals

NoRow == 0

\* The areas a user's rows say the user is inside.
Inside(rows) == {a \in DOMAIN rows : rows[a] # NoRow}

(***************************************************************************)
(* Mutated forms of the definitions below: faults that the properties of   *)
(* the modules that use them must notice.                                  *)
(***************************************************************************)
\* The operands of both differences are swapped.
SwappedTransitions(previous, current) ==
    [enteredAreaIds |-> previous \ current,
     exitedAreaIds  |-> current \ previous]

\* An equal timestamp is not stale: a replay passes the watermark.
IsStaleLax(watermark, timestamp) ==
    watermark # NoRow /\ watermark > timestamp

\* An equal timestamp does not count as newer in the fallback check.
HasNewerRowLax(rows, timestamp) ==
    \E a \in Inside(rows) : rows[a] > timestamp

\* The guard of the DELETE is turned round, so old rows are never deleted.
DeleteNewerOnly(rows, exited, timestamp) ==
    [a \in DOMAIN rows |->
        IF a \in exited /\ rows[a] > timestamp THEN NoRow ELSE rows[a]]

(***************************************************************************)
(* UserAreaState.computeTransitions: ENTER is current minus previous, EXIT *)
(* is previous minus current.                                              *)
(***************************************************************************)
computeTransitions(previous, current) ==
    [enteredAreaIds |-> current \ previous,
     exitedAreaIds  |-> previous \ current]

NoTransitions == computeTransitions({}, {})

hasTransitions(transitions) ==
    transitions.enteredAreaIds \cup transitions.exitedAreaIds # {}

(***************************************************************************)
(* The two stale checks: against the user's watermark, when there is one,  *)
(* and against the newest membership row, when there is a row.             *)
(***************************************************************************)
IsStale(watermark, timestamp) ==
    watermark # NoRow /\ watermark >= timestamp

HasNewerRow(rows, timestamp) ==
    \E a \in Inside(rows) : rows[a] >= timestamp

(***************************************************************************)
(* applyStateChanges: a guarded DELETE of the exited rows, then a guarded  *)
(* upsert of the entered ones.                                             *)
(***************************************************************************)
DeleteExited(rows, exited, timestamp) ==
    [a \in DOMAIN rows |->
        IF a \in exited /\ rows[a] <= timestamp THEN NoRow ELSE rows[a]]

UpsertEntered(rows, entered, timestamp) ==
    [a \in DOMAIN rows |->
        IF a \in entered /\ rows[a] <= timestamp THEN timestamp ELSE rows[a]]

applyStateChanges(rows, transitions, timestamp) ==
    UpsertEntered(DeleteExited(rows, transitions.exitedAreaIds, timestamp),
                  transitions.enteredAreaIds, timestamp)

\* upsertWatermark: an insert on a clean start, else an update that only advances.
upsertWatermark(watermark, timestamp) ==
    IF watermark < timestamp THEN timestamp ELSE watermark

(***************************************************************************)
(* The outbox rows of one request.  The fresh uuid of an event is stood    *)
(* for by the pair of the request and the area: one request makes at most  *)
(* one event per area.                                                     *)
(***************************************************************************)
UserEnteredArea == "UserEnteredArea"
UserExitedArea  == "UserExitedArea"

DomainEvent(request, command, area, type) ==
    [request   |-> request,
     userId    |-> command.userId,
     areaId    |-> area,
     type      |-> type,
     timestamp |-> command.timestamp]

\* A mutated form: the loop over the exited areas is missing.
EnteredInputsOnly(request, command, transitions) ==
    {DomainEvent(request, command, a, UserEnteredArea) :
        a \in transitions.enteredAreaIds}

OutboxInputs(request, command, transitions) ==
    {DomainEvent(request, command, a, UserEnteredArea) :
        a \in transitions.enteredAreaIds}
    \cup
    {DomainEvent(request, command, a, UserExitedArea) :
        a \in transitions.exitedAreaIds}
=============================================================================
