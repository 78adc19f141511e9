-------------------------- MODULE ServiceBoundaries --------------------------
(***************************************************************************)
(* One input at a service's boundary: a request to create an area or to    *)
(* process a location, a message of the topic, or a readiness probe.  Each *)
(* behaviour handles one input of any shape, with the database in any      *)
(* condition, and records the answer and what was written.  After a        *)
(* request to create an area, a client may also list the areas.            *)
(*                                                                         *)
(* The rules are those of InputValidation.  What concurrent requests and   *)
(* deliveries do to the tables is the matter of LocationProcessing and     *)
(* LoggingConsumer; here the areas that a location makes the user enter    *)
(* and exit are part of the input.                                         *)
(***************************************************************************)
EXTENDS InputValidation

CONSTANTS
    AreaBodies,         \* bodies of POST /areas
    LocationBodies,     \* bodies of POST /locations
    Messages,           \* values of Kafka messages
    TransitionSets,     \* what an accepted location may turn out to change
    RequestId           \* the identity of the request

ASSUME NumberAssumption ==
    /\ \A body \in AreaBodies :
         /\ {body.centerLat.value, body.centerLon.value, body.radiusM.value}
              \subseteq Int
         /\ {body.name.length, body.name.padding} \subseteq Nat
         /\ body.name.nul \in BOOLEAN
    /\ \A body \in LocationBodies : {body.lat.value, body.lon.value} \subseteq Int
ASSUME StyleAssumption ==
    /\ \A body \in LocationBodies : body.userId.style \in Styles
    /\ \A m \in Messages : m.json \in {"object", "none", "null"}
                            /\ m.type.style \in Styles

\* A database that is up, that refuses, or that does the work unheard.
Database == {"up", "down", "unanswered"}

Services == {"geofence", "location", "logging"}

VARIABLES
    received,   \* the input, and the condition of the database
    answer,     \* the response, or what the consumer did with the message
    written     \* the rows inserted because of it

vars == <<received, answer, written>>

Nothing == [to |-> "nobody"]

Init ==
    /\ received = Nothing
    /\ answer = [status |-> 0, code |-> "none"]
    /\ written = {}

Waiting == received = Nothing

-----------------------------------------------------------------------------
Success(status) == [status |-> status, code |-> "none"]

\* A success with the summaries of areas as its body.
Summaries(status, areas) ==
    [status |-> status, code |-> "none", areas |-> areas]

Performed(db) == db # "down"

(***************************************************************************)
(* POST /areas: the DTO, the value objects, and an INSERT.  PostgreSQL     *)
(* holds no U+0000 in a text, which neither layer looks for.               *)
(***************************************************************************)
Area(body) ==
    [name      |-> AreaName(body.name),
     centerLat |-> toNumber(body.centerLat).value,
     centerLon |-> toNumber(body.centerLon).value,
     radiusM   |-> toNumber(body.radiusM).value]

AreaConstructed(body) ==
    /\ ~IsInvalid(AreaName(body.name))
    /\ GeoCircleValid(toNumber(body.centerLat), toNumber(body.centerLon),
                      toNumber(body.radiusM))

\* The INSERT is sent, and PostgreSQL refuses the text of the name.
Refused(area) == area.name.nul

\* What a client is told of an area, besides the row's own id and created_at.
summary(area) == [name |-> area.name]

\* A mutated form: the answer echoes the request.
CreatedFromBody(body) == summary([name |-> body.name])

\* The answer to a POST is made of what INSERT ... RETURNING gives back.
Created(body) == summary(Area(body))

createArea(body, db) ==
    /\ Waiting
    /\ received' = [to |-> "areas", body |-> body, db |-> db]
    /\ \/ /\ ~CreateAreaDto(body)
          /\ answer' = geofenceCatch("BadRequest")
          /\ UNCHANGED written
       \/ /\ CreateAreaDto(body) /\ ~AreaConstructed(body)
          /\ answer' = geofenceCatch("DomainValidationError")
          /\ UNCHANGED written
       \/ /\ CreateAreaDto(body) /\ AreaConstructed(body)
          /\ answer' = IF db = "up" /\ ~Refused(Area(body))
                         THEN Summaries(201, {Created(body)})
                         ELSE geofenceCatch("Error")
          /\ written' = IF Performed(db) /\ ~Refused(Area(body))
                         THEN {Area(body)} ELSE {}

(***************************************************************************)
(* GET /areas: the summaries of all rows.  The client may have sent a      *)
(* POST before, and the answer it got to that is kept.                     *)
(***************************************************************************)
findAllSummaries == {summary(area) : area \in written}

listAreas(db) ==
    /\ Waiting \/ received.to = "areas"
    /\ received' = [to |-> "list", db |-> db, before |-> answer]
    /\ answer' = IF db = "up" THEN Summaries(200, findAllSummaries)
                              ELSE geofenceCatch("Error")
    /\ UNCHANGED written

(***************************************************************************)
(* POST /locations, as far as the input decides: the lock key is hashtext  *)
(* of the text of the user id, the rows have the uuid the text stands for. *)
(***************************************************************************)
LocationAccepted(body) ==
    /\ ProcessLocationDto(body)
    /\ ~IsInvalid(UserId(body.userId))
    /\ GeoPointValid(toNumber(body.lat), toNumber(body.lon))
    /\ ~IsInvalid(LocationTimestamp(body.timestamp))

LocationCommand(body) ==
    [userId    |-> UserId(body.userId),
     timestamp |-> LocationTimestamp(body.timestamp)]

\* The text that the advisory lock, the partition key and the payload use.
LockText(body) == UserId(body.userId)

\* The value of the user_id column, after the cast to uuid.
UserColumn(body) == UserId(body.userId).of

OutboxPayloads(body, transitions) ==
    {Payload(e) : e \in OutboxInputs(RequestId, LocationCommand(body), transitions)}

processLocation(body, transitions, db) ==
    /\ Waiting
    /\ received' = [to |-> "locations", body |-> body, db |-> db,
                    transitions |-> transitions]
    /\ \/ /\ ~ProcessLocationDto(body)
          /\ answer' = locationCatch("BadRequest")
          /\ UNCHANGED written
       \/ /\ ProcessLocationDto(body) /\ ~LocationAccepted(body)
          /\ answer' = locationCatch("DomainValidationError")
          /\ UNCHANGED written
       \/ /\ LocationAccepted(body)
          /\ answer' = IF db = "up" THEN Success(200) ELSE locationCatch("Error")
          /\ written' = IF Performed(db) THEN OutboxPayloads(body, transitions)
                                         ELSE {}

(***************************************************************************)
(* eachMessage, with a database that is up: `logged`, `skipped` with its   *)
(* offset committed, or `thrown`, to be delivered again.                   *)
(***************************************************************************)
eachMessage(m) ==
    /\ Waiting
    /\ received' = [to |-> "topic", body |-> m, db |-> "up"]
    /\ \/ /\ KindOf(m) = "event"
          /\ answer' = [status |-> 0, code |-> "logged"]
          /\ written' = {LogRow(m)}
       \/ /\ KindOf(m) = "invalid"
          /\ answer' = [status |-> 0, code |-> "skipped"]
          /\ UNCHANGED written
       \/ /\ KindOf(m) = "poison"
          /\ answer' = [status |-> 0, code |-> "thrown"]
          /\ UNCHANGED written

\* GET /health: one query, and a 503 when it throws.
Catch(service, exception) ==
    CASE service = "geofence" -> geofenceCatch(exception)
      [] service = "location" -> locationCatch(exception)
      [] service = "logging"  -> loggingCatch(exception)

check(service, db) ==
    /\ Waiting
    /\ received' = [to |-> service, db |-> db]
    /\ answer' = IF db = "up" THEN Success(200)
                 ELSE Catch(service, "ServiceUnavailable")
    /\ UNCHANGED written

Next ==
    \/ \E body \in AreaBodies, db \in Database : createArea(body, db)
    \/ \E db \in Database : listAreas(db)
    \/ \E body \in LocationBodies, t \in TransitionSets, db \in Database :
         processLocation(body, t, db)
    \/ \E m \in Messages : eachMessage(m)
    \/ \E service \in Services, db \in Database : check(service, db)

Spec == Init /\ [][Next]_vars

-----------------------------------------------------------------------------
(***************************************************************************)
(* What the documents ask of an input, said without the code's layers: the *)
(* name of an area is something besides blanks and, as it was sent, no     *)
(* longer than its limit.                                                  *)
(***************************************************************************)
Within(low, value, high) == value \in Int /\ low <= value /\ value <= high

WellFormedArea(body) ==
    /\ body.name.form = "string" /\ body.name.length >= 1
    /\ Within(1, body.name.length + body.name.padding, 120)
    /\ toNumber(body.centerLat).form = "number"
    /\ Within(-90, toNumber(body.centerLat).value, 90)
    /\ toNumber(body.centerLon).form = "number"
    /\ Within(-180, toNumber(body.centerLon).value, 180)
    /\ toNumber(body.radiusM).form = "number"
    /\ Within(1, toNumber(body.radiusM).value, 100000)

WellFormedLocation(body) ==
    /\ body.userId.form = "uuid" /\ body.userId.style # "padded"
    /\ toNumber(body.lat).form = "number"
    /\ Within(-90, toNumber(body.lat).value, 90)
    /\ toNumber(body.lon).form = "number"
    /\ Within(-180, toNumber(body.lon).value, 180)
    /\ body.timestamp.form = "iso"

\* A message that stands for a row: three ids, a type, and a moment, however
\* that is written.
LoggableMessage(m) ==
    /\ m.json = "object"
    /\ m.eventId.form = "uuid"
    /\ m.userId.form = "uuid"
    /\ m.areaId.form = "uuid"
    /\ m.type.form = "word"
    /\ m.type.of \in {UserEnteredArea, UserExitedArea}
    /\ m.type.style # "upper"
    /\ m.timestamp.form \in {"iso", "dateText"}

(***************************************************************************)
(* A request is answered 400 exactly when what it says is not well-formed, *)
(* and then nothing was written; and it is answered 500 only if its        *)
(* database does not work, or cannot hold the text, and in that case too   *)
(* nothing was written.  An input that one layer lets through must be      *)
(* stopped by the next, and the filter must recognise the error of every   *)
(* layer.                                                                  *)
(***************************************************************************)
WellFormed ==
    CASE received.to = "areas"     -> WellFormedArea(received.body)
      [] received.to = "locations" -> WellFormedLocation(received.body)
      [] OTHER                     -> TRUE

Unstorable == received.to = "areas" /\ received.body.name.nul

FaultIsAttributed ==
    /\ received.to \in {"areas", "locations"} =>
         /\ answer = [status |-> 400, code |-> "VALIDATION_ERROR"]
              <=> ~WellFormed
         /\ ~WellFormed \/ Unstorable => written = {}
         /\ WellFormed /\ Unstorable => answer.status = 500
    /\ answer.status >= 500 => received.db # "up" \/ Unstorable
    /\ received.to \in {"location", "logging"} /\ answer.status # 200
         => answer.code = "SERVICE_UNAVAILABLE"

\* An area row has a trimmed name that its column holds, and a real circle.
StoredAreaIsValid ==
    received.to \in {"areas", "list"} =>
        \A area \in written :
            /\ Within(1, area.name.length, 120)
            /\ area.name.padding = 0
            /\ Within(-90, area.centerLat, 90)
            /\ Within(-180, area.centerLon, 180)
            /\ Within(1, area.radiusM, 100000)

(***************************************************************************)
(* GET /areas agrees with the answer to the POST before it: what was said  *)
(* to be created is listed as it was described, and what was refused is    *)
(* not there.  Only an internal error leaves the client to find out.       *)
(***************************************************************************)
ListingMatchesAnswer ==
    received.to = "list" /\ answer.status = 200 =>
        /\ received.before.status = 201 => answer.areas = received.before.areas
        /\ answer.areas # {} => received.before.status \in {201, 500}

(***************************************************************************)
(* The lock and the partition key are texts, the rows are keyed by uuids,  *)
(* which PostgreSQL compares without regard to case.  Two requests that    *)
(* write the same rows must take the same lock and use the same partition, *)
(* however their clients write the user id.                                *)
(***************************************************************************)
SameRowSameLock ==
    received.to = "locations" =>
        \A other \in LocationBodies :
            LocationAccepted(received.body) /\ LocationAccepted(other)
                => (UserColumn(received.body) = UserColumn(other)
                      <=> LockText(received.body) = LockText(other))

(***************************************************************************)
(* The contract between the services: whatever an accepted location makes  *)
(* the location service send, the logging service neither skips nor chokes *)
(* on, and it logs the user, the area, the type and the time of it.        *)
(***************************************************************************)
RowFor(body, area, type) ==
    [event_id    |-> <<RequestId, area>>,
     user_id     |-> body.userId.of,
     area_id     |-> area,
     event_type  |-> type,
     occurred_at |-> body.timestamp.of]

ExpectedRows(body, transitions) ==
    {RowFor(body, a, UserEnteredArea) : a \in transitions.enteredAreaIds}
    \cup
    {RowFor(body, a, UserExitedArea) : a \in transitions.exitedAreaIds}

ContractKept ==
    received.to = "locations" =>
        /\ \A m \in written : KindOf(m) = "event"
        /\ answer.status = 200
             => {LogRow(m) : m \in written}
                  = ExpectedRows(received.body, received.transitions)

(***************************************************************************)
(* Skipping commits the offset and so loses the message for good: it must  *)
(* not happen to a message that stands for a row, nor may one that does    *)
(* block the partition; and nothing else is logged.  The moment need not   *)
(* be written in ISO 8601: EventOccurredAt takes whatever Date parses.     *)
(***************************************************************************)
NothingLoggableIsSkipped ==
    received.to = "topic" =>
        (answer.code = "logged" <=> LoggableMessage(received.body))
=============================================================================
