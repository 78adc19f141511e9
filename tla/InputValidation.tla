--------------------------- MODULE InputValidation ---------------------------
(***************************************************************************)
(* What the three services make of an input before they touch a table: the *)
(* DTOs of the ValidationPipe, the value objects, the shape check of the   *)
(* consumer, the column types that have the last word, and the exception   *)
(* filters that turn a refusal into an answer.                             *)
(*                                                                         *)
(* A text is a record: what it looks like (form), what it stands for (of)  *)
(* and how it is written (style).  Two texts of one UUID that differ in    *)
(* case differ in style alone.  A number as the client sent it is a record *)
(* of its JSON form and its value.                                         *)
(***************************************************************************)
EXTENDS UserAreaState, Integers

(***************************************************************************)
(* Texts.  "absent" is a missing, null or empty field; "week" stands for   *)
(* the dates that are ISO 8601 but that Date does not parse, and           *)
(* "dateText" for the texts that Date parses and that are not ISO 8601,    *)
(* such as "March 7, 2026" or "1".                                         *)
(***************************************************************************)
Forms  == {"absent", "notString", "blank", "word", "uuid", "iso", "week",
           "dateText"}
Styles == {"plain", "upper", "padded"}

Text(form, of, style) == [form |-> form, of |-> of, style |-> style]

UuidText(id) == Text("uuid", id, "plain")

\* String.prototype.trim and toLowerCase, in the order in which they are called.
trim(text) ==
    Text(text.form, text.of,
         IF text.style = "padded" THEN "plain" ELSE text.style)

toLowerCase(text) ==
    Text(text.form, text.of,
         IF text.style = "upper" THEN "plain" ELSE text.style)

\* What create returns when it throws DomainValidationError.
Invalid == Text("invalid", "", "plain")

IsInvalid(value) == value.form = "invalid"

(***************************************************************************)
(* Mutated forms of definitions below.                                     *)
(***************************************************************************)
\* The text is checked but not brought to lower case.
UserIdAsWritten(raw) == IF raw.form = "uuid" THEN trim(raw) ELSE Invalid

\* The name is checked and stored as the client wrote it.
AreaNameUntrimmed(raw) ==
    [form |-> "string", length |-> raw.length, padding |-> raw.padding,
     nul |-> raw.nul]

\* The list of types lacks the second one.
EventTypeEnteredOnly(raw) ==
    IF /\ raw.form = "word"
       /\ trim(raw).of = UserEnteredArea
       /\ trim(raw).style = "plain"
      THEN trim(raw) ELSE Invalid

\* DomainValidationError loses its prototype: instanceof does not know it.
locationCatchUnknown(exception) ==
    IF exception = "BadRequest"
      THEN [status |-> 400, code |-> "VALIDATION_ERROR"]
      ELSE [status |-> 500, code |-> "INTERNAL_ERROR"]

\* The type travels under another name.
PayloadWithoutType(event) ==
    [json      |-> "object",
     eventId   |-> UuidText(<<event.request, event.areaId>>),
     type      |-> Text("absent", "", "plain"),
     userId    |-> event.userId,
     areaId    |-> UuidText(event.areaId),
     timestamp |-> event.timestamp]

(***************************************************************************)
(* The value objects.                                                      *)
(***************************************************************************)
UserId(raw) == IF raw.form = "uuid" THEN toLowerCase(trim(raw)) ELSE Invalid

EventId(raw) == IF raw.form = "uuid" THEN toLowerCase(trim(raw)) ELSE Invalid

\* The user id of a message, read by the logging service.
LoggedUserId(raw) ==
    IF raw.form = "uuid" THEN toLowerCase(trim(raw)) ELSE Invalid

\* Any text that is not blank will do: the database made it.
AreaId(raw) ==
    IF raw.form \in {"absent", "blank"} THEN Invalid ELSE trim(raw)

EventType(raw) ==
    IF /\ raw.form = "word"
       /\ trim(raw).of \in {UserEnteredArea, UserExitedArea}
       /\ trim(raw).style = "plain"
      THEN trim(raw) ELSE Invalid

\* What new Date(raw) makes a moment of; for the rest it is an invalid date.
ParsedByDate == {"iso", "dateText"}

LocationTimestamp(raw) == IF raw.form \in ParsedByDate THEN raw ELSE Invalid

EventOccurredAt(raw) == IF raw.form \in ParsedByDate THEN raw ELSE Invalid

\* The limits of AreaName, GeoPoint and GeoCircle, inclusive.
MaxNameLength == 120
MinRadius     == 1
MaxRadius     == 100000

\* AreaName: trimmed, then neither empty nor too long.  A name is its length,
\* the blanks around it, and whether U+0000 is among its characters.
AreaName(raw) ==
    [form    |-> IF raw.length \in 1 .. MaxNameLength THEN "string" ELSE "invalid",
     length  |-> raw.length,
     padding |-> 0,
     nul     |-> raw.nul]

IsBetween(n, low, high) ==
    n.form = "number" /\ low <= n.value /\ n.value <= high

GeoPointValid(lat, lon) == IsBetween(lat, -90, 90) /\ IsBetween(lon, -180, 180)

GeoCircleValid(centerLat, centerLon, radiusM) ==
    /\ IsBetween(centerLat, -90, 90)
    /\ IsBetween(centerLon, -180, 180)
    /\ IsBetween(radiusM, MinRadius, MaxRadius)

(***************************************************************************)
(* The DTOs.  @Type(() => Number) converts before the rules are checked: a *)
(* numeric text becomes its number, a blank text becomes 0, another text   *)
(* becomes NaN, and a missing field stays missing.                         *)
(***************************************************************************)
toNumber(raw) ==
    [form  |-> IF raw.form \in {"number", "numericText", "blankText"} THEN "number"
               ELSE IF raw.form = "text" THEN "NaN"
               ELSE raw.form,
     value |-> IF raw.form = "blankText" THEN 0 ELSE raw.value]

\* The length limit counts the text as it was sent.
CreateAreaDto(body) ==
    /\ body.name.form = "string"
    /\ body.name.length + body.name.padding \in 1 .. 120
    /\ IsBetween(toNumber(body.centerLat), -90, 90)
    /\ IsBetween(toNumber(body.centerLon), -180, 180)
    /\ IsBetween(toNumber(body.radiusM), 1, 100000)

ProcessLocationDto(body) ==
    /\ body.userId.form = "uuid" /\ body.userId.style # "padded"
    /\ IsBetween(toNumber(body.lat), -90, 90)
    /\ IsBetween(toNumber(body.lon), -180, 180)
    /\ body.timestamp.form \in {"iso", "week"}

(***************************************************************************)
(* The exception filters: what the client is told.                         *)
(***************************************************************************)
HttpExceptions == {"BadRequest", "ServiceUnavailable"}

getStatus(exception) == IF exception = "BadRequest" THEN 400 ELSE 503

\* Every HttpException has the code of a validation error here.
geofenceCatch(exception) ==
    IF exception = "DomainValidationError"
      THEN [status |-> 400, code |-> "VALIDATION_ERROR"]
    ELSE IF exception \in HttpExceptions
      THEN [status |-> getStatus(exception), code |-> "VALIDATION_ERROR"]
    ELSE [status |-> 500, code |-> "INTERNAL_ERROR"]

locationCatch(exception) ==
    IF exception = "DomainValidationError"
      THEN [status |-> 400, code |-> "VALIDATION_ERROR"]
    ELSE IF exception \in HttpExceptions
      THEN [status |-> getStatus(exception),
            code   |-> IF getStatus(exception) = 503 THEN "SERVICE_UNAVAILABLE"
                                                     ELSE "VALIDATION_ERROR"]
    ELSE [status |-> 500, code |-> "INTERNAL_ERROR"]

loggingCatch(exception) ==
    IF exception = "DomainValidationError"
      THEN [status |-> 400, code |-> "VALIDATION_ERROR"]
    ELSE IF exception \in HttpExceptions
      THEN [status |-> getStatus(exception),
            code   |-> IF getStatus(exception) = 503 THEN "SERVICE_UNAVAILABLE"
                                                     ELSE "VALIDATION_ERROR"]
    ELSE [status |-> 500, code |-> "INTERNAL_ERROR"]

(***************************************************************************)
(* A message of the topic: JSON or not, and the five fields of an object.  *)
(***************************************************************************)
FieldForms(m) ==
    {m.eventId.form, m.type.form, m.userId.form, m.areaId.form, m.timestamp.form}

\* Every field is there and is a string that is not empty.
HasShape(m) == FieldForms(m) \cap {"absent", "notString"} = {}

\* AreaTransitionLog.create: five value objects, any of which may throw.
AreaTransitionLog(m) ==
    [eventId    |-> EventId(m.eventId),
     userId     |-> LoggedUserId(m.userId),
     areaId     |-> AreaId(m.areaId),
     eventType  |-> EventType(m.type),
     occurredAt |-> EventOccurredAt(m.timestamp)]

CreateThrows(log) ==
    \/ IsInvalid(log.eventId)
    \/ IsInvalid(log.userId)
    \/ IsInvalid(log.areaId)
    \/ IsInvalid(log.eventType)
    \/ IsInvalid(log.occurredAt)

\* The INSERT casts the ids to uuid; only the area id can still be something else.
CastsSucceed(log) == log.areaId.form = "uuid"

\* What the handler makes of a message, in the words of LoggingConsumer.
KindOf(m) ==
    IF m.json = "null" THEN "poison"
    ELSE IF m.json = "none" \/ ~HasShape(m) \/ CreateThrows(AreaTransitionLog(m))
      THEN "invalid"
    ELSE IF ~CastsSucceed(AreaTransitionLog(m)) THEN "poison"
    ELSE "event"

\* The row that save inserts.
LogRow(m) ==
    LET log == AreaTransitionLog(m)
    IN  [event_id    |-> log.eventId.of,
         user_id     |-> log.userId.of,
         area_id     |-> log.areaId.of,
         event_type  |-> log.eventType.of,
         occurred_at |-> log.occurredAt.of]

(***************************************************************************)
(* The message that the location service makes of a domain event: the      *)
(* payload of the outbox row, whose userId and timestamp are texts of the  *)
(* value objects.  The fresh uuid is the request and the area.             *)
(***************************************************************************)
Payload(event) ==
    [json      |-> "object",
     eventId   |-> UuidText(<<event.request, event.areaId>>),
     type      |-> Text("word", event.type, "plain"),
     userId    |-> event.userId,
     areaId    |-> UuidText(event.areaId),
     timestamp |-> event.timestamp]
=============================================================================
