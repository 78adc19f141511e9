----------------------- MODULE ServiceBoundaries_proofs -----------------------
(***************************************************************************)
(* Theorems about ServiceBoundaries, for every set of bodies, messages and *)
(* transitions: requests on the same rows take the same lock, and what the *)
(* location service sends is what the logging service logs.                *)
(***************************************************************************)
EXTENDS ServiceBoundaries, TLAPS

\* A user id that a value object lets through is written in one way only.
LEMMA UserIdCanonical ==
    ASSUME NEW body \in LocationBodies, LocationAccepted(body)
    PROVE  UserId(body.userId) = UuidText(body.userId.of)
<1>1. body.userId.form = "uuid"
  BY DEF LocationAccepted, ProcessLocationDto
<1>2. body.userId.style \in {"plain", "upper", "padded"}
  BY StyleAssumption DEF Styles
<1> QED
  BY <1>1, <1>2 DEF UserId, UuidText, toLowerCase, trim, Text

\* An accepted location has a timestamp that is ISO 8601 and that Date parses.
LEMMA TimestampParsed ==
    ASSUME NEW body, LocationAccepted(body)
    PROVE  /\ body.timestamp.form = "iso"
           /\ LocationTimestamp(body.timestamp) = body.timestamp
<1>1. CASE body.timestamp.form \in ParsedByDate
  <2>1. body.timestamp.form = "iso"
    BY <1>1 DEF ParsedByDate, LocationAccepted, ProcessLocationDto
  <2> QED
    BY <1>1, <2>1 DEF LocationTimestamp
<1>2. CASE body.timestamp.form \notin ParsedByDate
  <2>1. IsInvalid(LocationTimestamp(body.timestamp))
    BY <1>2 DEF LocationTimestamp, IsInvalid, Invalid, Text
  <2> QED
    BY <2>1 DEF LocationAccepted
<1> QED
  BY <1>1, <1>2

\* The payload of one event goes through the consumer and becomes its row.
LEMMA PayloadIsLogged ==
    ASSUME NEW body \in LocationBodies, LocationAccepted(body),
           NEW area, NEW type \in {UserEnteredArea, UserExitedArea}
    PROVE  LET m == Payload(DomainEvent(RequestId, LocationCommand(body),
                                        area, type))
           IN  KindOf(m) = "event" /\ LogRow(m) = RowFor(body, area, type)
<1> DEFINE e == DomainEvent(RequestId, LocationCommand(body), area, type)
           m == Payload(e)
<1>1. /\ m.json = "object"
      /\ m.eventId = UuidText(<<RequestId, area>>)
      /\ m.type = Text("word", type, "plain")
      /\ m.userId = UuidText(body.userId.of)
      /\ m.areaId = UuidText(area)
      /\ m.timestamp = body.timestamp
  BY UserIdCanonical, TimestampParsed DEF Payload, DomainEvent, LocationCommand
<1>2. body.timestamp.form = "iso"
  BY TimestampParsed
<1> HIDE DEF m
<1>3. /\ EventId(m.eventId) = UuidText(<<RequestId, area>>)
      /\ LoggedUserId(m.userId) = UuidText(body.userId.of)
  BY <1>1 DEF EventId, LoggedUserId, UuidText, toLowerCase, trim, Text
<1>4. AreaId(m.areaId) = UuidText(area)
  BY <1>1 DEF AreaId, UuidText, trim, Text
<1>5. EventType(m.type) = Text("word", type, "plain")
  BY <1>1 DEF EventType, trim, Text
<1>6. EventOccurredAt(m.timestamp) = body.timestamp
  BY <1>1, <1>2 DEF EventOccurredAt, ParsedByDate
<1>7. AreaTransitionLog(m) =
        [eventId    |-> UuidText(<<RequestId, area>>),
         userId     |-> UuidText(body.userId.of),
         areaId     |-> UuidText(area),
         eventType  |-> Text("word", type, "plain"),
         occurredAt |-> body.timestamp]
  BY <1>3, <1>4, <1>5, <1>6 DEF AreaTransitionLog
<1>8. ~CreateThrows(AreaTransitionLog(m)) /\ CastsSucceed(AreaTransitionLog(m))
  BY <1>2, <1>7 DEF CreateThrows, CastsSucceed, IsInvalid, UuidText, Text
<1>9. HasShape(m)
  BY <1>1, <1>2 DEF HasShape, FieldForms, UuidText, Text
<1>10. KindOf(m) = "event"
  BY <1>1, <1>8, <1>9 DEF KindOf
<1>11. LogRow(m) = RowFor(body, area, type)
  BY <1>7 DEF LogRow, RowFor, UuidText, Text
<1> QED
  BY <1>10, <1>11 DEF m

\* All payloads of one location.
LEMMA PayloadsAreLogged ==
    ASSUME NEW body \in LocationBodies, LocationAccepted(body),
           NEW transitions
    PROVE  /\ \A m \in OutboxPayloads(body, transitions) : KindOf(m) = "event"
           /\ {LogRow(m) : m \in OutboxPayloads(body, transitions)}
                = ExpectedRows(body, transitions)
<1> DEFINE Event(a, type) ==
             DomainEvent(RequestId, LocationCommand(body), a, type)
           In  == transitions.enteredAreaIds
           Out == transitions.exitedAreaIds
<1>1. \A a : /\ KindOf(Payload(Event(a, UserEnteredArea))) = "event"
             /\ KindOf(Payload(Event(a, UserExitedArea))) = "event"
             /\ LogRow(Payload(Event(a, UserEnteredArea)))
                  = RowFor(body, a, UserEnteredArea)
             /\ LogRow(Payload(Event(a, UserExitedArea)))
                  = RowFor(body, a, UserExitedArea)
  BY PayloadIsLogged
<1>2. OutboxPayloads(body, transitions) =
        {Payload(Event(a, UserEnteredArea)) : a \in In}
        \cup {Payload(Event(a, UserExitedArea)) : a \in Out}
  BY DEF OutboxPayloads, OutboxInputs
<1> HIDE DEF Event
<1>3. {LogRow(m) : m \in OutboxPayloads(body, transitions)} =
        {LogRow(Payload(Event(a, UserEnteredArea))) : a \in In}
        \cup {LogRow(Payload(Event(a, UserExitedArea))) : a \in Out}
  BY <1>2
<1>4. /\ {LogRow(Payload(Event(a, UserEnteredArea))) : a \in In}
           = {RowFor(body, a, UserEnteredArea) : a \in In}
      /\ {LogRow(Payload(Event(a, UserExitedArea))) : a \in Out}
           = {RowFor(body, a, UserExitedArea) : a \in Out}
  BY <1>1
<1> QED
  BY <1>1, <1>2, <1>3, <1>4 DEF ExpectedRows

(***************************************************************************)
(* Two accepted requests take one lock exactly when they write one user's  *)
(* rows, whatever the clients' spelling of the user id.                    *)
(***************************************************************************)
THEOREM LocksFollowRows == Spec => []SameRowSameLock
<1>1. \A body, other \in LocationBodies :
        LocationAccepted(body) /\ LocationAccepted(other)
          => (UserColumn(body) = UserColumn(other)
                <=> LockText(body) = LockText(other))
  <2> SUFFICES ASSUME NEW body \in LocationBodies, NEW other \in LocationBodies,
                      LocationAccepted(body), LocationAccepted(other)
               PROVE  UserColumn(body) = UserColumn(other)
                        <=> LockText(body) = LockText(other)
    OBVIOUS
  <2>1. /\ UserId(body.userId) = UuidText(body.userId.of)
        /\ UserId(other.userId) = UuidText(other.userId.of)
    BY UserIdCanonical
  <2> QED
    BY <2>1 DEF UserColumn, LockText, UuidText, Text
<1> DEFINE Known == received.to = "locations" => received.body \in LocationBodies
<1>2. Init => Known
  BY DEF Init, Nothing
<1>3. Known /\ [Next]_vars => Known'
  <2> SUFFICES ASSUME Known, [Next]_vars
               PROVE  Known'
    OBVIOUS
  <2>1. ASSUME NEW body \in AreaBodies, NEW db \in Database, createArea(body, db)
        PROVE  Known'
    BY <2>1 DEF createArea
  <2>2. ASSUME NEW body \in LocationBodies, NEW t \in TransitionSets,
               NEW db \in Database, processLocation(body, t, db)
        PROVE  Known'
    BY <2>2 DEF processLocation
  <2>3. ASSUME NEW m \in Messages, eachMessage(m)
        PROVE  Known'
    BY <2>3 DEF eachMessage
  <2>4. ASSUME NEW service \in Services, NEW db \in Database, check(service, db)
        PROVE  Known'
    BY <2>4 DEF check, Services
  <2>5. ASSUME NEW db \in Database, listAreas(db)
        PROVE  Known'
    BY <2>5 DEF listAreas
  <2>6. CASE UNCHANGED vars
    BY <2>6 DEF vars
  <2> QED
    BY <2>1, <2>2, <2>3, <2>4, <2>5, <2>6 DEF Next
<1>4. Known => SameRowSameLock
  BY <1>1 DEF SameRowSameLock
<1> QED
  BY <1>2, <1>3, <1>4, PTL DEF Spec

(***************************************************************************)
(* The contract of the two services holds for every accepted location.     *)
(***************************************************************************)
THEOREM ContractHolds == Spec => []ContractKept
<1> DEFINE Fresh == received = Nothing => written = {}
           IInv  == Fresh /\ ContractKept
<1>1. Init => IInv
  BY DEF Init, Nothing, ContractKept
<1>2. IInv /\ [Next]_vars => IInv'
  <2> SUFFICES ASSUME IInv, [Next]_vars
               PROVE  IInv'
    OBVIOUS
  <2>1. ASSUME NEW body \in AreaBodies, NEW db \in Database, createArea(body, db)
        PROVE  IInv'
    BY <2>1 DEF createArea, ContractKept, Nothing
  <2>2. ASSUME NEW body \in LocationBodies, NEW t \in TransitionSets,
               NEW db \in Database, processLocation(body, t, db)
        PROVE  IInv'
    <3>1. /\ received' = [to |-> "locations", body |-> body, db |-> db,
                          transitions |-> t]
          /\ written = {}
      BY <2>2 DEF processLocation, Waiting
    <3>2. Fresh'
      BY <3>1 DEF Nothing
    <3>3. CASE /\ ~LocationAccepted(body)
               /\ answer' \in {locationCatch("BadRequest"),
                               locationCatch("DomainValidationError")}
               /\ UNCHANGED written
      <4>1. answer'.status = 400 /\ written' = {}
        BY <3>1, <3>3 DEF locationCatch, HttpExceptions, getStatus
      <4> QED
        BY <3>1, <3>2, <4>1 DEF ContractKept
    <3>4. CASE /\ LocationAccepted(body)
               /\ answer' = IF db = "up" THEN Success(200)
                                         ELSE locationCatch("Error")
               /\ written' = IF Performed(db) THEN OutboxPayloads(body, t) ELSE {}
      <4>1. answer'.status = 200 => written' = OutboxPayloads(body, t)
        BY <3>4 DEF Success, Performed, locationCatch, HttpExceptions
      <4>2. written' \subseteq OutboxPayloads(body, t)
        BY <3>4
      <4>3. \A m \in written' : KindOf(m) = "event"
        BY <3>4, <4>2, PayloadsAreLogged
      <4>4. answer'.status = 200
              => {LogRow(m) : m \in written'} = ExpectedRows(body, t)
        BY <3>4, <4>1, PayloadsAreLogged
      <4> QED
        BY <3>1, <3>2, <4>3, <4>4 DEF ContractKept
    <3>5. \/ /\ ~ProcessLocationDto(body)
             /\ answer' = locationCatch("BadRequest")
             /\ UNCHANGED written
          \/ /\ ProcessLocationDto(body) /\ ~LocationAccepted(body)
             /\ answer' = locationCatch("DomainValidationError")
             /\ UNCHANGED written
          \/ /\ LocationAccepted(body)
             /\ answer' = IF db = "up" THEN Success(200) ELSE locationCatch("Error")
             /\ written' = IF Performed(db) THEN OutboxPayloads(body, t) ELSE {}
      BY <2>2 DEF processLocation
    <3>6. ~ProcessLocationDto(body) => ~LocationAccepted(body)
      BY DEF LocationAccepted
    <3> QED
      BY <3>3, <3>4, <3>5, <3>6
  <2>3. ASSUME NEW m \in Messages, eachMessage(m)
        PROVE  IInv'
    BY <2>3 DEF eachMessage, ContractKept, Nothing
  <2>4. ASSUME NEW service \in Services, NEW db \in Database, check(service, db)
        PROVE  IInv'
    <3>1. received'.to = service /\ service # "locations" /\ written' = {}
      BY <2>4 DEF check, Services, Waiting
    <3> QED
      BY <3>1 DEF ContractKept
  <2>5. ASSUME NEW db \in Database, listAreas(db)
        PROVE  IInv'
    BY <2>5 DEF listAreas, ContractKept, Nothing
  <2>6. CASE UNCHANGED vars
    BY <2>6 DEF vars, ContractKept
  <2> QED
    BY <2>1, <2>2, <2>3, <2>4, <2>5, <2>6 DEF Next
<1> QED
  BY <1>1, <1>2, PTL DEF Spec

\* The consumer's checks, layer by layer, add up to one rule.
LEMMA EventsAreLoggable ==
    ASSUME NEW m \in Messages
    PROVE  KindOf(m) = "event" <=> LoggableMessage(m)
<1> DEFINE log == AreaTransitionLog(m)
<1>1. m.json \in {"object", "none", "null"} /\ m.type.style \in {"plain", "upper", "padded"}
  BY StyleAssumption DEF Styles
<1>2. /\ IsInvalid(log.eventId) <=> m.eventId.form # "uuid"
      /\ IsInvalid(log.userId) <=> m.userId.form # "uuid"
  BY DEF AreaTransitionLog, IsInvalid, EventId, LoggedUserId, Invalid,
         toLowerCase, trim, Text
<1>3. /\ m.areaId.form = "uuid" => ~IsInvalid(log.areaId) /\ CastsSucceed(log)
      /\ CastsSucceed(log) => m.areaId.form = "uuid"
  BY DEF AreaTransitionLog, IsInvalid, AreaId, CastsSucceed, Invalid, trim, Text
<1>4. ~IsInvalid(log.eventType) <=>
        /\ m.type.form = "word"
        /\ m.type.of \in {UserEnteredArea, UserExitedArea}
        /\ m.type.style # "upper"
  <2>1. trim(m.type).of = m.type.of /\ trim(m.type).form = m.type.form
    BY DEF trim, Text
  <2>2. trim(m.type).style = "plain" <=> m.type.style # "upper"
    BY <1>1 DEF trim, Text
  <2>3. log.eventType = EventType(m.type) /\ Invalid.form = "invalid"
    BY DEF AreaTransitionLog, Invalid, Text
  <2> QED
    BY <2>1, <2>2, <2>3 DEF EventType, IsInvalid
<1>5. ~IsInvalid(log.occurredAt) <=> m.timestamp.form \in {"iso", "dateText"}
  BY DEF AreaTransitionLog, IsInvalid, EventOccurredAt, ParsedByDate, Invalid,
         Text
<1>6. LoggableMessage(m) => HasShape(m)
  BY DEF LoggableMessage, HasShape, FieldForms
<1> HIDE DEF log
<1>7. CreateThrows(log) <=> \/ IsInvalid(log.eventId) \/ IsInvalid(log.userId)
                            \/ IsInvalid(log.areaId) \/ IsInvalid(log.eventType)
                            \/ IsInvalid(log.occurredAt)
  BY DEF CreateThrows
<1>8. KindOf(m) = "event" <=> /\ m.json = "object" /\ HasShape(m)
                              /\ ~CreateThrows(log) /\ CastsSucceed(log)
  BY <1>1 DEF KindOf, log
<1> QED
  BY <1>2, <1>3, <1>4, <1>5, <1>6, <1>7, <1>8 DEF LoggableMessage

(***************************************************************************)
(* Exactly the messages that stand for a row are logged: none of them is   *)
(* skipped or left to block the partition, and no other becomes a row.     *)
(***************************************************************************)
THEOREM LoggableIsLogged == Spec => []NothingLoggableIsSkipped
<1>1. Init => NothingLoggableIsSkipped
  BY DEF Init, Nothing, NothingLoggableIsSkipped
<1>2. NothingLoggableIsSkipped /\ [Next]_vars => NothingLoggableIsSkipped'
  <2> SUFFICES ASSUME NothingLoggableIsSkipped, [Next]_vars
               PROVE  NothingLoggableIsSkipped'
    OBVIOUS
  <2>1. ASSUME NEW body \in AreaBodies, NEW db \in Database, createArea(body, db)
        PROVE  NothingLoggableIsSkipped'
    BY <2>1 DEF createArea, NothingLoggableIsSkipped
  <2>2. ASSUME NEW body \in LocationBodies, NEW t \in TransitionSets,
               NEW db \in Database, processLocation(body, t, db)
        PROVE  NothingLoggableIsSkipped'
    BY <2>2 DEF processLocation, NothingLoggableIsSkipped
  <2>3. ASSUME NEW m \in Messages, eachMessage(m)
        PROVE  NothingLoggableIsSkipped'
    <3>1. received'.to = "topic" /\ received'.body = m
      BY <2>3 DEF eachMessage
    <3>2. answer'.code = "logged" <=> KindOf(m) = "event"
      BY <2>3 DEF eachMessage
    <3> QED
      BY <3>1, <3>2, EventsAreLoggable DEF NothingLoggableIsSkipped
  <2>4. ASSUME NEW service \in Services, NEW db \in Database, check(service, db)
        PROVE  NothingLoggableIsSkipped'
    BY <2>4 DEF check, Services, NothingLoggableIsSkipped
  <2>5. ASSUME NEW db \in Database, listAreas(db)
        PROVE  NothingLoggableIsSkipped'
    BY <2>5 DEF listAreas, NothingLoggableIsSkipped
  <2>6. CASE UNCHANGED vars
    BY <2>6 DEF vars, NothingLoggableIsSkipped
  <2> QED
    BY <2>1, <2>2, <2>3, <2>4, <2>5, <2>6 DEF Next
<1> QED
  BY <1>1, <1>2, PTL DEF Spec

-----------------------------------------------------------------------------
(***************************************************************************)
(* Areas, and the answers to clients.                                      *)
(***************************************************************************)
\* What the DTO lets through as a number lies between its limits.
LEMMA NumbersBetween ==
    ASSUME NEW raw, raw.value \in Int, NEW low \in Int, NEW high \in Int,
           IsBetween(toNumber(raw), low, high)
    PROVE  /\ toNumber(raw).form = "number"
           /\ Within(low, toNumber(raw).value, high)
<1>1. toNumber(raw).value \in Int
  BY DEF toNumber
<1> QED
  BY <1>1 DEF IsBetween, Within

\* And a number within its limits passes.
LEMMA BetweenNumbers ==
    ASSUME NEW raw, NEW low, NEW high, toNumber(raw).form = "number",
           Within(low, toNumber(raw).value, high)
    PROVE  IsBetween(toNumber(raw), low, high)
BY DEF IsBetween, Within

AreaAccepted(body) == CreateAreaDto(body) /\ AreaConstructed(body)

\* The two layers together let exactly the well-formed areas through.
LEMMA AreasAreWellFormed ==
    ASSUME NEW body \in AreaBodies
    PROVE  AreaAccepted(body) <=> WellFormedArea(body)
<1>1. /\ body.centerLat.value \in Int
      /\ body.centerLon.value \in Int
      /\ body.radiusM.value \in Int
      /\ body.name.length \in Nat /\ body.name.padding \in Nat
  BY NumberAssumption
<1>2. ASSUME AreaAccepted(body) PROVE WellFormedArea(body)
  <2>1. body.name.form = "string" /\ body.name.length >= 1
    BY <1>1, <1>2 DEF AreaAccepted, CreateAreaDto, AreaConstructed, AreaName,
                      IsInvalid, MaxNameLength
  <2>2. Within(1, body.name.length + body.name.padding, 120)
    BY <1>1, <1>2 DEF AreaAccepted, CreateAreaDto, Within
  <2>3. /\ IsBetween(toNumber(body.centerLat), -90, 90)
        /\ IsBetween(toNumber(body.centerLon), -180, 180)
        /\ IsBetween(toNumber(body.radiusM), 1, 100000)
    BY <1>2 DEF AreaAccepted, CreateAreaDto
  <2>4. /\ toNumber(body.centerLat).value \in Int
        /\ toNumber(body.centerLon).value \in Int
        /\ toNumber(body.radiusM).value \in Int
    BY <1>1 DEF toNumber
  <2>5. /\ toNumber(body.centerLat).form = "number"
        /\ Within(-90, toNumber(body.centerLat).value, 90)
        /\ toNumber(body.centerLon).form = "number"
        /\ Within(-180, toNumber(body.centerLon).value, 180)
        /\ toNumber(body.radiusM).form = "number"
        /\ Within(1, toNumber(body.radiusM).value, 100000)
    BY <2>3, <2>4 DEF IsBetween, Within
  <2> QED
    BY <2>1, <2>2, <2>5 DEF WellFormedArea
<1>3. ASSUME WellFormedArea(body) PROVE AreaAccepted(body)
  <2>1. /\ IsBetween(toNumber(body.centerLat), -90, 90)
        /\ IsBetween(toNumber(body.centerLon), -180, 180)
        /\ IsBetween(toNumber(body.radiusM), 1, 100000)
    BY <1>3, BetweenNumbers DEF WellFormedArea
  <2>2. CreateAreaDto(body)
    BY <1>1, <1>3, <2>1 DEF CreateAreaDto, WellFormedArea, Within
  <2>3. body.name.length \in 1 .. 120
    BY <1>1, <1>3 DEF WellFormedArea, Within
  <2>4. ~IsInvalid(AreaName(body.name))
    BY <2>3 DEF AreaName, IsInvalid, MaxNameLength
  <2> QED
    BY <2>1, <2>2, <2>4 DEF AreaAccepted, AreaConstructed, GeoCircleValid,
                            MinRadius, MaxRadius
<1> QED
  BY <1>2, <1>3

\* And so for locations.
LEMMA LocationsAreWellFormed ==
    ASSUME NEW body \in LocationBodies
    PROVE  LocationAccepted(body) <=> WellFormedLocation(body)
<1>1. body.lat.value \in Int /\ body.lon.value \in Int
  BY NumberAssumption
<1>2. ASSUME LocationAccepted(body) PROVE WellFormedLocation(body)
  <2>1. /\ body.userId.form = "uuid" /\ body.userId.style # "padded"
        /\ body.timestamp.form = "iso"
    BY <1>2, TimestampParsed DEF LocationAccepted, ProcessLocationDto
  <2>2. /\ toNumber(body.lat).form = "number"
        /\ Within(-90, toNumber(body.lat).value, 90)
    BY <1>1, <1>2, NumbersBetween DEF LocationAccepted, ProcessLocationDto
  <2>3. /\ toNumber(body.lon).form = "number"
        /\ Within(-180, toNumber(body.lon).value, 180)
    BY <1>1, <1>2, NumbersBetween DEF LocationAccepted, ProcessLocationDto
  <2> QED
    BY <2>1, <2>2, <2>3 DEF WellFormedLocation
<1>3. ASSUME WellFormedLocation(body) PROVE LocationAccepted(body)
  <2>1. /\ IsBetween(toNumber(body.lat), -90, 90)
        /\ IsBetween(toNumber(body.lon), -180, 180)
    BY <1>3, BetweenNumbers DEF WellFormedLocation
  <2>2. ProcessLocationDto(body)
    BY <1>3, <2>1 DEF ProcessLocationDto, WellFormedLocation
  <2>3. ~IsInvalid(UserId(body.userId))
    BY <1>3 DEF WellFormedLocation, UserId, IsInvalid, toLowerCase, trim, Text
  <2>4. ~IsInvalid(LocationTimestamp(body.timestamp))
    BY <1>3 DEF WellFormedLocation, LocationTimestamp, ParsedByDate, IsInvalid
  <2> QED
    BY <2>1, <2>2, <2>3, <2>4 DEF LocationAccepted, GeoPointValid
<1> QED
  BY <1>2, <1>3

\* What the filters answer.
LEMMA Answers ==
    /\ geofenceCatch("BadRequest") = [status |-> 400, code |-> "VALIDATION_ERROR"]
    /\ geofenceCatch("DomainValidationError")
         = [status |-> 400, code |-> "VALIDATION_ERROR"]
    /\ geofenceCatch("Error").status = 500
    /\ locationCatch("BadRequest") = [status |-> 400, code |-> "VALIDATION_ERROR"]
    /\ locationCatch("DomainValidationError")
         = [status |-> 400, code |-> "VALIDATION_ERROR"]
    /\ locationCatch("Error").status = 500
    /\ \A service \in Services :
         /\ Catch(service, "ServiceUnavailable").status = 503
         /\ service # "geofence"
              => Catch(service, "ServiceUnavailable").code = "SERVICE_UNAVAILABLE"
BY DEF geofenceCatch, locationCatch, loggingCatch, Catch, Services,
       HttpExceptions, getStatus

\* Nothing is written before an input arrives.
Fresh == received = Nothing => written = {}

(***************************************************************************)
(* The client is blamed for what it sent, and only for that; the service   *)
(* answers 500 only when its database does not work or refuses the text.   *)
(***************************************************************************)
THEOREM FaultsAreAttributed == Spec => []FaultIsAttributed
<1> DEFINE Inv == Fresh /\ FaultIsAttributed
<1>1. Init => Inv
  BY DEF Init, Fresh, Nothing, FaultIsAttributed
<1>2. Inv /\ [Next]_vars => Inv'
  <2> SUFFICES ASSUME Inv, [Next]_vars
               PROVE  Inv'
    OBVIOUS
  <2>1. ASSUME NEW body \in AreaBodies, NEW db \in Database, createArea(body, db)
        PROVE  Inv'
    <3>1. /\ received' = [to |-> "areas", body |-> body, db |-> db]
          /\ written = {}
      BY <2>1 DEF createArea, Waiting, Fresh
    <3>2. Fresh'
      BY <3>1 DEF Fresh, Nothing
    <3>3. /\ WellFormed' <=> AreaAccepted(body)
          /\ Unstorable' <=> body.name.nul
          /\ Refused(Area(body)) <=> body.name.nul
      BY <3>1, AreasAreWellFormed
         DEF WellFormed, Unstorable, Refused, Area, AreaName
    <3>4. CASE AreaAccepted(body)
      <4>1. answer' = IF db = "up" /\ ~body.name.nul
                        THEN Summaries(201, {Created(body)})
                        ELSE geofenceCatch("Error")
        BY <2>1, <3>3, <3>4 DEF createArea, AreaAccepted
      <4>2. CASE db = "up" /\ ~body.name.nul
        <5>1. /\ answer'.status = 201
              /\ answer' # [status |-> 400, code |-> "VALIDATION_ERROR"]
          BY <4>1, <4>2 DEF Summaries
        <5> QED
          BY <3>1, <3>2, <3>3, <3>4, <4>2, <5>1 DEF FaultIsAttributed
      <4>3. CASE ~(db = "up" /\ ~body.name.nul)
        <5>1. answer'.status = 500
          BY <4>1, <4>3, Answers
        <5>2. body.name.nul => written' = {}
          BY <2>1, <3>1, <3>3, <3>4 DEF createArea, AreaAccepted
        <5> QED
          BY <3>1, <3>2, <3>3, <3>4, <4>3, <5>1, <5>2 DEF FaultIsAttributed
      <4> QED
        BY <4>2, <4>3
    <3>5. CASE ~AreaAccepted(body)
      <4>1. /\ answer' = [status |-> 400, code |-> "VALIDATION_ERROR"]
            /\ written' = {}
        BY <2>1, <3>1, <3>5, Answers DEF createArea, AreaAccepted
      <4> QED
        BY <3>1, <3>2, <3>3, <3>5, <4>1 DEF FaultIsAttributed
    <3> QED
      BY <3>4, <3>5
  <2>2. ASSUME NEW body \in LocationBodies, NEW t \in TransitionSets,
               NEW db \in Database, processLocation(body, t, db)
        PROVE  Inv'
    <3>1. /\ received' = [to |-> "locations", body |-> body, db |-> db,
                          transitions |-> t]
          /\ written = {}
      BY <2>2 DEF processLocation, Waiting, Fresh
    <3>2. Fresh'
      BY <3>1 DEF Fresh, Nothing
    <3>0. (WellFormed' <=> LocationAccepted(body)) /\ ~Unstorable'
      BY <3>1, LocationsAreWellFormed DEF WellFormed, Unstorable
    <3>3. CASE LocationAccepted(body)
      <4>1. answer' = IF db = "up" THEN Success(200) ELSE locationCatch("Error")
        BY <2>2, <3>3 DEF processLocation, LocationAccepted
      <4>2. answer'.status # 400 /\ (answer'.status >= 500 => db # "up")
        BY <4>1, Answers DEF Success
      <4> QED
        BY <3>0, <3>1, <3>2, <3>3, <4>2 DEF FaultIsAttributed
    <3>4. CASE ~LocationAccepted(body)
      <4>1. /\ answer' = [status |-> 400, code |-> "VALIDATION_ERROR"]
            /\ written' = {}
        BY <2>2, <3>1, <3>4, Answers DEF processLocation
      <4> QED
        BY <3>0, <3>1, <3>2, <3>4, <4>1 DEF FaultIsAttributed
    <3> QED
      BY <3>3, <3>4
  <2>3. ASSUME NEW m \in Messages, eachMessage(m)
        PROVE  Inv'
    BY <2>3 DEF eachMessage, Fresh, Nothing, FaultIsAttributed
  <2>4. ASSUME NEW service \in Services, NEW db \in Database, check(service, db)
        PROVE  Inv'
    <3>1. /\ received' = [to |-> service, db |-> db]
          /\ answer' = IF db = "up" THEN Success(200)
                       ELSE Catch(service, "ServiceUnavailable")
      BY <2>4 DEF check
    <3>2. Fresh'
      BY <3>1 DEF Fresh, Nothing, Services
    <3>3. service \notin {"areas", "locations"}
      BY DEF Services
    <3>4. CASE db = "up"
      BY <3>1, <3>2, <3>3, <3>4 DEF FaultIsAttributed, Success
    <3>5. CASE db # "up"
      BY <3>1, <3>2, <3>3, <3>5, Answers DEF FaultIsAttributed, Services
    <3> QED
      BY <3>4, <3>5
  <2>5. ASSUME NEW db \in Database, listAreas(db)
        PROVE  Inv'
    BY <2>5 DEF listAreas, Summaries, Fresh, Nothing, FaultIsAttributed
  <2>6. CASE UNCHANGED vars
    BY <2>6 DEF vars, Fresh, FaultIsAttributed, WellFormed, Unstorable
  <2> QED
    BY <2>1, <2>2, <2>3, <2>4, <2>5, <2>6 DEF Next
<1> QED
  BY <1>1, <1>2, PTL DEF Spec

(***************************************************************************)
(* Whatever a client sends, an area in the table has a trimmed name that   *)
(* its column can hold and a circle on the globe.                          *)
(***************************************************************************)
THEOREM StoredAreasAreValid == Spec => []StoredAreaIsValid
<1> DEFINE Inv == Fresh /\ StoredAreaIsValid
<1>1. Init => Inv
  BY DEF Init, Fresh, Nothing, StoredAreaIsValid
<1>2. Inv /\ [Next]_vars => Inv'
  <2> SUFFICES ASSUME Inv, [Next]_vars
               PROVE  Inv'
    OBVIOUS
  <2>1. ASSUME NEW body \in AreaBodies, NEW db \in Database, createArea(body, db)
        PROVE  Inv'
    <3>1. received'.to = "areas" /\ written = {} /\ received' # Nothing
      BY <2>1 DEF createArea, Waiting, Fresh, Nothing
    <3>2. \/ written' = {}
          \/ AreaAccepted(body) /\ written' = {Area(body)}
      BY <2>1, <3>1 DEF createArea, AreaAccepted
    <3>3. CASE AreaAccepted(body)
      <4>1. WellFormedArea(body)
        BY <3>3, AreasAreWellFormed
      <4>2. Within(1, Area(body).name.length, 120) /\ Area(body).name.padding = 0
        BY <4>1, NumberAssumption DEF WellFormedArea, Area, AreaName, Within
      <4>3. /\ Within(-90, Area(body).centerLat, 90)
            /\ Within(-180, Area(body).centerLon, 180)
            /\ Within(1, Area(body).radiusM, 100000)
        BY <4>1 DEF WellFormedArea, Area
      <4> QED
        BY <3>1, <3>2, <4>2, <4>3 DEF Fresh, StoredAreaIsValid
    <3> QED
      BY <3>1, <3>2, <3>3 DEF Fresh, StoredAreaIsValid
  <2>2. ASSUME NEW body \in LocationBodies, NEW t \in TransitionSets,
               NEW db \in Database, processLocation(body, t, db)
        PROVE  Inv'
    BY <2>2 DEF processLocation, Fresh, Nothing, StoredAreaIsValid
  <2>3. ASSUME NEW m \in Messages, eachMessage(m)
        PROVE  Inv'
    BY <2>3 DEF eachMessage, Fresh, Nothing, StoredAreaIsValid
  <2>4. ASSUME NEW service \in Services, NEW db \in Database, check(service, db)
        PROVE  Inv'
    BY <2>4 DEF check, Services, Fresh, Nothing, StoredAreaIsValid
  <2>5. ASSUME NEW db \in Database, listAreas(db)
        PROVE  Inv'
    BY <2>5 DEF listAreas, Waiting, Fresh, Nothing, StoredAreaIsValid
  <2>6. CASE UNCHANGED vars
    BY <2>6 DEF vars, Fresh, StoredAreaIsValid
  <2> QED
    BY <2>1, <2>2, <2>3, <2>4, <2>5, <2>6 DEF Next
<1> QED
  BY <1>1, <1>2, PTL DEF Spec

(***************************************************************************)
(* GET /areas agrees with what the client was told of its POST.            *)
(***************************************************************************)
THEOREM ListingIsTrue == Spec => []ListingMatchesAnswer
<1> DEFINE Told == received.to = "areas" =>
                     \/ answer.status = 201 /\ answer.areas = findAllSummaries
                     \/ answer.status = 400 /\ written = {}
                     \/ answer.status = 500
           Quiet == received = Nothing => answer.status = 0
           Inv == Fresh /\ Told /\ Quiet /\ ListingMatchesAnswer
<1>1. Init => Inv
  BY DEF Init, Fresh, Nothing, ListingMatchesAnswer
<1>2. Inv /\ [Next]_vars => Inv'
  <2> SUFFICES ASSUME Inv, [Next]_vars
               PROVE  Inv'
    OBVIOUS
  <2>1. ASSUME NEW body \in AreaBodies, NEW db \in Database, createArea(body, db)
        PROVE  Inv'
    <3>1. received'.to = "areas" /\ written = {} /\ received' # Nothing
      BY <2>1 DEF createArea, Waiting, Fresh, Nothing
    <3> DEFINE created == /\ CreateAreaDto(body) /\ AreaConstructed(body)
                          /\ db = "up" /\ ~Refused(Area(body))
    <3>2. CASE created
      <4>1. /\ answer' = Summaries(201, {Created(body)})
            /\ written' = {Area(body)}
        BY <2>1, <3>2 DEF createArea, Performed
      <4>2. answer'.status = 201 /\ answer'.areas = {Created(body)}
        BY <4>1 DEF Summaries
      <4>3. findAllSummaries' = {Created(body)}
        BY <4>1 DEF findAllSummaries, Created
      <4> QED
        BY <3>1, <4>2, <4>3 DEF Fresh, ListingMatchesAnswer
    <3>3. CASE ~created
      <4>1. \/ answer'.status = 400 /\ written' = {}
            \/ answer'.status = 500
        BY <2>1, <3>1, <3>3, Answers DEF createArea
      <4> QED
        BY <3>1, <4>1 DEF Fresh, ListingMatchesAnswer
    <3> QED
      BY <3>2, <3>3
  <2>2. ASSUME NEW body \in LocationBodies, NEW t \in TransitionSets,
               NEW db \in Database, processLocation(body, t, db)
        PROVE  Inv'
    BY <2>2 DEF processLocation, Fresh, Nothing, ListingMatchesAnswer
  <2>3. ASSUME NEW m \in Messages, eachMessage(m)
        PROVE  Inv'
    BY <2>3 DEF eachMessage, Fresh, Nothing, ListingMatchesAnswer
  <2>4. ASSUME NEW service \in Services, NEW db \in Database, check(service, db)
        PROVE  Inv'
    BY <2>4 DEF check, Services, Fresh, Nothing, ListingMatchesAnswer
  <2>5. ASSUME NEW db \in Database, listAreas(db)
        PROVE  Inv'
    <3>1. /\ received' = [to |-> "list", db |-> db, before |-> answer]
          /\ written' = written
          /\ received = Nothing \/ received.to = "areas"
      BY <2>5 DEF listAreas, Waiting
    <3>2. answer'.status = 200 => answer'.areas = findAllSummaries
      BY <2>5, Answers DEF listAreas, Summaries
    <3>3. CASE received = Nothing
      <4>1. findAllSummaries = {} /\ answer.status = 0
        BY <3>3 DEF Fresh, findAllSummaries
      <4> QED
        BY <3>1, <3>2, <4>1 DEF Fresh, Nothing, ListingMatchesAnswer
    <3>4. CASE received.to = "areas"
      <4>1. written = {} => findAllSummaries = {}
        BY DEF findAllSummaries
      <4> HIDE DEF findAllSummaries
      <4> QED
        BY <3>1, <3>2, <3>4, <4>1 DEF Fresh, Nothing, ListingMatchesAnswer
    <3> QED
      BY <3>1, <3>3, <3>4
  <2>6. CASE UNCHANGED vars
    BY <2>6 DEF vars, Fresh, findAllSummaries, ListingMatchesAnswer
  <2> QED
    BY <2>1, <2>2, <2>3, <2>4, <2>5, <2>6 DEF Next
<1> QED
  BY <1>1, <1>2, PTL DEF Spec

=============================================================================
