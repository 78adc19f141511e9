--------------------------- MODULE GeofencePipeline ---------------------------
(***************************************************************************)
(* The way of a transition through the three services: a location is taken *)
(* and its transitions become outbox rows in the same commit, a poller     *)
(* sends the rows to Kafka, a consumer logs what it gets, and a client     *)
(* reads the log.                                                          *)
(*                                                                         *)
(* The parts are those of the other modules.  The location service is      *)
(* AreaTransitions, which LocationProcessing implements: locations are     *)
(* taken one at a time, each in one step.  That step is also the commit of *)
(* the transaction of OutboxDispatch.  The topic is the variable that the  *)
(* pollers and the consumers share; nothing else is.                       *)
(***************************************************************************)
EXTENDS Naturals, Sequences, FiniteSets, SequencesExt

CONSTANTS
    Users, Areas, Requests, Timestamps, LegacyStamps,   \* as in AreaTransitions
    sender,             \* sender[r]: the user whose location request r reports
    Pollers, BatchSize, \* as in OutboxDispatch
    NoEvent,            \* the current row of a poller between two rows
    SendTries,          \* how often KafkaJS tries one send
    DispatchFaults,     \* the calls of a poller that may fail
    MaxDispatchFaults,  \* bound: how many times they fail
    Consumers, NoConsumer, Established,     \* as in LoggingConsumer
    MaxConsumerFaults   \* bound: how many times something fails there

ASSUME RequestAssumption  == /\ IsFiniteSet(Requests) /\ IsFiniteSet(Areas)
                             /\ sender \in [Requests -> Users]
                             /\ NoEvent \notin Requests \X Areas
ASSUME StampAssumption    == /\ Timestamps \subseteq Nat \ {0}
                             /\ LegacyStamps \subseteq Nat \ {0}
ASSUME DispatchAssumption == /\ BatchSize \in Nat \ {0}
                             /\ SendTries \in Nat \ {0}
                             /\ DispatchFaults \subseteq
                                  {"claim", "ack", "publish", "mark", "reset",
                                   "crash"}
                             /\ MaxDispatchFaults \in Nat
ASSUME ConsumerAssumption == /\ NoConsumer \notin Consumers
                             /\ Established \in BOOLEAN
                             /\ MaxConsumerFaults \in Nat

VARIABLES
    userAreaState, watermark, outbox,               \* of AreaTransitions
    status, attempts, createdAt, committedAt,       \* of OutboxDispatch
    pollerPc, batch, current, tries, dispatchFaults,
    topic,                                          \* shared
    committed, owner, consumerPc, position,         \* of LoggingConsumer
    logRows, consumerFaults

locationVars == <<userAreaState, watermark, outbox>>
dispatchVars == <<status, attempts, createdAt, committedAt,
                  pollerPc, batch, current, tries, dispatchFaults>>
consumerVars == <<committed, owner, consumerPc, position, logRows,
                  consumerFaults>>
vars == <<locationVars, dispatchVars, topic, consumerVars>>

\* The event id of a transition: one request makes one event per area at most.
EventIds == Requests \X Areas

EventId(e) == <<e.request, e.areaId>>

EventRequest == [x \in EventIds |-> x[1]]

\* The consumer finds every message of the outbox valid (ContractKept of
\* ServiceBoundaries).
MessageKind == [x \in EventIds |-> "event"]

\* A row is sent once, and once more at most for each fault, of which a lost
\* acknowledgement that KafkaJS makes good is one.
MaxMessages == Cardinality(EventIds) + MaxDispatchFaults

L == INSTANCE AreaTransitions WITH
        Users <- Users, Areas <- Areas, Requests <- Requests,
        Timestamps <- Timestamps, LegacyStamps <- LegacyStamps,
        userAreaState <- userAreaState, watermark <- watermark,
        outbox <- outbox

D == INSTANCE OutboxDispatch WITH
        Rows <- EventIds, Transactions <- Requests,
        transaction <- EventRequest, partitionKey <- sender,
        Pollers <- Pollers, NoRow <- NoEvent, BatchSize <- BatchSize,
        SendTries <- SendTries,
        Faults <- DispatchFaults, MaxFaults <- MaxDispatchFaults,
        status <- status, attempts <- attempts, createdAt <- createdAt,
        committedAt <- committedAt, pc <- pollerPc, batch <- batch,
        current <- current, tries <- tries, topic <- topic,
        faults <- dispatchFaults

C == INSTANCE LoggingConsumer WITH
        Consumers <- Consumers, NoConsumer <- NoConsumer,
        Messages <- EventIds, kind <- MessageKind,
        Established <- Established, MaxMessages <- MaxMessages,
        MaxFaults <- MaxConsumerFaults,
        topic <- topic, committed <- committed, owner <- owner,
        pc <- consumerPc, position <- position, rows <- logRows,
        faults <- consumerFaults

Init == L!Init /\ D!Init /\ C!Init

-----------------------------------------------------------------------------
\* The transaction of request r begins, and then waits for its user's lock.
Begin(r) == D!Begin(r) /\ UNCHANGED <<locationVars, consumerVars>>

(***************************************************************************)
(* The transaction of request r commits what its location changed:         *)
(* membership, watermark and outbox rows.                                  *)
(***************************************************************************)
\* A mutated form: only the entered areas get outbox rows.
ChangedEntered(r, inside) ==
    inside \ L!Inside(userAreaState[sender[r]])

\* The areas whose membership changes when `inside` is what r observed.
Changed(r, inside) ==
    LET transitions == L!computeTransitions(
                           L!Inside(userAreaState[sender[r]]), inside)
    IN  transitions.enteredAreaIds \cup transitions.exitedAreaIds

TakeLocation(r, inside, timestamp) ==
    /\ L!Observe(r, sender[r], inside, timestamp)
    /\ D!CommitTransaction(r, {r} \X Changed(r, inside))
    /\ UNCHANGED consumerVars

\* A stale location: its transaction commits without having written anything.
IgnoreLocation(r, timestamp) ==
    /\ ~L!Newer(sender[r], timestamp)
    /\ D!CommitTransaction(r, {})
    /\ UNCHANGED <<locationVars, consumerVars>>

\* A poller of the location service, and a consumer of the logging service.
Dispatch(p) == D!PollerStep(p) /\ UNCHANGED <<locationVars, consumerVars>>

Consume(c) == C!ConsumerStep(c) /\ UNCHANGED <<locationVars, dispatchVars>>

Next ==
    \/ \E r \in Requests :
         \/ Begin(r)
         \/ \E inside \in SUBSET Areas, timestamp \in Timestamps :
                TakeLocation(r, inside, timestamp)
         \/ \E timestamp \in Timestamps : IgnoreLocation(r, timestamp)
    \/ \E p \in Pollers : Dispatch(p)
    \/ \E c \in Consumers : Consume(c)

Spec == Init /\ [][Next]_vars

\* The fairness of the parts: pollers and consumers keep running.
FairSpec ==
    /\ Spec
    /\ \A p \in Pollers : WF_vars(D!RunCycle(p) /\ Dispatch(p))
    /\ \A c \in Consumers : WF_vars(C!Consume(c) /\ Consume(c))

-----------------------------------------------------------------------------
\* The events that have a row in the log.
Logged == {e \in outbox : logRows[EventId(e)] > 0}

\* The position in the topic of the first message about an event.
FirstSent(e) ==
    CHOOSE i \in DOMAIN topic :
        /\ topic[i] = EventId(e)
        /\ \A j \in 1 .. i - 1 : topic[j] # EventId(e)

\* A mutated form: ORDER BY received_at DESC, the order of the first delivery.
findAllByReceipt ==
    {s \in SetToSeqs(Logged) :
        \A i, j \in DOMAIN s : i < j => FirstSent(s[i]) > FirstSent(s[j])}

(***************************************************************************)
(* GET /logs: all rows, ORDER BY occurred_at DESC, which leaves open the   *)
(* order of the transitions of one location.                               *)
(***************************************************************************)
findAll ==
    {s \in SetToSeqs(Logged) :
        \A i, j \in DOMAIN s : i < j => s[i].timestamp >= s[j].timestamp}

-----------------------------------------------------------------------------
(***************************************************************************)
(* The pipeline does what TransitionDelivery promises.                     *)
(***************************************************************************)
Delivery == INSTANCE TransitionDelivery WITH
                Transitions <- EventIds,
                recorded <- {EventId(e) : e \in outbox},
                logRows <- logRows

(***************************************************************************)
(* Every recorded transition is logged in the end, exactly once, and       *)
(* nothing else is: from the commit of the location to the row of the log, *)
(* through all the failures after which a row is retried or a message      *)
(* delivered again.                                                        *)
(***************************************************************************)
DeliversTransitions == Delivery!FairSpec

(***************************************************************************)
(* Nothing is lost on the way: the row of a recorded event is pending, or  *)
(* in the hands of a poller that will finish it; or its message is in the  *)
(* part of the topic that the group has not committed past; or it is in    *)
(* the log.  Neither service can see this: the first marks the row when    *)
(* Kafka has it, and the second commits an offset.  It takes pollers that  *)
(* strand no row (StrandedBounded): a row that is `processing` in nobody's *)
(* hands is not on its way.                                                *)
(***************************************************************************)
OnItsWay(x) ==
    \/ status[x] = "pending"
    \/ D!Held(x)
    \/ \E i \in DOMAIN topic : i >= committed /\ topic[i] = x

NothingLost ==
    \A e \in outbox : OnItsWay(EventId(e)) \/ logRows[EventId(e)] > 0

SameSubject(e, f) == e.userId = f.userId /\ e.areaId = f.areaId

(***************************************************************************)
(* Once all recorded events are logged, GET /logs tells the membership:    *)
(* the first line about a user and an area says whether the user is        *)
(* inside, and ENTER and EXIT alternate from there on.  Kafka does not     *)
(* keep the order of a user's events (PerUserOrder of OutboxDispatch), so  *)
(* this rests on the order of the SELECT.                                  *)
(***************************************************************************)
LogTellsMembership ==
    Logged = outbox =>
        \A s \in findAll : \A i \in DOMAIN s :
            LET above == {j \in 1 .. i - 1 : SameSubject(s[j], s[i])}
            IN  /\ above = {} =>
                     (s[i].type = L!UserEnteredArea
                        <=> s[i].areaId \in L!Inside(userAreaState[s[i].userId]))
                /\ \A j \in above :
                     (\A k \in above : k <= j) => s[j].type # s[i].type

(***************************************************************************)
(* Liveness of the outbox, with the consumers at work.                     *)
(***************************************************************************)
EveryRowPublished == D!EveryRowPublished

(***************************************************************************)
(* A user who waits for each answer has its events in Kafka in the order   *)
(* of its locations, when the one poller takes one row at a time.          *)
(***************************************************************************)
OrderedWhenSerial == D!OrderedWhenSerial

(***************************************************************************)
(* The pollers and the consumers have nothing left to do, and no poller    *)
(* has left a row behind in `processing`.                                  *)
(***************************************************************************)
CaughtUp ==
    /\ \A x \in EventIds : status[x] \in {"none", "published"}
    /\ committed = Len(topic) + 1

(***************************************************************************)
(* The inductive invariant: those of the two parts, and what ties the      *)
(* outbox of the one specification to the table of the other.              *)
(***************************************************************************)
OutboxIsTable ==
    {EventId(e) : e \in outbox} = {x \in EventIds : status[x] # "none"}

IInv ==
    /\ D!IInv
    /\ C!IInv
    /\ OutboxIsTable
=============================================================================
