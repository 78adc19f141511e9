--------------------------- MODULE LoggingConsumer ---------------------------
(***************************************************************************)
(* From Kafka to the log: the consumers of the logging service.            *)
(*                                                                         *)
(* One partition of the topic is modelled: partitions share nothing but    *)
(* the log table.  The instances of the service form a consumer group; the *)
(* one that owns the partition gets its messages one at a time.  A message *)
(* is saved and then its offset is committed, by hand.  When the handler   *)
(* throws, KafkaJS gives it the same message again, and in the end         *)
(* restarts the consumer, which goes on from the committed offset.         *)
(*                                                                         *)
(* Offsets start at 1 here, and 0 stands for "the group has committed      *)
(* nothing".                                                               *)
(***************************************************************************)
EXTENDS Naturals, Sequences

CONSTANTS
    Consumers,      \* instances of the logging service
    NoConsumer,     \* the owner of an unassigned partition
    Messages,       \* what a message may carry; for a valid one, its eventId
    kind,           \* kind[m]: what the handler makes of m
    Established,    \* whether the group has committed an offset before
    MaxMessages,    \* bound: the length of the partition
    MaxFaults       \* bound: how many times something fails

(***************************************************************************)
(* "event": a valid transition.  "invalid": not JSON, or a field missing,  *)
(* or a value object throws DomainValidationError.  "poison": every try    *)
(* throws another error, as `null` does, which is JSON without properties, *)
(* and an areaId that is no UUID, which only the database finds out.       *)
(***************************************************************************)
Kinds == {"event", "invalid", "poison"}

ASSUME ConsumerAssumption == NoConsumer \notin Consumers
ASSUME KindAssumption     == kind \in [Messages -> Kinds]
ASSUME StartAssumption    == Established \in BOOLEAN
ASSUME BoundAssumption    == MaxMessages \in Nat /\ MaxFaults \in Nat

VARIABLES
    topic,          \* the messages of the partition
    committed,      \* the offset the group goes on from, or NoOffset
    owner,          \* the consumer that the partition is assigned to
    pc,             \* pc[c]: where the handler of consumer c stands
    position,       \* position[c]: offset of the message c is at
    rows,           \* rows[m]: rows of area_transition_logs with m's event_id
    faults          \* how many faults have happened

vars == <<topic, committed, owner, pc, position, rows, faults>>

NoOffset == 0

TypeOK ==
    /\ topic \in Seq(Messages)
    /\ committed \in 0 .. Len(topic) + 1
    /\ owner \in Consumers \cup {NoConsumer}
    /\ pc \in [Consumers -> {"idle", "saving", "committing"}]
    /\ position \in [Consumers -> 0 .. Len(topic) + 1]
    /\ rows \in [Messages -> Nat]
    /\ faults \in 0 .. MaxFaults

Init ==
    /\ topic = << >>
    /\ committed = IF Established THEN 1 ELSE NoOffset
    /\ owner = NoConsumer
    /\ pc = [c \in Consumers |-> "idle"]
    /\ position = [c \in Consumers |-> NoOffset]
    /\ rows = [m \in Messages |-> 0]
    /\ faults = 0

-----------------------------------------------------------------------------
Current(c) == topic[position[c]]

Goto(c, label) == pc' = [pc EXCEPT ![c] = label]

Fault == faults < MaxFaults /\ faults' = faults + 1

(***************************************************************************)
(* Mutated forms of definitions below.                                     *)
(***************************************************************************)
\* A plain INSERT into a table without the unique constraint.
InsertAlways(m) == [rows EXCEPT ![m] = @ + 1]

\* The error of the database is swallowed, and the offset committed.
SaveFailsQuietly(c) ==
    /\ pc[c] = "saving"
    /\ Fault
    /\ Goto(c, "committing")
    /\ UNCHANGED <<topic, committed, owner, position, rows>>

\* The handler returns on an invalid message without a commit.
eachMessageStuckOnInvalid(c) ==
    /\ owner = c
    /\ pc[c] = "idle"
    /\ position[c] \in DOMAIN topic
    /\ kind[Current(c)] = "event"
    /\ Goto(c, "saving")
    /\ UNCHANGED <<topic, committed, owner, position, rows, faults>>

\* The committed offset is one too far: Number(offset) + 2.
commitOffsetTooFar(c) ==
    /\ pc[c] = "committing"
    /\ owner = c
    /\ committed' = position[c] + 2
    /\ position' = [position EXCEPT ![c] = @ + 1]
    /\ Goto(c, "idle")
    /\ UNCHANGED <<topic, owner, rows, faults>>

\* The commit of a consumer that lost the partition is not fenced.
commitOffsetUnfenced(c) ==
    /\ pc[c] = "committing"
    /\ committed' = position[c] + 1
    /\ position' = [position EXCEPT ![c] = @ + 1]
    /\ Goto(c, "idle")
    /\ UNCHANGED <<topic, owner, rows, faults>>

\* An invalid message is saved, too.
eachMessageUnchecked(c) ==
    /\ owner = c
    /\ pc[c] = "idle"
    /\ position[c] \in DOMAIN topic
    /\ kind[Current(c)] \in {"event", "invalid"} /\ Goto(c, "saving")
    /\ UNCHANGED <<topic, committed, owner, position, rows, faults>>

\* A consumer always starts at the end of the partition.
StartAtEnd == Len(topic) + 1

(***************************************************************************)
(* Kafka: the outbox publisher of the location service appends messages,   *)
(* possibly one of them twice, and the group assigns the partition.        *)
(***************************************************************************)
Deliver(m) ==
    /\ topic' = Append(topic, m)
    /\ UNCHANGED <<committed, owner, pc, position, rows, faults>>

Produce(m) == Len(topic) < MaxMessages /\ Deliver(m)

\* subscribe with fromBeginning false: without an offset, at the end.
StartOffset == IF committed = NoOffset THEN Len(topic) + 1 ELSE committed

Assign(c) ==
    /\ pc[c] = "idle"
    /\ owner' = c
    /\ position' = [position EXCEPT ![c] = StartOffset]
    /\ UNCHANGED <<topic, committed, pc, rows>>

\* onModuleInit, or the restart after an error: the free partition is taken.
Join(c) ==
    /\ owner = NoConsumer
    /\ Assign(c)
    /\ UNCHANGED faults

\* A rebalance: the handler of the former owner may still be running.
Rebalance(c) ==
    /\ owner \notin {NoConsumer, c}
    /\ Fault
    /\ Assign(c)

(***************************************************************************)
(* eachMessage of consumer c.                                              *)
(***************************************************************************)
\* A valid message goes on to the use case, an invalid one to the commit; a
\* poison message throws, which leaves the consumer where it is.
eachMessage(c) ==
    /\ owner = c
    /\ pc[c] = "idle"
    /\ position[c] \in DOMAIN topic
    /\ \/ kind[Current(c)] = "event" /\ Goto(c, "saving")
       \/ kind[Current(c)] = "invalid" /\ Goto(c, "committing")
    /\ UNCHANGED <<topic, committed, owner, position, rows, faults>>

\* INSERT ... ON CONFLICT (event_id) DO NOTHING.
Inserted(m) == IF rows[m] = 0 THEN [rows EXCEPT ![m] = 1] ELSE rows

save(c) ==
    /\ pc[c] = "saving"
    /\ rows' = Inserted(Current(c))
    /\ Goto(c, "committing")
    /\ UNCHANGED <<topic, committed, owner, position, faults>>

\* The database fails, with or without the row inserted, and the handler throws.
SaveFails(c) ==
    /\ pc[c] = "saving"
    /\ Fault
    /\ rows' \in {rows, Inserted(Current(c))}
    /\ Goto(c, "idle")
    /\ UNCHANGED <<topic, committed, owner, position>>

\* commitOffsets with the offset of the next message; KafkaJS moves on.
commitOffset(c) ==
    /\ pc[c] = "committing"
    /\ owner = c
    /\ committed' = position[c] + 1
    /\ position' = [position EXCEPT ![c] = @ + 1]
    /\ Goto(c, "idle")
    /\ UNCHANGED <<topic, owner, rows, faults>>

\* The commit fails, perhaps in its answer only, and the handler throws.
CommitFails(c) ==
    /\ pc[c] = "committing"
    /\ owner = c
    /\ Fault
    /\ committed' \in {committed, position[c] + 1}
    /\ Goto(c, "idle")
    /\ UNCHANGED <<topic, owner, position, rows>>

\* A consumer that lost the partition in the meantime is fenced.
CommitFenced(c) ==
    /\ pc[c] = "committing"
    /\ owner # c
    /\ Goto(c, "idle")
    /\ UNCHANGED <<topic, committed, owner, position, rows, faults>>

\* The process ends, or KafkaJS gives up retrying and restarts the consumer.
Stop(c) ==
    /\ Fault
    /\ owner' = IF owner = c THEN NoConsumer ELSE owner
    /\ Goto(c, "idle")
    /\ UNCHANGED <<topic, committed, position, rows>>

\* What a consumer that is up does by itself.
Consume(c) ==
    \/ Join(c)
    \/ eachMessage(c)
    \/ save(c)
    \/ commitOffset(c)
    \/ CommitFenced(c)

ConsumerStep(c) ==
    \/ Consume(c)
    \/ Rebalance(c)
    \/ SaveFails(c)
    \/ CommitFails(c)
    \/ Stop(c)

Next ==
    \/ \E m \in Messages : Produce(m)
    \/ \E c \in Consumers : ConsumerStep(c)

Spec == Init /\ [][Next]_vars

(***************************************************************************)
(* The same without the bound on the partition: all that the consumers     *)
(* rely on when the producers are those of another module.                 *)
(***************************************************************************)
OpenNext ==
    \/ \E m \in Messages : Deliver(m)
    \/ \E c \in Consumers : ConsumerStep(c)

OpenSpec == Init /\ [][OpenNext]_vars

\* KafkaJS keeps polling, and a consumer that was stopped is started again.
FairSpec == Spec /\ \A c \in Consumers : WF_vars(Consume(c))

-----------------------------------------------------------------------------
(***************************************************************************)
(* A message is settled when it needs no further delivery: its event has   *)
(* its row, or it has none to write.                                       *)
(***************************************************************************)
Settled(m) == kind[m] = "event" => rows[m] > 0

(***************************************************************************)
(* An event has one row, however often it is published and delivered, and  *)
(* even if two consumers save it at the same time around a rebalance.      *)
(***************************************************************************)
OneRowPerEvent == \A m \in Messages : rows[m] <= 1

(***************************************************************************)
(* At-least-once: the group never goes past a message that is not settled, *)
(* whatever failed, restarted or was reassigned between save and commit.   *)
(* It needs a group that has committed an offset before (Established).     *)
(***************************************************************************)
CommittedIsSettled ==
    \A i \in DOMAIN topic : i < committed => Settled(topic[i])

(***************************************************************************)
(* Action property: the committed offset never goes back, so a group never *)
(* has to begin again behind a message it was done with.  A consumer that  *)
(* has lost the partition while it worked holds an older position; its     *)
(* commit must not win.                                                    *)
(***************************************************************************)
OffsetsMoveForward == [][committed' >= committed]_vars

(***************************************************************************)
(* The consumers keep the promise of TransitionDelivery for the partition: *)
(* the valid events that are in it are logged, each once, and nothing else *)
(* is, an invalid or a poison message least of all.                        *)
(***************************************************************************)
Delivery == INSTANCE TransitionDelivery WITH
                Transitions <- Messages,
                recorded <- {m \in Messages :
                                /\ kind[m] = "event"
                                /\ \E i \in DOMAIN topic : topic[i] = m},
                logRows <- rows

LogsOnlyEvents == Delivery!Spec

(***************************************************************************)
(* Liveness: every message of the partition is settled in the end.         *)
(***************************************************************************)
EveryMessageSettled ==
    \A i \in 1 .. MaxMessages :
        i \in DOMAIN topic ~> i \in DOMAIN topic /\ Settled(topic[i])

-----------------------------------------------------------------------------
(***************************************************************************)
(* The inductive invariant behind the safety properties.                   *)
(***************************************************************************)
\* A handler that runs has a message, and saves it before it commits.
HandlerShape ==
    \A c \in Consumers :
        /\ pc[c] # "idle" => position[c] \in DOMAIN topic
        /\ pc[c] = "saving" => kind[Current(c)] = "event"
        /\ pc[c] = "committing" => Settled(Current(c))

\* The owner is never ahead of the committed offset.
OwnerNotAhead ==
    Established =>
        /\ committed # NoOffset
        /\ \A c \in Consumers : owner = c => position[c] <= committed

\* Nor is it more than one behind: a commit may have been heard by Kafka only.
OwnerNotBehind == \A c \in Consumers : owner = c => committed <= position[c] + 1

IInv ==
    /\ TypeOK
    /\ HandlerShape
    /\ OwnerNotAhead
    /\ OwnerNotBehind
    /\ OneRowPerEvent
    /\ Established => CommittedIsSettled
=============================================================================
