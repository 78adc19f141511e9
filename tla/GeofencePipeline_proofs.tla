----------------------- MODULE GeofencePipeline_proofs -----------------------
(***************************************************************************)
(* Proofs about GeofencePipeline, for any number of requests, areas,       *)
(* pollers, consumers and faults.  What is proved of the parts is taken    *)
(* from their proof modules; here it is shown that every step of the       *)
(* pipeline is a step of each part, or none, and that the parts agree.     *)
(***************************************************************************)
EXTENDS GeofencePipeline, FiniteSetTheorems, TLAPS

(***************************************************************************)
(* The proof modules of the parts, with the values that GeofencePipeline   *)
(* gives the parts.                                                        *)
(***************************************************************************)
DP == INSTANCE OutboxDispatch_proofs WITH
        Rows <- EventIds, Transactions <- Requests,
        transaction <- EventRequest, partitionKey <- sender,
        Pollers <- Pollers, NoRow <- NoEvent, BatchSize <- BatchSize,
        SendTries <- SendTries,
        Faults <- DispatchFaults, MaxFaults <- MaxDispatchFaults,
        status <- status, attempts <- attempts, createdAt <- createdAt,
        committedAt <- committedAt, pc <- pollerPc, batch <- batch,
        current <- current, tries <- tries, topic <- topic,
        faults <- dispatchFaults

CP == INSTANCE LoggingConsumer_proofs WITH
        Consumers <- Consumers, NoConsumer <- NoConsumer,
        Messages <- EventIds, kind <- MessageKind,
        Established <- Established, MaxMessages <- MaxMessages,
        MaxFaults <- MaxConsumerFaults,
        topic <- topic, committed <- committed, owner <- owner,
        pc <- consumerPc, position <- position, rows <- logRows,
        faults <- consumerFaults

\* What the parts assume of their constants holds.
LEMMA DispatchAssumptions ==
    /\ NoEvent \notin EventIds
    /\ DP!IsFiniteSet(EventIds) /\ DP!IsFiniteSet(Requests)
    /\ IsFiniteSet(EventIds)
    /\ EventRequest \in [EventIds -> Requests]
    /\ BatchSize \in Nat \ {0}
    /\ SendTries \in Nat \ {0}
    /\ DispatchFaults \subseteq DP!FaultKinds /\ MaxDispatchFaults \in Nat
<1>1. IsFiniteSet(EventIds)
  BY RequestAssumption, FS_Product DEF EventIds
<1>2. DP!IsFiniteSet(EventIds) /\ DP!IsFiniteSet(Requests)
  BY <1>1, RequestAssumption DEF IsFiniteSet, DP!IsFiniteSet
<1> QED
  BY <1>1, <1>2, RequestAssumption, DispatchAssumption
     DEF EventIds, EventRequest, DP!FaultKinds

LEMMA ConsumerAssumptions ==
    /\ NoConsumer \notin Consumers
    /\ MessageKind \in [EventIds -> CP!Kinds]
    /\ Established \in BOOLEAN
    /\ MaxMessages \in Nat /\ MaxConsumerFaults \in Nat
<1>1. Cardinality(EventIds) \in Nat
  BY DispatchAssumptions, FS_CardinalityType
<1>2. MaxMessages \in Nat
  BY <1>1, DispatchAssumption DEF MaxMessages
<1> QED
  BY <1>2, ConsumerAssumption DEF MessageKind, CP!Kinds

-----------------------------------------------------------------------------
(***************************************************************************)
(* The definitions of a part and of its proof module are the same.         *)
(***************************************************************************)
LEMMA SameCardinality ==
    \A S : D!Cardinality(S) = DP!Cardinality(S)
BY DEF D!Cardinality, DP!Cardinality

LEMMA SameStranded ==
    /\ D!Stranded = DP!Stranded
    /\ D!Stranding = DP!Stranding
BY DEF D!Stranded, DP!Stranded, D!HeldByNone, DP!HeldByNone, D!Stranding,
       DP!Stranding

LEMMA SameDispatchState ==
    /\ D!Init <=> DP!Init
    /\ D!IInv <=> DP!IInv
<1>1. D!Init <=> DP!Init
  BY DEF D!Init, DP!Init
<1>2. D!TypeOK <=> DP!TypeOK
  BY DEF D!TypeOK, DP!TypeOK, D!Status, DP!Status
<1>3. \A x : (D!Sent(x) <=> DP!Sent(x)) /\ D!Copies(x) = DP!Copies(x)
  BY SameCardinality DEF D!Sent, DP!Sent, D!Copies, DP!Copies
<1>4. D!CycleShape <=> DP!CycleShape
  BY <1>3 DEF D!CycleShape, DP!CycleShape
<1>5. /\ D!ClaimedByOne <=> DP!ClaimedByOne
      /\ D!HeldIsProcessing <=> DP!HeldIsProcessing
  BY DEF D!ClaimedByOne, DP!ClaimedByOne, D!HeldIsProcessing,
         DP!HeldIsProcessing
<1>6. /\ D!SentIsCommitted <=> DP!SentIsCommitted
      /\ D!PublishedWasSent <=> DP!PublishedWasSent
  BY <1>3 DEF D!SentIsCommitted, DP!SentIsCommitted, D!PublishedWasSent,
              DP!PublishedWasSent
<1>7. /\ D!CopiesOfHeld <=> DP!CopiesOfHeld
      /\ D!DuplicatesAreAttempts <=> DP!DuplicatesAreAttempts
  BY <1>3 DEF D!CopiesOfHeld, DP!CopiesOfHeld, D!Tried, DP!Tried, D!CopiesOf,
              DP!CopiesOf, D!DuplicatesAreAttempts, DP!DuplicatesAreAttempts
<1>8. D!BatchIsBounded <=> DP!BatchIsBounded
  BY SameCardinality DEF D!BatchIsBounded, DP!BatchIsBounded
<1>9. D!StrandedBounded <=> DP!StrandedBounded
  BY SameStranded, SameCardinality DEF D!StrandedBounded, DP!StrandedBounded
<1> QED
  BY <1>1, <1>2, <1>4, <1>5, <1>6, <1>7, <1>8, <1>9 DEF D!IInv, DP!IInv

LEMMA SameTransactionSteps ==
    ASSUME NEW r \in Requests, NEW B
    PROVE  /\ D!Begin(r) => DP!Begin(r)
           /\ D!CommitTransaction(r, B) => DP!CommitTransaction(r, B)
<1>1. \A f : D!Numbered(f) = DP!Numbered(f)
  BY SameCardinality DEF D!Numbered, DP!Numbered
<1>2. D!SetStatus(B, "pending") = DP!SetStatus(B, "pending")
  BY DEF D!SetStatus, DP!SetStatus
<1>3. D!Begin(r) => DP!Begin(r)
  BY <1>1 DEF D!Begin, DP!Begin, D!pollers, DP!pollers
<1>4. D!CommitTransaction(r, B) => DP!CommitTransaction(r, B)
  BY <1>1, <1>2 DEF D!CommitTransaction, DP!CommitTransaction, D!pollers,
                    DP!pollers
<1> QED
  BY <1>3, <1>4

LEMMA SamePollerSteps ==
    ASSUME NEW p \in Pollers, D!PollerStep(p)
    PROVE  DP!PollerStep(p)
<1> USE DEF D!pollers, DP!pollers, D!table, DP!table
<1>0. /\ D!Claimable = DP!Claimable
      /\ \A B : D!SetStatus(B, "processing") = DP!SetStatus(B, "processing")
  BY SameCardinality DEF D!Claimable, DP!Claimable, D!SetStatus, DP!SetStatus
<1>1. CASE D!claimPendingBatch(p)
  <2>1. DP!claimPendingBatch(p)
    BY <1>0, <1>1 DEF D!claimPendingBatch, DP!claimPendingBatch
  <2> QED
    BY <2>1 DEF DP!PollerStep, DP!RunCycle
<1>2. CASE D!ClaimUnanswered(p)
  <2>1. DP!ClaimUnanswered(p)
    BY <1>0, <1>2 DEF D!ClaimUnanswered, DP!ClaimUnanswered, D!Fault,
                      DP!Fault
  <2> QED
    BY <2>1 DEF DP!PollerStep
<1>3. CASE D!publish(p)
  BY <1>3 DEF D!publish, DP!publish, D!TrySend, DP!TrySend, DP!PollerStep,
              DP!RunCycle
<1>4. CASE D!PublishFails(p) \/ D!AckLost(p)
  BY <1>4 DEF D!PublishFails, DP!PublishFails, D!AckLost, DP!AckLost,
              D!TrySend, DP!TrySend, D!Fault, DP!Fault, DP!PollerStep
<1>5. CASE D!markPublished(p)
  BY <1>5 DEF D!markPublished, DP!markPublished, D!NextRow, DP!NextRow,
              DP!PollerStep, DP!RunCycle
<1>6. CASE D!MarkFails(p)
  BY <1>6 DEF D!MarkFails, DP!MarkFails, D!Fault, DP!Fault, DP!PollerStep
<1>7. CASE D!resetToRetryable(p)
  BY <1>7 DEF D!resetToRetryable, DP!resetToRetryable, D!ResetRow,
              DP!ResetRow, D!NextRow, DP!NextRow, DP!PollerStep, DP!RunCycle
<1>8. CASE D!ResetFails(p)
  BY <1>8 DEF D!ResetFails, DP!ResetFails, D!ResetRow, DP!ResetRow,
              D!Abandon, DP!Abandon, D!Fault, DP!Fault, DP!PollerStep
<1>9. CASE D!Crash(p)
  BY <1>9 DEF D!Crash, DP!Crash, D!Abandon, DP!Abandon, D!Fault, DP!Fault,
              DP!PollerStep
<1> QED
  BY <1>1, <1>2, <1>3, <1>4, <1>5, <1>6, <1>7, <1>8, <1>9
     DEF D!PollerStep, D!RunCycle

LEMMA SameConsumerState ==
    /\ C!Init <=> CP!Init
    /\ C!IInv <=> CP!IInv
BY DEF C!Init, CP!Init, C!NoOffset, CP!NoOffset, C!IInv, CP!IInv,
       C!TypeOK, CP!TypeOK, C!HandlerShape, CP!HandlerShape,
       C!OwnerNotAhead, CP!OwnerNotAhead, C!OwnerNotBehind,
       CP!OwnerNotBehind, C!OneRowPerEvent, CP!OneRowPerEvent,
       C!CommittedIsSettled, CP!CommittedIsSettled,
       C!Settled, CP!Settled, C!Current, CP!Current

LEMMA SameConsumerSteps ==
    ASSUME NEW c \in Consumers, C!ConsumerStep(c)
    PROVE  CP!ConsumerStep(c)
<1> USE DEF C!Goto, CP!Goto, C!Fault, CP!Fault
<1>1. CASE C!Join(c) \/ C!Rebalance(c)
  BY <1>1 DEF C!Join, CP!Join, C!Rebalance, CP!Rebalance, C!Assign, CP!Assign,
              C!StartOffset, CP!StartOffset, C!NoOffset, CP!NoOffset,
              CP!ConsumerStep, CP!Consume
<1>2. CASE C!eachMessage(c)
  BY <1>2 DEF C!eachMessage, CP!eachMessage, C!Current, CP!Current,
              CP!ConsumerStep, CP!Consume
<1>3. CASE C!save(c) \/ C!SaveFails(c)
  BY <1>3 DEF C!save, CP!save, C!SaveFails, CP!SaveFails, C!Inserted,
              CP!Inserted, C!Current, CP!Current, CP!ConsumerStep, CP!Consume
<1>4. CASE C!commitOffset(c) \/ C!CommitFails(c) \/ C!CommitFenced(c)
  BY <1>4 DEF C!commitOffset, CP!commitOffset, C!CommitFails, CP!CommitFails,
              C!CommitFenced, CP!CommitFenced, CP!ConsumerStep, CP!Consume
<1>5. CASE C!Stop(c)
  BY <1>5 DEF C!Stop, CP!Stop, CP!ConsumerStep
<1> QED
  BY <1>1, <1>2, <1>3, <1>4, <1>5 DEF C!ConsumerStep, C!Consume

-----------------------------------------------------------------------------
(***************************************************************************)
(* Every step of the pipeline is a step of each part, or leaves it alone.  *)
(***************************************************************************)
\* The invariant, in the names of the proof modules.
PartsInv == DP!IInv /\ CP!IInv

LEMMA ConsumerKeepsTopic ==
    ASSUME CP!IInv, NEW c \in Consumers, C!ConsumerStep(c)
    PROVE  /\ topic' = topic
           /\ \/ logRows' = logRows
              \/ \E i \in DOMAIN topic :
                   /\ logRows[topic[i]] = 0
                   /\ logRows' = [logRows EXCEPT ![topic[i]] = 1]
<1>1. CP!TypeOK /\ CP!HandlerShape
  BY DEF CP!IInv
<1>2. CP!ConsumerStep(c)
  BY SameConsumerSteps
<1> QED
  BY <1>1, <1>2, CP!ConsumerLogs, ConsumerAssumptions

LEMMA DispatchSteps ==
    ASSUME PartsInv, [Next]_vars
    PROVE  [DP!Next]_DP!vars
<1> USE DEF dispatchVars, DP!vars
<1>1. ASSUME NEW r \in Requests, Begin(r) PROVE DP!Next
  BY <1>1, SameTransactionSteps DEF Begin, DP!Next
<1>2. ASSUME NEW r \in Requests, NEW B, D!CommitTransaction(r, B) PROVE DP!Next
  <2>1. B \in SUBSET EventIds
    BY <1>2 DEF D!CommitTransaction
  <2> QED
    BY <1>2, <2>1, SameTransactionSteps DEF DP!Next
<1>3. ASSUME NEW p \in Pollers, Dispatch(p) PROVE DP!Next
  BY <1>3, SamePollerSteps DEF Dispatch, DP!Next
<1>4. ASSUME NEW c \in Consumers, Consume(c) PROVE UNCHANGED DP!vars
  <2>1. topic' = topic
    BY <1>4, ConsumerKeepsTopic DEF Consume, PartsInv
  <2> QED
    BY <1>4, <2>1 DEF Consume
<1>5. CASE UNCHANGED vars
  BY <1>5 DEF vars
<1> QED
  BY <1>1, <1>2, <1>3, <1>4, <1>5 DEF Next, TakeLocation, IgnoreLocation

\* What a poller does to the topic and to the rows that are visible.
LEMMA PollerEffect ==
    ASSUME DP!IInv, NEW p \in Pollers, Dispatch(p)
    PROVE  /\ \A x \in EventIds : status'[x] = "none" <=> status[x] = "none"
           /\ \/ topic' = topic
              \/ \E x \in EventIds : topic' = Append(topic, x)
           /\ UNCHANGED <<locationVars, consumerVars>>
<1>1. DP!TypeInv /\ DP!ClaimedByOne
  BY DEF DP!IInv, DP!TypeInv
<1>2. DP!PollerStep(p)
  BY SamePollerSteps DEF Dispatch
<1>3. /\ \A x \in EventIds : status'[x] = "none" <=> status[x] = "none"
      /\ \/ topic' = topic
         \/ \E x \in batch[p] : topic' = Append(topic, x)
  BY <1>1, <1>2, DP!PollerKeepsCommitted, DispatchAssumptions
<1>4. batch[p] \subseteq EventIds
  BY <1>1 DEF DP!TypeInv, DP!TypeOK
<1> QED
  BY <1>3, <1>4 DEF Dispatch

LEMMA ConsumerSteps ==
    ASSUME PartsInv, [Next]_vars
    PROVE  [CP!OpenNext]_CP!vars
<1> USE DEF consumerVars, CP!vars
<1>1. ASSUME NEW r \in Requests, Begin(r) PROVE UNCHANGED CP!vars
  BY <1>1 DEF Begin, D!Begin
<1>2. ASSUME NEW r \in Requests, NEW B, D!CommitTransaction(r, B),
             UNCHANGED consumerVars
      PROVE  UNCHANGED CP!vars
  BY <1>2 DEF D!CommitTransaction
<1>3. ASSUME NEW p \in Pollers, Dispatch(p) PROVE [CP!OpenNext]_CP!vars
  BY <1>3, PollerEffect DEF PartsInv, CP!OpenNext, CP!Deliver
<1>4. ASSUME NEW c \in Consumers, Consume(c) PROVE CP!OpenNext
  BY <1>4, SameConsumerSteps DEF Consume, CP!OpenNext
<1>5. CASE UNCHANGED vars
  BY <1>5 DEF vars
<1> QED
  BY <1>1, <1>2, <1>3, <1>4, <1>5 DEF Next, TakeLocation, IgnoreLocation

LEMMA InitParts == Init => PartsInv
<1>1. DP!Init => DP!IInv
  BY DP!InitIInv, DispatchAssumptions
<1>2. CP!Init => CP!IInv
  BY CP!InitIInv, ConsumerAssumptions
<1> QED
  BY <1>1, <1>2, SameDispatchState, SameConsumerState DEF Init, PartsInv

LEMMA NextParts == PartsInv /\ [Next]_vars => PartsInv'
<1>1. DP!IInv /\ [DP!Next]_DP!vars => DP!IInv'
  BY DP!NextIInv, DispatchAssumptions
<1>2. CP!IInv /\ [CP!OpenNext]_CP!vars => CP!IInv'
  BY CP!NextIInv, ConsumerAssumptions
<1> QED
  BY <1>1, <1>2, DispatchSteps, ConsumerSteps DEF PartsInv

-----------------------------------------------------------------------------
(***************************************************************************)
(* The outbox of the location service is the table of the pollers.         *)
(***************************************************************************)
\* The events of a location are about the areas that it changes.
LEMMA ObservedIds ==
    ASSUME NEW r \in Requests, NEW inside, NEW timestamp,
           L!Observe(r, sender[r], inside, timestamp)
    PROVE  {EventId(e) : e \in outbox'}
             = {EventId(e) : e \in outbox} \cup {r} \X Changed(r, inside)
<1> DEFINE u == sender[r]
           E == L!Events(r, u, inside, timestamp)
<1>1. outbox' = outbox \cup E
  BY DEF L!Observe
<1>2. \A e \in E : EventId(e) \in {r} \X Changed(r, inside)
  BY DEF L!Events, L!OutboxInputs, L!DomainEvent, EventId, Changed
<1>3. ASSUME NEW a \in Changed(r, inside)
      PROVE  \E e \in E : EventId(e) = <<r, a>>
  <2> DEFINE event(type) == L!DomainEvent(r, [userId |-> u, timestamp |-> timestamp],
                                          a, type)
  <2>1. event(L!UserEnteredArea) \in E \/ event(L!UserExitedArea) \in E
    BY <1>3 DEF L!Events, L!OutboxInputs, Changed
  <2>2. \A type : EventId(event(type)) = <<r, a>>
    BY DEF L!DomainEvent, EventId
  <2> QED
    BY <2>1, <2>2
<1>4. {EventId(e) : e \in E} = {r} \X Changed(r, inside)
  BY <1>2, <1>3
<1> QED
  BY <1>1, <1>4

LEMMA CommittedIds ==
    ASSUME DP!TypeOK, NEW r \in Requests, NEW B, D!CommitTransaction(r, B)
    PROVE  {x \in EventIds : status'[x] # "none"}
             = {x \in EventIds : status[x] # "none"} \cup B
BY DEF D!CommitTransaction, D!SetStatus, DP!TypeOK

LEMMA NextOutboxIsTable ==
    ASSUME PartsInv, OutboxIsTable, [Next]_vars
    PROVE  OutboxIsTable'
<1>1. ASSUME outbox' = outbox,
             \A x \in EventIds : status'[x] = "none" <=> status[x] = "none"
      PROVE  OutboxIsTable'
  BY <1>1 DEF OutboxIsTable
<1>2. ASSUME NEW r \in Requests, Begin(r) PROVE OutboxIsTable'
  BY <1>1, <1>2 DEF Begin, D!Begin, locationVars
<1>3. ASSUME NEW r \in Requests, NEW inside, NEW timestamp,
             TakeLocation(r, inside, timestamp)
      PROVE  OutboxIsTable'
  BY <1>3, ObservedIds, CommittedIds
     DEF TakeLocation, OutboxIsTable, PartsInv, DP!IInv
<1>4. ASSUME NEW r \in Requests, NEW timestamp, IgnoreLocation(r, timestamp)
      PROVE  OutboxIsTable'
  BY <1>4, CommittedIds
     DEF IgnoreLocation, OutboxIsTable, PartsInv, DP!IInv, locationVars
<1>5. ASSUME NEW p \in Pollers, Dispatch(p) PROVE OutboxIsTable'
  BY <1>1, <1>5, PollerEffect DEF PartsInv, locationVars
<1>6. ASSUME NEW c \in Consumers, Consume(c) PROVE OutboxIsTable'
  BY <1>1, <1>6 DEF Consume, locationVars, dispatchVars
<1>7. CASE UNCHANGED vars
  BY <1>1, <1>7 DEF vars, locationVars, dispatchVars
<1> QED
  BY <1>2, <1>3, <1>4, <1>5, <1>6, <1>7 DEF Next

LEMMA InitIInv == Init => PartsInv /\ OutboxIsTable
<1>1. Init => OutboxIsTable
  BY DEF Init, L!Init, D!Init, OutboxIsTable
<1> QED
  BY <1>1, InitParts

LEMMA NextIInv ==
    PartsInv /\ OutboxIsTable /\ [Next]_vars => (PartsInv /\ OutboxIsTable)'
BY NextParts, NextOutboxIsTable

LEMMA PartsInvIsIInv == PartsInv /\ OutboxIsTable <=> IInv
BY SameDispatchState, SameConsumerState DEF PartsInv, IInv

(***************************************************************************)
(* The invariants of the parts hold in the pipeline, and the parts agree.  *)
(***************************************************************************)
THEOREM Invariance == Spec => []IInv
<1>1. Spec => [](PartsInv /\ OutboxIsTable)
  BY InitIInv, NextIInv, PTL DEF Spec
<1> QED
  BY <1>1, PartsInvIsIInv, PTL

(***************************************************************************)
(* What is proved of the parts alone holds in the pipeline: every          *)
(* behaviour of it is one of OutboxDispatch, and one of LoggingConsumer    *)
(* with a producer.                                                        *)
(***************************************************************************)
THEOREM PartsAreThemselves == Spec => DP!Spec /\ CP!OpenSpec
<1>1. Init => DP!Init /\ CP!Init
  BY SameDispatchState, SameConsumerState DEF Init
<1>2. PartsInv /\ [Next]_vars => [DP!Next]_DP!vars /\ [CP!OpenNext]_CP!vars
  BY DispatchSteps, ConsumerSteps
<1>3. Spec => []PartsInv
  <2>1. PartsInv /\ OutboxIsTable => PartsInv
    OBVIOUS
  <2> QED
    BY <2>1, InitIInv, NextIInv, PTL DEF Spec
<1> QED
  BY <1>1, <1>2, <1>3, PTL DEF Spec, DP!Spec, CP!OpenSpec

(***************************************************************************)
(* In the pipeline the pollers relay the rows as OutboxRelay does, ...     *)
(***************************************************************************)
THEOREM PipelineRelaysRows == Spec => DP!RelaysRows
BY PartsAreThemselves, DP!Refinement, DispatchAssumptions

(***************************************************************************)
(* ... they keep the order of a user's messages where OutboxDispatch does, *)
(***************************************************************************)
THEOREM PipelineSerialOrder == Spec => []OrderedWhenSerial
<1>1. DP!OrderedWhenSerial <=> OrderedWhenSerial
  BY DEF DP!OrderedWhenSerial, OrderedWhenSerial, D!OrderedWhenSerial,
         DP!OneAtATime, D!OneAtATime, DP!CommitsFollowBegins,
         D!CommitsFollowBegins, DP!PerUserOrder, D!PerUserOrder
<1>2. DP!Spec => []DP!OrderedWhenSerial
  BY DP!SerialOrder, DispatchAssumptions
<1> QED
  BY <1>1, <1>2, PartsAreThemselves, PTL

(***************************************************************************)
(* ... and the consumers never take the committed offset back.             *)
(***************************************************************************)
THEOREM PipelineNeverBack == Spec => CP!OffsetsMoveForward
<1>1. CP!IInv /\ [CP!OpenNext]_CP!vars => [committed' >= committed]_CP!vars
  BY CP!CommittedGrows, ConsumerAssumptions
<1>2. CP!OpenSpec => []CP!IInv
  BY CP!OpenInvariance, ConsumerAssumptions
<1> QED
  BY <1>1, <1>2, PartsAreThemselves, PTL DEF CP!OpenSpec, CP!OffsetsMoveForward

-----------------------------------------------------------------------------
(***************************************************************************)
(* A recorded event that is marked published was sent, and a message that  *)
(* the group has committed past was logged.  So one that is not on its way *)
(* and not in the log is `processing`, and in no poller's hands.           *)
(***************************************************************************)
LEMMA PublishedIsSomewhere ==
    ASSUME PartsInv, OutboxIsTable, Established, NEW e \in outbox,
           status[EventId(e)] \notin {"pending", "processing"},
           ~(logRows[EventId(e)] > 0)
    PROVE  \E i \in DOMAIN topic : i >= committed /\ topic[i] = EventId(e)
<1>1. /\ DP!TypeOK /\ DP!PublishedWasSent
      /\ CP!TypeOK /\ CP!CommittedIsSettled
  BY DEF PartsInv, DP!IInv, CP!IInv
<1>2. EventId(e) \in EventIds /\ status[EventId(e)] = "published"
  BY <1>1 DEF OutboxIsTable, DP!TypeOK, DP!Status
<1>3. PICK i \in DOMAIN topic : topic[i] = EventId(e)
  BY <1>1, <1>2 DEF DP!PublishedWasSent, DP!Sent
<1>4. ~(i < committed)
  BY <1>1, <1>2, <1>3 DEF CP!CommittedIsSettled, CP!Settled, MessageKind
<1>5. i \in Nat /\ committed \in Nat
  BY <1>1, <1>3 DEF CP!TypeOK
<1> QED
  BY <1>3, <1>4, <1>5

\* The recorded events that are neither in the log nor on their way to it.
Lost == {e \in outbox : ~OnItsWay(EventId(e)) /\ ~(logRows[EventId(e)] > 0)}

LEMMA LostIsStranded ==
    ASSUME PartsInv, OutboxIsTable, Established
    PROVE  {EventId(e) : e \in Lost} \subseteq D!Stranded
<1> SUFFICES ASSUME NEW e \in outbox, ~OnItsWay(EventId(e)),
                    ~(logRows[EventId(e)] > 0)
             PROVE  EventId(e) \in D!Stranded
    BY DEF Lost
<1>1. EventId(e) \in EventIds
  BY DEF OutboxIsTable
<1>2. status[EventId(e)] = "processing"
  BY PublishedIsSomewhere DEF OnItsWay
<1> QED
  BY <1>1, <1>2 DEF D!Stranded, D!HeldByNone, OnItsWay, D!Held

LEMMA StrandedWithin ==
    ASSUME PartsInv
    PROVE  D!StrandedBounded /\ IsFiniteSet(D!Stranded)
<1>1. D!StrandedBounded
  BY SameDispatchState DEF PartsInv, D!IInv
<1> QED
  BY <1>1, DispatchAssumptions, FS_Subset DEF D!Stranded

(***************************************************************************)
(* No transition is ever lost between the services, as long as no claim    *)
(* goes unanswered, no reset fails and no location service dies in a       *)
(* cycle; what else fails does no harm.                                    *)
(***************************************************************************)
THEOREM NoTransitionLost ==
    ASSUME Established, DispatchFaults \cap D!Stranding = {}
    PROVE  Spec => []NothingLost
<1>1. Spec => [](PartsInv /\ OutboxIsTable)
  BY InitIInv, NextIInv, PTL DEF Spec
<1>2. PartsInv /\ OutboxIsTable => NothingLost
  BY LostIsStranded, StrandedWithin DEF D!StrandedBounded, Lost, NothingLost
<1> QED
  BY <1>1, <1>2, PTL

(***************************************************************************)
(* And with those failures too, every transition that is lost is one of    *)
(* the rows that a poller left in `processing`: each failure loses no more *)
(* than one batch.                                                         *)
(***************************************************************************)
THEOREM LossIsBounded ==
    ASSUME Established
    PROVE  Spec => [](Cardinality({EventId(e) : e \in Lost})
                        <= BatchSize * dispatchFaults)
<1> DEFINE lost == {EventId(e) : e \in Lost}
<1>1. Spec => [](PartsInv /\ OutboxIsTable)
  BY InitIInv, NextIInv, PTL DEF Spec
<1>2. PartsInv /\ OutboxIsTable
        => Cardinality(lost) <= BatchSize * dispatchFaults
  <2> SUFFICES ASSUME PartsInv, OutboxIsTable
               PROVE  Cardinality(lost) <= BatchSize * dispatchFaults
    OBVIOUS
  <2>1. lost \subseteq D!Stranded
    BY LostIsStranded
  <2>2. IsFiniteSet(D!Stranded)
    BY StrandedWithin
  <2>3. Cardinality(D!Stranded) <= BatchSize * dispatchFaults
    BY StrandedWithin DEF D!StrandedBounded, D!Cardinality, Cardinality
  <2>4. /\ Cardinality(lost) <= Cardinality(D!Stranded)
        /\ Cardinality(lost) \in Nat /\ Cardinality(D!Stranded) \in Nat
    BY <2>1, <2>2, FS_Subset, FS_CardinalityType
  <2>5. BatchSize \in Nat /\ dispatchFaults \in Nat
    BY DispatchAssumptions DEF PartsInv, DP!IInv, DP!TypeOK
  <2> HIDE DEF lost
  <2> QED
    BY <2>3, <2>4, <2>5
<1> QED
  BY <1>1, <1>2, PTL

(***************************************************************************)
(* When the pollers and the consumers have caught up, the log is complete, *)
(* so that GET /logs tells the membership (LogTellsMembership).            *)
(***************************************************************************)
LEMMA CaughtUpIsLogged ==
    ASSUME PartsInv, OutboxIsTable, Established, CaughtUp, NEW e \in outbox
    PROVE  logRows[EventId(e)] > 0
<1>1. status[EventId(e)] \notin {"pending", "processing"}
  BY DEF OutboxIsTable, CaughtUp
<1>2. \A i \in DOMAIN topic : ~(i >= committed)
  BY DEF CaughtUp, PartsInv, CP!IInv, CP!TypeOK
<1> QED
  BY <1>1, <1>2, PublishedIsSomewhere

THEOREM CaughtUpIsComplete ==
    ASSUME Established
    PROVE  Spec => [](CaughtUp => Logged = outbox)
<1>1. Spec => [](PartsInv /\ OutboxIsTable)
  BY InitIInv, NextIInv, PTL DEF Spec
<1>2. PartsInv /\ OutboxIsTable => (CaughtUp => Logged = outbox)
  BY CaughtUpIsLogged DEF Logged
<1> QED
  BY <1>1, <1>2, PTL

-----------------------------------------------------------------------------
(***************************************************************************)
(* Every step records the transitions of one location, logs one of those   *)
(* that are recorded, or does neither.                                     *)
(***************************************************************************)
Recorded == {EventId(e) : e \in outbox}

LEMMA TakingRecords ==
    ASSUME PartsInv, OutboxIsTable, NEW r \in Requests, NEW inside,
           NEW timestamp, TakeLocation(r, inside, timestamp)
    PROVE  [Delivery!Next]_Delivery!vars
<1> DEFINE B == {r} \X Changed(r, inside)
<1>1. /\ Recorded' = Recorded \cup B
      /\ logRows' = logRows
  BY ObservedIds DEF TakeLocation, Recorded, consumerVars
<1>2. B \subseteq EventIds /\ B \cap Recorded = {}
  BY DEF TakeLocation, D!CommitTransaction, OutboxIsTable, Recorded
<1>3. CASE B = {}
  BY <1>1, <1>3 DEF Delivery!vars, Recorded
<1>4. CASE B # {}
  <2>1. Delivery!Record(B)
    BY <1>1, <1>2, <1>4 DEF Delivery!Record, Recorded
  <2> QED
    BY <1>2, <2>1 DEF Delivery!Next
<1> QED
  BY <1>3, <1>4

LEMMA ConsumingLogs ==
    ASSUME PartsInv, OutboxIsTable, NEW c \in Consumers, Consume(c)
    PROVE  [Delivery!Next]_Delivery!vars
<1>1. outbox' = outbox
  BY DEF Consume, locationVars
<1>2. \/ logRows' = logRows
      \/ \E i \in DOMAIN topic : /\ logRows[topic[i]] = 0
                                /\ logRows' = [logRows EXCEPT ![topic[i]] = 1]
  BY ConsumerKeepsTopic DEF Consume, PartsInv
<1>3. CASE logRows' = logRows
  BY <1>1, <1>3 DEF Delivery!vars
<1>4. ASSUME NEW i \in DOMAIN topic, logRows[topic[i]] = 0,
             logRows' = [logRows EXCEPT ![topic[i]] = 1]
      PROVE  Delivery!Next
  <2>1. topic[i] \in EventIds
    BY DEF PartsInv, DP!IInv, DP!TypeOK
  <2>2. status[topic[i]] # "none"
    BY <2>1 DEF PartsInv, DP!IInv, DP!SentIsCommitted, DP!Sent
  <2>3. topic[i] \in {EventId(e) : e \in outbox}
    BY <2>1, <2>2 DEF OutboxIsTable
  <2>4. Delivery!Log(topic[i])
    BY <1>1, <1>4, <2>3 DEF Delivery!Log
  <2> QED
    BY <2>1, <2>4 DEF Delivery!Next
<1> QED
  BY <1>2, <1>3, <1>4

LEMMA StepDelivers ==
    ASSUME PartsInv, OutboxIsTable, [Next]_vars
    PROVE  [Delivery!Next]_Delivery!vars
<1> USE DEF Delivery!vars, locationVars, consumerVars
<1>1. ASSUME NEW r \in Requests, Begin(r)
      PROVE  UNCHANGED Delivery!vars
  BY <1>1 DEF Begin
<1>2. ASSUME NEW r \in Requests, NEW timestamp, IgnoreLocation(r, timestamp)
      PROVE  UNCHANGED Delivery!vars
  BY <1>2 DEF IgnoreLocation
<1>3. ASSUME NEW p \in Pollers, Dispatch(p) PROVE UNCHANGED Delivery!vars
  BY <1>3 DEF Dispatch
<1>4. CASE UNCHANGED vars
  BY <1>4 DEF vars
<1> QED
  BY <1>1, <1>2, <1>3, <1>4, TakingRecords, ConsumingLogs DEF Next

(***************************************************************************)
(* The safety part of DeliversTransitions: with any number of failures and *)
(* restarts, only recorded transitions are logged, and none twice.         *)
(***************************************************************************)
THEOREM ExactlyOnceAtMost == Spec => Delivery!Spec
<1>1. Init => Delivery!Init
  BY DEF Init, L!Init, C!Init, Delivery!Init
<1>2. PartsInv /\ OutboxIsTable /\ [Next]_vars => [Delivery!Next]_Delivery!vars
  BY StepDelivers
<1> QED
  BY <1>1, <1>2, InitIInv, NextIInv, PTL DEF Spec, Delivery!Spec
=============================================================================
