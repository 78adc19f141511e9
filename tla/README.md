# Verification of the geofence event pipeline

TLA+ models of the three services in this repository, TLC configurations that
check them on small instances, and TLAPS proofs of what matters most for every
instance. Every definition is translated from the source; `PROJECT.json` ("map")
says which lines each one stands for.

Contents: [the system](#1-the-system) · [modules](#2-modules-and-how-they-correspond-to-the-code) ·
[runs](#3-runs) · [fairness](#4-fairness) · [proofs](#5-proofs) ·
[disagreements](#6-where-the-code-and-its-documents-disagree) ·
[limits](#7-abstractions-and-what-is-not-modelled) · [plan](#8-plan)

## 1. The system

    client --POST /areas-----> geofence-service --INSERT--> geofence.areas
                                                                 |  (PostGIS ST_Covers)
    client --POST /locations-> location-service <----------------+
                                 | one transaction, advisory lock per user
                                 v
          user_area_state, user_processing_watermarks, outbox_events
                                 |  outbox poller: claim, publish, mark | reset
                                 v
                       Kafka topic, partition key = user id
                                 |  one message at a time, manual commit
                                 v
                       logging-service --INSERT ... ON CONFLICT--> area_transition_logs
    client --GET /logs-------> logging-service

The services share one PostgreSQL database, with a schema each. The location
service reads the geofence schema; nothing else is shared except the topic.

| Component | State it keeps | Operations | What is hard about it | What makes it correct |
|---|---|---|---|---|
| Geofence creation (`apps/geofence-service`) | `geofence.areas`, only ever inserted into | POST /areas, GET /areas | its INSERT may commit without the client hearing of it; areas appear while locations are processed | only valid areas are stored; a bad request is a 400, a database that does not take the row a 500 |
| Location processing (`process-location.use-case.ts` and its repositories) | `user_area_state` (a row means inside), `user_processing_watermarks`, `outbox_events` | POST /locations: spatial query, BEGIN, advisory lock, stale checks, diff, three writes, COMMIT | requests of one user in any order and at once, on several instances; the spatial query is outside the transaction; lost acknowledgements; old rows without a watermark; a connection is held while waiting | no duplicate and no lost ENTER or EXIT; rows, events and watermark agree; replays are inert; every request is answered |
| Outbox dispatch (`outbox-poller.service.ts`, `dispatch-pending-outbox-events.use-case.ts`) | `status`, `attempts` of the rows; the claimed batch, in memory only; `isRunning` | timer tick, claim, publish, mark published, reset to retryable | every call may fail before or after its effect; KafkaJS retries inside a send, with a producer that is not idempotent; the process may die with a claimed batch; several pollers | one poller per row; published means sent; as many copies as the sends have tries; no failure strands more than a batch; every row published; order per user |
| Transition log consumer (`kafka-area-transition.consumer.ts`) | `area_transition_logs`; the committed offset, kept by Kafka | join, handle a message, save, commit, stop | redelivery, rebalances with a handler still running, first start of a group, messages that always throw | one row per event; nothing is passed over; everything is settled in the end |
| Value objects and validation (`domain/value-objects`, `presentation/dto`) | none | construct or refuse | two layers that do not accept the same texts; one id written in several ways | each layer stops what the former lets through; one lock per user; the message contract between the services |
| HTTP error mapping, health | none | exception to status and code; one probe query | which layer raised the error | 400 for the input and for nothing else; 5xx for the database, or a text it cannot hold |
| Read side (GET /logs) | none | one SELECT, newest `occurred_at` first | the rows were inserted in any order; those of one time have none | what a reader sees agrees with the membership |
| Configuration | none after start | validate the environment, or do not start | a list of ranges, read before anything else runs | not modelled (section 7) |
| Direct Kafka publisher | none | `publish` | `location.module.ts` lists it as removed and provides it to nobody | not modelled |
| Wiring of the modules | none | none | nothing | not modelled |

The hazards, each with its line and the properties that would catch it going
wrong, are listed in `PROJECT.json` ("hazards").

## 2. Modules and how they correspond to the code

| Module | What it is |
|---|---|
| `UserAreaState` | the pure part of location processing: `computeTransitions`, the stale predicates, the guarded DELETE/upsert of membership rows, the guarded upsert of the watermark, the outbox rows of a command |
| `LocationProcessing` | concurrent `execute` calls against PostgreSQL, one step per `await` |
| `AreaTransitions` | the abstract specification that `LocationProcessing` implements: one location at a time, in timestamp order, one event per change |
| `OutboxDispatch` | pollers, the outbox table and the topic; transactions that insert any number of rows |
| `OutboxRelay` | the abstract specification that `OutboxDispatch` implements: each row is sent, with as many copies at most as the first send and the counted retries have tries, then closed for good |
| `LoggingConsumer` | one partition, the consumer group and the log table |
| `TransitionDelivery` | the abstract specification of the way to the log: what was recorded is logged, once, and nothing else |
| `GeofencePipeline` | the composition: `AreaTransitions`, `OutboxDispatch` and `LoggingConsumer` run together and share the topic; GET /logs reads the result. It implements `TransitionDelivery` |
| `GeofenceSystem` | the composition with the handlers themselves: `LocationProcessing` in the place of `AreaTransitions`. It implements `GeofencePipeline` |
| `InputValidation` | DTOs, value objects, exception filters, the consumer's shape check, the message payload |
| `ServiceBoundaries` | what each service does with one input of any form |
| `*_proofs` | the theorems of the module they are named after; `FixedAreas_proofs` are those of `LocationProcessing` while no area is created, `TransitionLog_proofs` those of `GeofencePipeline` about the reader of the log |
| `MC*` | instances for TLC: the constants' values and symmetry sets |

**LocationProcessing.** `pc[r]` is the point that `execute` has reached for
request `r`; `seen[r]` is the local `currentInsideSet`; `transitions[r]` is the
computed difference and later the response. The other tables are one variable
each, and `lock[k]` is the PostgreSQL advisory lock table. The steps, in the
order of the code: `Receive`/`Reject` (value objects), `findContainingAreaIds`
(PostGIS, outside the transaction), `BeginTransaction`, `AcquireLock`
(`pg_advisory_xact_lock(hashtext(...))`), `CheckWatermark`, `LoadInsideAreas`
(row-level stale check and difference), `ApplyState`, `InsertBatch`,
`AdvanceWatermark`, `Commit`. The callback runs at READ COMMITTED, so its
statements are collected in `writes[r]` and take effect in `ApplyWrites` at the
commit, where each guarded statement sees the committed rows. `CommitUnacked`
is a commit whose answer is lost, `Fail` an error or a death at any earlier
point, `CreateArea` the geofence service at work meanwhile. `hashtext` is any
function, so two users may share a key.

**OutboxDispatch.** A transaction is begun in `Begin` (the `created_at` of all its
rows is `NOW()`, the time of the BEGIN) and its rows become visible together in
`CommitTransaction`, which may also leave some or all of them out: the location
was stale, or changed nothing about those areas. `claimPendingBatch` takes the
oldest pending rows up to the batch size; `publish` takes any row of the batch,
because `UPDATE ... RETURNING` promises no order; then `markPublished`, or
`resetToRetryable` after a failure of either. The publisher builds KafkaJS with its
default retries and a producer that is not idempotent, so a send is up to `SendTries` tries
(`TrySend`, counted in `tries[p]`), and a try whose acknowledgement is lost (`AckLost`) has appended a
message and is followed by another one, while `attempts` stays as it is. `ClaimUnanswered`,
`AckLost`, `PublishFails`, `MarkFails`, `ResetFails` and `Crash` are the failures, and the
constant `Faults` says which of them a run allows. `batch[p]` is lost with the cycle:
what was in it and is still `processing` is `Stranded`. `pc[p] = "idle"` stands for `isRunning = false`.

**LoggingConsumer.** `owner` is the group's assignment of the partition,
`position[c]` KafkaJS's position, `committed` the group's offset. `eachMessage`
goes to the save for a valid message and straight to the commit for one it
skips; on a message that makes it throw, it stays where it is (KafkaJS retries
for ever). `save` is the INSERT with ON CONFLICT DO NOTHING, `commitOffset` the
manual commit. `SaveFails`, `CommitFails`, `CommitFenced`, `Rebalance`, `Stop`
are what may come between. `kind[m]` is a constant here; `MCLoggingConsumer`
computes it with `InputValidation!KindOf` from the content of each message.
`OpenSpec` is the same consumer with a topic to which somebody else appends.

**GeofencePipeline.** Three instances, each with its own variables and with `topic`
in common. `TakeLocation` is at once a step `Observe` of `AreaTransitions` and
the `CommitTransaction` of `OutboxDispatch`, with exactly one row per event that
the step records (`OutboxIsTable` ties the set of events of the one to the table of
the other); `IgnoreLocation` is the commit of a stale location, which writes
nothing. `Dispatch` and `Consume` are the steps of a poller and of a consumer.
A request begins its transaction (`Begin`) before it gets the lock, so
locations are taken in another order than their rows are claimed in. `findAll` is the set of answers that GET /logs may give: rows
of one time come in any order.

**GeofenceSystem.** The pipeline and its variables, with `LocationProcessing` taking
the locations. Everything a handler does between its BEGIN and its COMMIT leaves the
other tables alone (`HandlerStep`); `BeginTransaction` is the BEGIN of the handler and
the `created_at` of its rows in one step, and `CommitTransaction` is the COMMIT (heard
or not) together with the rows that the handler has inserted becoming visible
to the pollers (`Inserted`). Both are joint steps of two specifications, each with its own
guard; that the guards never disagree, so that the composition does not forbid a step
of the handlers, is `TransactionsAgree`. `ImplementsPipeline` says that the detour by
`AreaTransitions` loses nothing.

**InputValidation and ServiceBoundaries.** A text is a record with its form
(absent, blank, word, uuid, iso, week date, a date text that is not ISO 8601 but that
`Date` parses, ...), what it stands for and how it
is written (plain, upper case, padded); the name of an area may contain U+0000 (`nul`), which
both layers let through and PostgreSQL refuses (`Refused`); a number has a form too (number, numeric
text, blank text, infinite, absent). Each DTO, value object and filter is an operator on
these. A behaviour of `ServiceBoundaries` is one step that handles one input, and after a
POST /areas possibly a GET /areas of the same client, whose answer is compared
with that of the POST; the concurrency is in the other modules.

The parts meet in `GeofencePipeline` and `GeofenceSystem`. What the pipeline takes from
the others beyond their actions is that locations are taken as in `AreaTransitions`
(shown by `ImplementsPipeline`), that what is sent is of the kind "event" (`ContractKept`), and that a batch has at least
one row (`BatchAssumption`: the validation of `OUTBOX_BATCH_SIZE` has the minimum 1).

## 3. Runs

All bounds are constants in the `.cfg` files. Deadlock checking is off
everywhere because a finite set of requests, rows, messages or inputs is
exhausted in the end; that work is not stuck before is what the liveness
properties say.

| Run | Instance | Distinct states | What it shows |
|---|---|---|---|
| `location_core` | 3 requests, 1 user, 2 overlapping areas, 3 timestamps, old rows with stamp 2, pool of 2 | 1,363,985 (with symmetry) | events alternate, membership is what the newest events say, replays record nothing, responses tell the truth, a location that was answered is never forgotten, state and outbox change together; the inductive invariant; refinement of `AreaTransitions` |
| `location_fixed` | 3 requests, 2 users with one lock key, pool of 2, 1 area that is not created meanwhile | 372,664 | membership is that of the newest location; EXIT means outside; a full pool of waiters never blocks the owner of the lock: every request is answered |
| `location_phantom` | 2 requests, 1 area created meanwhile | violation | an EXIT from an area that contains the point |
| `outbox_safety` | 2 pollers, a transaction of 2 rows and one of 1, batch of 2, sends of 2 tries, 4 faults of any kind: crashes, and lost acknowledgements inside a send, among them | 1,493,601 (with symmetry) | claims are exclusive, published is sent, copies are bounded by the tries of the sends that the attempts count, no failure strands more than a batch; refinement of `OutboxRelay`; the inductive invariant |
| `outbox_stranded` | 1 poller, 1 row, publish and reset fail | violation | the row stays in `processing` |
| `outbox_order` | 1 poller, 2 rows of one user, no fault | violation | a user's events are published out of order |
| `logging_core` | 2 consumers, 3 messages out of two events and an invalid one, 2 faults | 16,764 | one row per event, no event passed over, everything settled, nothing else logged (refinement of `TransitionDelivery`), no offset taken back; the inductive invariant |
| `logging_first` | 1 consumer, 2 messages, no offset committed before, 1 fault | violation | the first messages may be skipped |
| `logging_poison` | 1 consumer, an event and the JSON value `null`, no fault | violation | nothing behind the `null` is logged |
| `pipeline_core` | 2 locations of one user over 2 areas, 1 poller that takes one row at a time, 1 consumer; a failed publish or mark, and a failure of the consumer | 374,925 | every recorded transition is logged exactly once and nothing else is (refinement of `TransitionDelivery`, with its liveness), nothing is lost on the way, GET /logs tells the membership, a user's messages are in order when its transactions commit in the order they began, every row is published; the inductive invariant |
| `system_core` | 2 requests of one user with all their steps, 1 area that may be created meanwhile, 1 poller, 1 consumer; failures of the handlers, a failed publish or mark or a lost acknowledgement inside a send, and a failure of the consumer | 324,124 | the concurrent handlers make the pipeline (refinement of `GeofencePipeline`); what a client was told is not lost and is logged in the end, and nothing else is; the invariants hold together |
| `boundary_inputs` | every field at, next to and beyond its limits in every form, names with U+0000 and date texts among them; database up, down or unheard | 19,953 | faults are attributed, stored areas valid, listed areas as announced, one lock per user, the contract between the services, exactly what stands for a row is logged |

Why these bounds are enough to meet the interesting cases. Locations: an ENTER,
an EXIT and a third request that is stale, equal or newer are needed for a
duplicate, an undone change or a replay, hence three requests and three
timestamps; the stamp 2 of the old rows lies between the others so that a row
may be older, equal or newer; two overlapping areas give one location an ENTER
and an EXIT at once; a pool of 2 is smaller than the number of waiting requests.
Outbox: a third row makes the limit of the batch bite, two rows in one transaction
tie in `created_at` and may be split between two batches, and four faults allow a
lost acknowledgement inside a send, a failed mark, a failed reset and a crash; two tries are the fewest
with which one send leaves two copies (KafkaJS makes six).
Pipeline: two locations make an ENTER and then an EXIT, the fewest for
which a wrong order of the log contradicts the membership, and over two areas one location
has two rows; a failed mark sends a row again behind a newer one, and a failed
save or a lost commit delivers it twice. The batch of one is the case in which the order of
Kafka can be relied on at all (`OrderedWhenSerial`); `outbox_safety` and `system_core` have
batches of two. Its failures are those of publish and mark, because `DeliversTransitions` and `EveryRowPublished`
hold only when no row is stranded; a crash, a failed reset and a lost claim are in
`outbox_safety`, with `StrandedBounded`, and what they cost the pipeline is `LossIsBounded` (section 5). For more
locations than two there are the proofs.
System: two requests are the fewest that overlap, and the handlers multiply the
states; more than two, and areas more than one, are `location_core` and `pipeline_core`
on either side of `AreaTransitions`, and the proofs.
Logging: three messages over two events force a repetition, and two faults allow a
save that was not heard followed by a rebalance.

Each property of a passing run has a mutant in `PROJECT.json`: a plausible bug in
the code (no lock, no watermark check, an early return without the watermark, an
outbox INSERT outside the transaction, an unawaited publish, an INSERT without
ON CONFLICT, an offset one too far, an untrimmed name, ...), for which TLC finds
the property violated. The mutated forms stand next to the definitions they
change and are marked as such.

## 4. Fairness

- `LocationProcessing!FixedAreasFairSpec`: weak fairness of `Handle(r)`. Node's event
  loop and PostgreSQL go on with every request in flight; an advisory lock is
  granted when it is free. Nothing says that requests arrive or that they fail,
  so `EveryRequestAnswered` does not rest on timeouts. Weak fairness is enough
  for the lock because the set of requests is finite and none takes it twice.
- `OutboxDispatch!FairSpec`: weak fairness of `RunCycle(p)`. `setInterval` fires
  again after every cycle and `isRunning` is reset in a `finally`. That a row
  need not wait for ever rests on the bound of the faults, that is, on Kafka and
  the database working again at some time.
- `LoggingConsumer!FairSpec`: weak fairness of `Consume(c)`. KafkaJS keeps
  polling, retries a message for which the handler throws, and restarts after an
  error; a stopped process is started again.
- `GeofencePipeline!FairSpec`: the fairness of pollers and consumers as above, and
  none of requests. It is what `DeliversTransitions` and `EveryRowPublished` rest on, with
  failures of publish and mark; a failed reset or a crash would strand the row
  (section 6).
- `GeofenceSystem!SystemFairSpec`: the same fairness. `AnsweredIsLogged` is about requests
  that were answered, so none is needed of the handlers.

No fairness is assumed of failures, of clients or of the geofence service.

## 5. Proofs

All theorems are for every value of the constants that satisfies the named
assumptions of the modules; all are proved with the SMT and Zenon backends and,
for the temporal steps, LS4.

**LocationProcessing_proofs** (any users, areas, requests, pool size, stamps
and `hashtext`):
`TypeCorrect`, `Invariance`, `NoDuplicateTransition`, `ReplaysAreInert`,
`ResponsesAreTrue`, `NoAnswerForgotten`, `OutboxTellsState`,
`MembershipAndIntentTogether` and `Refinement` (`Spec => A!Spec`). None of the
properties is inductive: that a commit adds no second ENTER depends on what the
transaction read earlier still being true. The inductive invariant `IInv` says so: `LockOwned`
(a transaction past the lock owns the key, so one user has at most one,
`OneTransactionPerUser`); `WritesFollowControl` (which statements were executed
follows from where the handler stands); `ReadsStayValid` (what was read under
the lock is still in the tables); `EventsAreTaken` (no event is above the
watermark); `EventsExplainRows` (an event that the row contradicts was undone by
a later one); `EventsOfRequest` (an answered request has exactly the outbox rows
of its transitions, one in flight has none). The argument: `StepKinds` shows that
every step leaves the tables alone or is a commit, `CommitEffect` that a commit
is quiet or an `Observe` step of `AreaTransitions`, and `ObserveHistory` that such
a step, whose timestamp is above all that came before, keeps events and rows in
agreement. The refinement reuses the same lemmas.

**FixedAreas_proofs** (as above, for the specification `FixedAreasSpec` in which no
area is created): `FixedInvariance`, `NewestLocationCounts`, `ExitsAreTrue`. What is
needed beyond `IInv` is `FixedAreasInv`: all areas that exist were there at the start, so the
set a request has seen outside the lock is that of its point whenever it is used
(`SeenIsCurrent`); and what the tables say of the newest location taken. `CommandAssumption`
says that "no command" is not a command.

**OutboxDispatch_proofs** (any rows, transactions, pollers, batch size, faults): `TypeCorrect`,
`Invariance`, `ExclusiveClaim`, `PublishedIsTrue`, `DuplicatesBounded`, `StrandingBounded`,
`SerialOrder` and `Refinement` (`Spec => RelaysRows`). A send has any number of tries, at least one. `IInv`
adds `CycleShape` (what a poller holds at each point of its cycle),
`CopiesOfHeld` (a claimed row is in the topic as often as its counted sends have tries, and the
current one once more for each try of the send that goes on), `HeldIsProcessing` (of the rows a poller holds only the current one may be
published), `BatchIsBounded` and `SentIsCommitted` (what is in the topic was committed); `CopiesAppend` says how a send changes the number of copies.
`StrandingBounded`: a row becomes `processing` in nobody's hands only when a poller lets go of its batch, or does not
hear of the one it claimed, which costs a failure each time; so there are at most `BatchSize` times
as many such rows as failures, and none at all when no call of these kinds fails.
For `OutboxRelay` a row is closed when it is published and no poller holds it. Claims, and
marks that were not heard, are stutters (`RelayStutters`); a message that reaches Kafka is a
`Send`, heard or not, whose guard is `CopiesOfHeld`; a reset, heard or not, is a `Retry`; and a row is
closed when its poller lets go of it after a mark that had its effect, be it because the
cycle goes on, the reset failed or the process died (`RelayCloses`, `RelayAbandoned`). That
letting go of the rest of a batch closes nothing is `HeldIsProcessing`.
`SerialOrder` is the other side of the run `outbox_order`: `PerUserOrder` fails in general, and
holds for a user whose transactions commit in the order in which they began
(`CommitsFollowBegins`: an app that waits for each answer) when one poller takes one row at a
time (`OneAtATime`), under every failure of the model. With larger batches it does not, since a
batch has no order (`UPDATE ... RETURNING`), nor with two pollers. Neither condition is taken on trust: both are
premises of the property. The invariant behind it, `SerialInv`, says that BEGINs and commits are numbered
apart (`Places`, by counting, `NextPlace`), that visible rows are committed, and that what was
sent, the row that is held and the pending rows are in this order (`Queue`). A retried row
does not disturb it because it is held alone and older than what is pending
(`OldestIsFirst`); an abandoned one because it is never sent again.

**LoggingConsumer_proofs** (any consumers, messages, kinds): `TypeCorrect`,
`Invariance`, `LoggedOnce`, `AtLeastOnce`, the action property `NeverBack`
(`OffsetsMoveForward`) and `Refinement` (`OpenSpec => LogsOnlyEvents`; `BoundedRefinement` for
`Spec`). `AtLeastOnce` holds under
`Established`, which is where the code differs from its comment (section 6); the others do not need it.
`IInv` adds `HandlerShape` (a handler that saves has an event, one that commits has a
settled message), `OwnerNotAhead` and `OwnerNotBehind`: the position of the owner is at most
one behind the committed offset, so the offset it commits next is never a smaller one.

**GeofencePipeline_proofs** (any users, areas, requests, pollers, consumers and
bounds): `Invariance`, `NoTransitionLost`, `LossIsBounded`, `CaughtUpIsComplete`, `ExactlyOnceAtMost`
(`Spec => Delivery!Spec`). The invariant is the conjunction of those of the two parts and
`OutboxIsTable`. The proofs of the parts are used and not repeated: a poller's
step is a step of `OutboxDispatch` that only appends to the topic, which for the
consumer is a step of `OpenNext`, whose invariance `LoggingConsumer_proofs` shows;
what is in the topic was committed (`SentIsCommitted`), hence recorded. A published row
was sent, and the committed offset passes only what has a row in the log (with
`Established`, as in `LoggingConsumer`), so a transition that is neither in the log nor on its way
there is a stranded row (`LostIsStranded`). With `StrandedBounded` this says how far the delivery may
be trusted: nothing is lost while no claim goes unanswered, no reset fails and no location
service dies in a cycle (`NoTransitionLost`, whose premise excludes these), and otherwise each such failure
loses a batch at most (`LossIsBounded`). Once pollers and consumers have
caught up, and no row was left in `processing`, the log is complete (`CaughtUpIsComplete`), which is the premise of
`LogTellsMembership`. `PartsAreThemselves` says that a
behaviour of the pipeline is one of `OutboxDispatch` and one of `LoggingConsumer!OpenSpec`;
`PipelineRelaysRows`, `PipelineSerialOrder` and `PipelineNeverBack` follow from what is proved of these alone.

**TransitionLog_proofs** (as above, timestamps being positive:
`StampAssumption`): `LogTellsTheTruth`. The invariant `History` is about the events alone: an event is not
newer than the watermark, an event that the membership row contradicts was undone by
a later one, and two events of one type have one of the other type between
them. Since the log is read by the time of the events, how they
got there does not enter; that the sequence read has all of them does.

**GeofenceSystem_proofs** (any users, areas, requests, pollers, consumers, pool and bounds):
`HandlersMakeThePipeline` (`SystemSpec => ImplementsPipeline`), `HandlersAreThemselves`,
`EndToEnd`, `SystemInvariance`, `AnswersAreNotLost`, `OnlyReportedIsLogged`,
`CaughtUpTellsReports`, `SystemLogTellsTheTruth`, `SystemSerialOrder`. A step of the system is a step of `LocationProcessing` or leaves it alone, so its
inductive invariant holds here; with it, a COMMIT is an `Observe` of `AreaTransitions` or the
commit of a stale location (the lemmas behind the refinement of `LocationProcessing`), and the
rows the handler has inserted are those of the events of that step, which makes it a
`TakeLocation` or an `IgnoreLocation` of the pipeline. By `HandlersMakeThePipeline` every
theorem about the pipeline holds of the system; `EndToEnd`, `SystemLogTellsTheTruth` and
`SystemSerialOrder` are three of them. What a client was told needs both sides: `EventsOfRequest` says that the events of an
answered request are those that it reported (`ReportedIsRecorded`), and `NothingLost` (in `AnswersAreNotLost`, under the premise of `NoTransitionLost`) and
`LoggedIsRecorded` where they are on their way. `CaughtUpTellsReports` joins both: once the
pollers and the consumers have caught up, so that no row is left in `processing` either, the log has a line
for exactly what the answers said.

**ServiceBoundaries_proofs** (any sets of inputs whose numbers are integers,
`NumberAssumption`, and whose texts are of the known styles, `StyleAssumption`):
`FaultsAreAttributed`, `StoredAreasAreValid`, `ListingIsTrue`, `LocksFollowRows`,
`ContractHolds`, `LoggableIsLogged`, from the definitions of the value
objects, DTOs and filters. `FaultsAreAttributed` goes both ways: a request is answered 400 exactly when
it is not well-formed, which is said without the code's layers (`WellFormedArea`, `WellFormedLocation`), and a well-formed
one 500 only when its database does not work or cannot hold its text; likewise a message is logged exactly when it
stands for a row (`LoggableMessage`).

Model-checked only: liveness and whatever is stated with fairness
(`EveryRequestAnswered`, `EveryMessageSettled`, `EveryRowPublished`, `AnsweredIsLogged` and the
liveness of `DeliversTransitions`), which TLAPS does not do.

## 6. Where the code and its documents disagree

1. **Phantom EXIT** (`location_phantom`). The containing areas are queried before
   the lock. If an area is created in between and another request of the user
   enters it first, the first request records an EXIT from an area that contains
   its point. The README of the repository derives `exitedAreaIds` from the
   *current* set.
2. **Stranded rows** (`outbox_stranded`). A row claimed by a cycle that ends before
   the reset (the reset throws, the process stops) stays in `processing`, and
   only `pending` rows are claimed. The documents expect it to stay retryable.
   The limitations mention a *duplicate* after a crash between Kafka's
   acknowledgement and the status update; in the code that crash strands
   the row instead.
3. **Order per user** (`outbox_order`). Rows are claimed by the time of their
   BEGIN, which precedes the wait for the lock, and a row that commits late is
   published after newer ones, although the key of the partition is chosen "for per-user ordering".
4. **First messages** (`logging_first`). With `fromBeginning: false` a group that
   has committed nothing starts at the end of the partition each time it joins.
5. **Poison messages** (`logging_poison`). `null`, or an area id that is no uuid,
   makes the handler throw each time, and nothing behind it is logged; the
   documents say such messages are skipped.

Smaller observations. `EventOccurredAt` takes whatever `new Date` parses ("1", "March 7, 2026"),
although its comment, `event-occurred-at.value-object.ts:7`, asks for a "parseable ISO 8601 date"; such a message is
logged, and `NothingLoggableIsSkipped` says so. A name that contains U+0000 passes DTO and value object, PostgreSQL
refuses the row, and the answer is 500 with the database up (`FaultIsAttributed`). A row that never
failed, with `attempts` 0, may be in the topic several times, because KafkaJS retries inside the send
(`DuplicatesAreAttempts` bounds it); only the consumer's ON CONFLICT makes that harmless.

And some that no property states: `OUTBOX_POLL_INTERVAL_MS` has no upper limit, and
`setInterval` (`outbox-poller.service.ts:47`) turns an interval above 2^31-1 into 1 ms, which is a poller without a pause; the DTO counts a name's length
before it is trimmed, so a name of 120 characters with a trailing blank is
refused, although `create-area.dto.ts:19` says "trimmed, max 120 chars"; a blank
text where a number is expected is converted to 0 and accepted; the filter of the
geofence service gives its 503 the code `VALIDATION_ERROR`; only the
logging service enables shutdown hooks, so a redeployment of the location service
is a crash to its poller.

## 7. Abstractions and what is not modelled

- A claim is one step: `FOR UPDATE SKIP LOCKED` makes concurrent claims equal to
  claims one after the other. `available_at` is never in the future in this code
  and is left out. A claim that is rolled back after another one has skipped the
  rows it had locked is not modelled: the rows are claimed by a later cycle.
- Timestamps are positive naturals (milliseconds), and 0 is "no row". Equal
  timestamps are ordinary. Event ids are the pair of request and area.
- In `Fail` the lock is free at once. A transaction that timed out while it waited may
  in fact linger in PostgreSQL until it is granted the lock and then rolls back;
  it writes nothing.
- The pool is that of one service instance; requests on other instances
  compete for the lock only.
- Kafka: one partition; offsets start at 1; the log is never compacted.
- The geometry is the function `Covers`: the areas whose boundary covers a point.
- Booleans as numbers, the version digits of a uuid and the offsets of time zones
  are abstracted; `ServiceBoundaries` handles one input per behaviour, or a POST and a GET
  of areas. A client that repeats a POST makes a second area; nothing in the code
  is meant to prevent it.
- A request to Kafka that outlives its try, or the process that made it, and is appended later is not
  modelled: the copies of a try are appended while the poller waits for it. `OrderedWhenSerial` therefore
  says nothing of late appends; the bounds on copies do not depend on when they are appended, but that nothing is sent of a closed
  row (`RelaysRows`) does.
- What `Date` parses is one form, `dateText`, besides ISO 8601; years out of PostgreSQL's range are left out.
- The configuration is not modelled: ranges that are read once, with no state. What
  the rest needs of it is `BatchAssumption`.
- Not modelled: the direct publisher (provided to nobody), the wiring of the modules,
  logging output, the field-by-field mapping of GET /logs and the contents of messages of errors.

## 8. Plan

Done, in this order: location processing (the core) with its abstract
specification and proofs; outbox dispatch with proofs; the log consumer with proofs; the boundaries
with proofs; the composition with its abstract specification and proofs; the theorems for fixed
areas; the read sides; the refinement of the outbox and of the consumer;
the composition with the handlers and its proofs; the condition under which the order of a
user's messages is kept.

Next:

1. A larger instance of the pipeline: two consumers around a rebalance together
   with a row that is sent twice. Each alone is in `logging_core` and `pipeline_core`.
2. A claim that rolls back while another one has skipped its rows.
