---------------------------- MODULE OutboxDispatch ----------------------------
(***************************************************************************)
(* From the outbox table to Kafka: the pollers of the location service.    *)
(*                                                                         *)
(* A location transaction inserts its outbox rows with the time at which   *)
(* it began (created_at DEFAULT NOW()) and makes them visible when it      *)
(* commits.                                                                *)
(* Every instance of the service runs one poller.  A cycle claims a batch  *)
(* of pending rows, oldest first, by turning them to `processing`, and     *)
(* then takes the rows one by one: publish, mark published; when either    *)
(* fails, reset the row to pending.  The claimed batch lives only in the   *)
(* memory of the poller.                                                   *)
(*                                                                         *)
(* The faults are those of the calls a cycle makes and the death of the    *)
(* process.  A failed call may have had its effect: its answer was lost.   *)
(* The producer is not idempotent and keeps KafkaJS's own retries, so one  *)
(* publish may also append its message several times before it is heard.   *)
(***************************************************************************)
EXTENDS Naturals, FiniteSets, Sequences

CONSTANTS
    Rows,           \* ids of the outbox rows that may be inserted
    Transactions,   \* the transactions that may insert rows
    transaction,    \* transaction[x]: the one that may insert row x
    partitionKey,   \* partitionKey[t]: the user that the rows of t are about
    Pollers,        \* instances of the location service
    NoRow,          \* the current row of a poller between two rows
    BatchSize,      \* OUTBOX_BATCH_SIZE
    SendTries,      \* how often KafkaJS tries one send: 1 + its retries
    Faults,         \* the calls that may fail, a subset of FaultKinds
    MaxFaults       \* bound: how many times something fails

\* "ack": the acknowledgement of one try of a send, which KafkaJS makes good.
FaultKinds == {"claim", "ack", "publish", "mark", "reset", "crash"}

ASSUME RowAssumption    == /\ NoRow \notin Rows
                           /\ IsFiniteSet(Rows) /\ IsFiniteSet(Transactions)
                           /\ transaction \in [Rows -> Transactions]
ASSUME BatchAssumption  == BatchSize \in Nat \ {0}
ASSUME SendAssumption   == SendTries \in Nat \ {0}
ASSUME FaultsAssumption == Faults \subseteq FaultKinds /\ MaxFaults \in Nat

VARIABLES
    status,         \* status[x]: OutboxEventStatus, "none" before the commit
    attempts,       \* attempts[x]: how many times the row was reset
    createdAt,      \* createdAt[t]: when transaction t began, its rows' created_at
    committedAt,    \* committedAt[t]: its place in the order of commits
    pc,             \* pc[p]: where the cycle of poller p stands
    batch,          \* batch[p]: rows claimed in this cycle, not yet finished
    current,        \* current[p]: the row that p is sending or recording
    tries,          \* tries[p]: how often the send of that row was tried
    topic,          \* the messages of the Kafka topic, in log order
    faults          \* how many faults have happened

table   == <<status, attempts, createdAt, committedAt>>
pollers == <<pc, batch, current, tries>>
vars    == <<status, attempts, createdAt, committedAt,
             pc, batch, current, tries, topic, faults>>

\* OutboxEventStatus, and "none" for a row that no commit made visible.
Status == {"none", "pending", "processing", "published"}

TypeOK ==
    /\ status \in [Rows -> Status]
    /\ attempts \in [Rows -> Nat]
    /\ createdAt \in [Transactions -> Nat]
    /\ committedAt \in [Transactions -> Nat]
    /\ pc \in [Pollers -> {"idle", "publishing", "marking", "resetting"}]
    /\ batch \in [Pollers -> SUBSET Rows]
    /\ current \in [Pollers -> Rows \cup {NoRow}]
    /\ tries \in [Pollers -> 0 .. SendTries]
    /\ topic \in Seq(Rows)
    /\ faults \in 0 .. MaxFaults

Init ==
    /\ status = [x \in Rows |-> "none"]
    /\ attempts = [x \in Rows |-> 0]
    /\ createdAt = [t \in Transactions |-> 0]
    /\ committedAt = [t \in Transactions |-> 0]
    /\ pc = [p \in Pollers |-> "idle"]
    /\ batch = [p \in Pollers |-> {}]
    /\ current = [p \in Pollers |-> NoRow]
    /\ tries = [p \in Pollers |-> 0]
    /\ topic = << >>
    /\ faults = 0

-----------------------------------------------------------------------------
(***************************************************************************)
(* The location transactions.  NOW() is the time of the BEGIN, which comes *)
(* before the wait for the advisory lock; commits of one user happen in    *)
(* the order of the location timestamps (LocationProcessing), which need   *)
(* not be the order of the BEGINs.                                         *)
(***************************************************************************)
\* How many transactions have a number: the next one is one more.
Numbered(f) == Cardinality({t \in Transactions : f[t] # 0})

Begin(t) ==
    /\ createdAt[t] = 0
    /\ createdAt' = [createdAt EXCEPT ![t] = Numbered(createdAt) + 1]
    /\ UNCHANGED <<status, attempts, committedAt, pollers, topic, faults>>

SetStatus(B, s) == [x \in Rows |-> IF x \in B THEN s ELSE status[x]]

\* The rows B that t has inserted, perhaps none, become visible together.
CommitTransaction(t, B) ==
    /\ createdAt[t] # 0
    /\ committedAt[t] = 0
    /\ B \subseteq {x \in Rows : transaction[x] = t /\ status[x] = "none"}
    /\ status' = SetStatus(B, "pending")
    /\ committedAt' = [committedAt EXCEPT ![t] = Numbered(committedAt) + 1]
    /\ UNCHANGED <<attempts, createdAt, pollers, topic, faults>>

(***************************************************************************)
(* Mutated forms of definitions below.                                     *)
(***************************************************************************)
\* Rows that were claimed before and look stuck may be claimed again.
ClaimableOrStuck ==
    {B \in SUBSET {x \in Rows : status[x] \in {"pending", "processing"}} :
        B # {} /\ Cardinality(B) <= BatchSize}

\* The claim without its ORDER BY.
ClaimableInAnyOrder ==
    LET pending == {x \in Rows : status[x] = "pending"}
    IN  {B \in SUBSET pending :
            /\ B # {}
            /\ Cardinality(B) <= BatchSize
            /\ B # pending => Cardinality(B) = BatchSize}

\* The promise of the producer is not awaited.
publishNotAwaited(p) ==
    /\ pc[p] = "publishing"
    /\ \E x \in batch[p] :
         /\ current[p] \in {x, NoRow}
         /\ current' = [current EXCEPT ![p] = x]
         /\ topic' \in {topic, Append(topic, x)}
    /\ tries' = [tries EXCEPT ![p] = @ + 1]
    /\ pc' = [pc EXCEPT ![p] = "marking"]
    /\ UNCHANGED <<table, batch, faults>>

\* The attempts are not counted.
ResetUncounted(x) ==
    /\ status' = [status EXCEPT ![x] = "pending"]
    /\ UNCHANGED attempts

\* The catch block leaves the row as it is: still `processing`.
ResetNothing(x) == UNCHANGED <<status, attempts>>

\* The UPDATE of the claim has lost its LIMIT, and the cycle keeps it.
claimBeyondBatch(p) ==
    /\ pc[p] = "idle"
    /\ \E B \in ClaimableInAnyOrder : batch' = [batch EXCEPT ![p] = B]
    /\ status' = SetStatus({x \in Rows : status[x] = "pending"}, "processing")
    /\ pc' = [pc EXCEPT ![p] = "publishing"]
    /\ UNCHANGED <<attempts, createdAt, committedAt, current, tries, topic,
                   faults>>

(***************************************************************************)
(* One cycle of poller p.                                                  *)
(***************************************************************************)
\* A call of the given kind fails.
Fault(kind) ==
    /\ kind \in Faults
    /\ faults < MaxFaults
    /\ faults' = faults + 1

\* The batches that the claim may take: as many of the oldest as the limit lets.
Claimable ==
    LET pending == {x \in Rows : status[x] = "pending"}
    IN  {B \in SUBSET pending :
            /\ B # {}
            /\ Cardinality(B) <= BatchSize
            /\ B # pending => Cardinality(B) = BatchSize
            /\ \A x \in B, y \in pending \ B :
                 createdAt[transaction[x]] <= createdAt[transaction[y]]}

\* claimPendingBatch: rows go to processing, and to the poller's memory.
claimPendingBatch(p) ==
    /\ pc[p] = "idle"
    /\ \E B \in Claimable :
         /\ status' = SetStatus(B, "processing")
         /\ batch' = [batch EXCEPT ![p] = B]
    /\ pc' = [pc EXCEPT ![p] = "publishing"]
    /\ UNCHANGED <<attempts, createdAt, committedAt, current, tries, topic,
                   faults>>

\* The claim commits but its answer is lost: runCycle logs an error.
ClaimUnanswered(p) ==
    /\ pc[p] = "idle"
    /\ Fault("claim")
    /\ \E B \in Claimable : status' = SetStatus(B, "processing")
    /\ UNCHANGED <<attempts, createdAt, committedAt, pollers, topic>>

\* A try to send row x: the one that p is sending already, or its next one.
TrySend(p, x) ==
    /\ pc[p] = "publishing"
    /\ current[p] \in {x, NoRow}
    /\ current' = [current EXCEPT ![p] = x]
    /\ tries' = [tries EXCEPT ![p] = @ + 1]

\* publish: Kafka appends the message and acknowledges it.
publish(p) ==
    /\ \E x \in batch[p] : TrySend(p, x) /\ topic' = Append(topic, x)
    /\ pc' = [pc EXCEPT ![p] = "marking"]
    /\ UNCHANGED <<table, batch, faults>>

\* Kafka appends the message, but KafkaJS does not hear of it and, inside the
\* same send, will try again.  (A try that appends nothing changes nothing.)
AckLost(p) ==
    /\ tries[p] + 1 < SendTries
    /\ Fault("ack")
    /\ \E x \in batch[p] : TrySend(p, x) /\ topic' = Append(topic, x)
    /\ UNCHANGED <<table, pc, batch>>

\* publish throws: the last try appended nothing, or was not acknowledged.
PublishFails(p) ==
    /\ Fault("publish")
    /\ \E x \in batch[p] :
         TrySend(p, x) /\ topic' \in {topic, Append(topic, x)}
    /\ pc' = [pc EXCEPT ![p] = "resetting"]
    /\ UNCHANGED <<table, batch>>

\* The loop goes on with the next row, or the cycle ends.
NextRow(p) ==
    /\ batch' = [batch EXCEPT ![p] = @ \ {current[p]}]
    /\ pc' = [pc EXCEPT ![p] = IF batch[p] = {current[p]} THEN "idle"
                                                          ELSE "publishing"]
    /\ current' = [current EXCEPT ![p] = NoRow]
    /\ tries' = [tries EXCEPT ![p] = 0]

markPublished(p) ==
    /\ pc[p] = "marking"
    /\ status' = [status EXCEPT ![current[p]] = "published"]
    /\ NextRow(p)
    /\ UNCHANGED <<attempts, createdAt, committedAt, topic, faults>>

\* markPublished throws, and the catch block goes on to the reset.
MarkFails(p) ==
    /\ pc[p] = "marking"
    /\ Fault("mark")
    /\ status' \in {status, [status EXCEPT ![current[p]] = "published"]}
    /\ pc' = [pc EXCEPT ![p] = "resetting"]
    /\ UNCHANGED <<attempts, createdAt, committedAt, batch, current, tries,
                   topic>>

\* The UPDATE of resetToRetryable; it does not look at the status.
ResetRow(x) ==
    /\ status' = [status EXCEPT ![x] = "pending"]
    /\ attempts' = [attempts EXCEPT ![x] = @ + 1]

resetToRetryable(p) ==
    /\ pc[p] = "resetting"
    /\ ResetRow(current[p])
    /\ NextRow(p)
    /\ UNCHANGED <<createdAt, committedAt, topic, faults>>

\* The poller forgets its cycle: isRunning is false and the batch is gone.
Abandon(p) ==
    /\ pc' = [pc EXCEPT ![p] = "idle"]
    /\ batch' = [batch EXCEPT ![p] = {}]
    /\ current' = [current EXCEPT ![p] = NoRow]
    /\ tries' = [tries EXCEPT ![p] = 0]

\* resetToRetryable throws: the exception leaves the loop and ends the cycle.
ResetFails(p) ==
    /\ pc[p] = "resetting"
    /\ Fault("reset")
    /\ \/ ResetRow(current[p])
       \/ UNCHANGED <<status, attempts>>
    /\ Abandon(p)
    /\ UNCHANGED <<createdAt, committedAt, topic>>

\* The process dies in a cycle and is started again.  A call that it was
\* waiting for may have had its effect, as when that call fails first.
Crash(p) ==
    /\ pc[p] # "idle"
    /\ Fault("crash")
    /\ Abandon(p)
    /\ UNCHANGED <<table, topic>>

\* What the interval timer and the event loop drive by themselves.
RunCycle(p) ==
    \/ claimPendingBatch(p)
    \/ publish(p)
    \/ markPublished(p)
    \/ resetToRetryable(p)

PollerStep(p) ==
    \/ RunCycle(p)
    \/ ClaimUnanswered(p)
    \/ AckLost(p)
    \/ PublishFails(p)
    \/ MarkFails(p)
    \/ ResetFails(p)
    \/ Crash(p)

Next ==
    \/ \E t \in Transactions :
         \/ Begin(t)
         \/ \E B \in SUBSET Rows : CommitTransaction(t, B)
    \/ \E p \in Pollers : PollerStep(p)

Spec == Init /\ [][Next]_vars

\* Every poller keeps running: the timer fires again after every cycle.
FairSpec == Spec /\ \A p \in Pollers : WF_vars(RunCycle(p))

-----------------------------------------------------------------------------
Sent(x) == \E i \in DOMAIN topic : topic[i] = x

(***************************************************************************)
(* A row is in the hands of at most one poller, and while it is there no   *)
(* other may claim it: it is not pending.  This is what SKIP LOCKED and    *)
(* the `processing` status are for with several instances.                 *)
(***************************************************************************)
ClaimedByOne ==
    \A p \in Pollers : \A x \in batch[p] :
        /\ status[x] \in {"processing", "published"}
        /\ \A q \in Pollers \ {p} : x \notin batch[q]

(***************************************************************************)
(* A row is marked published only if Kafka has its message.                *)
(***************************************************************************)
PublishedWasSent == \A x \in Rows : status[x] = "published" => Sent(x)

(***************************************************************************)
(* Duplicates are accounted for: a row is in the topic at most as often as *)
(* the sends that its attempts record, and the one that is not recorded    *)
(* yet, may have tried.  While the row is claimable there is no such one.  *)
(* This holds with any number of pollers and whatever else failed or died. *)
(***************************************************************************)
Copies(x) == Cardinality({i \in DOMAIN topic : topic[i] = x})

\* How many copies n sends of a row can leave in the topic.
CopiesOf(n) == SendTries * n

DuplicatesAreAttempts ==
    \A x \in Rows :
        /\ Copies(x) <= CopiesOf(attempts[x] + 1)
        /\ status[x] \in {"none", "pending"} => Copies(x) <= CopiesOf(attempts[x])

(***************************************************************************)
(* The pollers keep the promise of OutboxRelay: a row is closed once it is *)
(* published and no poller holds it, and it then stays so.  No poller that *)
(* is late, that was not heard or that starts again sends it once more or  *)
(* takes it back to pending.                                               *)
(***************************************************************************)
HeldByNone(x) == \A p \in Pollers : x \notin batch[p]

Relay == INSTANCE OutboxRelay WITH
            Rows      <- Rows,
            SendTries <- SendTries,
            visible   <- {x \in Rows : status[x] # "none"},
            copies    <- [x \in Rows |-> Copies(x)],
            retries   <- attempts,
            closed    <- {x \in Rows : status[x] = "published" /\ HeldByNone(x)}

RelaysRows == Relay!Spec

(***************************************************************************)
(* What a failure may cost.  A row that is `processing` and in no poller's *)
(* memory is stranded: nothing brings it back.  Every failure strands one  *)
(* batch at most, whichever call or process it hits, and with none that    *)
(* ends a cycle early, or hides a claim, no row is stranded.               *)
(***************************************************************************)
Stranded == {x \in Rows : status[x] = "processing" /\ HeldByNone(x)}

Stranding == {"claim", "reset", "crash"}

StrandedBounded ==
    /\ Cardinality(Stranded) <= BatchSize * faults
    /\ Faults \cap Stranding = {} => Stranded = {}

(***************************************************************************)
(* Kafka holds the messages of a user in the order in which their rows     *)
(* were committed, which is the order of the location timestamps.          *)
(***************************************************************************)
PerUserOrder ==
    \A i, j \in DOMAIN topic :
        LET earlier == transaction[topic[i]]
            later   == transaction[topic[j]]
        IN  i < j /\ partitionKey[earlier] = partitionKey[later]
                => committedAt[earlier] <= committedAt[later]

(***************************************************************************)
(* When the order is kept: with one poller that claims one row at a time,  *)
(* and a user whose transactions commit in the order in which they began,  *)
(* as those of an app do that waits for each answer before it sends the    *)
(* next location.  Then created_at tells the order of the commits, and no  *)
(* failure undoes it: a row that is retried is still the oldest, and one   *)
(* that is stuck in `processing` is never sent late.  (What Kafka appends  *)
(* it appends before the try is over: a request that outlives its try, or  *)
(* the process that made it, is not modelled.)                             *)
(***************************************************************************)
OneAtATime == BatchSize = 1 /\ \A p, q \in Pollers : p = q

CommitsFollowBegins ==
    \A t, u \in Transactions :
        /\ partitionKey[t] = partitionKey[u]
        /\ committedAt[t] # 0 /\ committedAt[u] # 0
        /\ createdAt[t] < createdAt[u]
        => committedAt[t] < committedAt[u]

OrderedWhenSerial == OneAtATime /\ CommitsFollowBegins => PerUserOrder

(***************************************************************************)
(* Liveness: a committed row is published in the end.                      *)
(***************************************************************************)
EveryRowPublished ==
    \A x \in Rows : status[x] = "pending" ~> status[x] = "published"

-----------------------------------------------------------------------------
(***************************************************************************)
(* The inductive invariant behind the safety properties.                   *)
(***************************************************************************)
\* A poller holds rows, and one current row, exactly where its cycle says so.
CycleShape ==
    \A p \in Pollers :
        /\ pc[p] = "idle" =>
             batch[p] = {} /\ current[p] = NoRow /\ tries[p] = 0
        /\ pc[p] = "publishing" => /\ batch[p] # {}
                                   /\ current[p] \in batch[p] \cup {NoRow}
                                   /\ tries[p] < SendTries
        /\ pc[p] \in {"marking", "resetting"} => current[p] \in batch[p]
        /\ pc[p] = "marking" => Sent(current[p])

\* A row that is held was sent, since it was claimed, as often as it was tried.
Tried(p, x) == IF x = current[p] THEN tries[p] ELSE 0

CopiesOfHeld ==
    \A p \in Pollers : \A x \in batch[p] :
        Copies(x) <= CopiesOf(attempts[x]) + Tried(p, x)

\* Of the rows a poller holds, only one that is being reset may be published.
HeldIsProcessing ==
    \A p \in Pollers : \A x \in batch[p] :
        x # current[p] \/ pc[p] # "resetting" => status[x] = "processing"

\* A poller holds one batch.
BatchIsBounded == \A p \in Pollers : Cardinality(batch[p]) <= BatchSize

\* Nothing is sent of a transaction that has not committed.
SentIsCommitted == \A x \in Rows : Sent(x) => status[x] # "none"

IInv ==
    /\ TypeOK
    /\ CycleShape
    /\ SentIsCommitted
    /\ ClaimedByOne
    /\ PublishedWasSent
    /\ CopiesOfHeld
    /\ HeldIsProcessing
    /\ DuplicatesAreAttempts
    /\ BatchIsBounded
    /\ StrandedBounded

(***************************************************************************)
(* The inductive invariant behind OrderedWhenSerial, in addition.          *)
(***************************************************************************)
\* The transactions that have begun, or committed, are numbered apart.
Places(f) ==
    \A t \in Transactions :
        /\ f[t] <= Numbered(f)
        /\ \A u \in Transactions : t # u /\ f[t] = f[u] => f[t] = 0

VisibleIsCommitted ==
    /\ \A x \in Rows : status[x] # "none" => committedAt[transaction[x]] # 0
    /\ \A t \in Transactions : committedAt[t] # 0 => createdAt[t] # 0

Held(x) == \E p \in Pollers : x \in batch[p]

\* A message about x may come before one about y.
InOrder(x, y) ==
    partitionKey[transaction[x]] = partitionKey[transaction[y]]
        => committedAt[transaction[x]] <= committedAt[transaction[y]]

\* First what was sent, then the only row that is held, then the pending rows.
Queue ==
    \A x, y \in Rows :
        /\ Held(x) /\ Held(y) => x = y
        /\ Sent(x) /\ (Held(y) \/ status[y] = "pending") => InOrder(x, y)
        /\ Held(x) /\ status[y] = "pending" => InOrder(x, y)

SerialInv ==
    /\ Places(createdAt) /\ Places(committedAt)
    /\ VisibleIsCommitted
    /\ OneAtATime /\ CommitsFollowBegins => PerUserOrder /\ Queue
=============================================================================
