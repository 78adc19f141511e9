------------------------ MODULE OutboxDispatch_proofs ------------------------
(***************************************************************************)
(* Proofs about OutboxDispatch, for any number of rows, pollers and        *)
(* failures.                                                               *)
(***************************************************************************)
EXTENDS OutboxDispatch, FiniteSetTheorems, TLAPS

(***************************************************************************)
(* Counting the copies of a row in the topic.                              *)
(***************************************************************************)
LEMMA CopiesType ==
    ASSUME topic \in Seq(Rows), NEW x
    PROVE  /\ Copies(x) \in Nat
           /\ IsFiniteSet({i \in DOMAIN topic : topic[i] = x})
<1>1. DOMAIN topic = 1 .. Len(topic) /\ Len(topic) \in Nat
  OBVIOUS
<1>2. IsFiniteSet(1 .. Len(topic))
  BY <1>1, FS_Interval
<1>3. IsFiniteSet({i \in DOMAIN topic : topic[i] = x})
  BY <1>1, <1>2, FS_Subset
<1> QED
  BY <1>3, FS_CardinalityType DEF Copies

LEMMA CopiesAppend ==
    ASSUME topic \in Seq(Rows), NEW y \in Rows, topic' = Append(topic, y),
           NEW x
    PROVE  /\ Copies(x)' = IF x = y THEN Copies(x) + 1 ELSE Copies(x)
           /\ Sent(x)' <=> Sent(x) \/ x = y
<1> DEFINE S == {i \in DOMAIN topic : topic[i] = x}
           n == Len(topic)
<1>1. /\ DOMAIN topic = 1 .. n /\ n \in Nat
      /\ DOMAIN topic' = 1 .. (n + 1)
      /\ topic'[n + 1] = y
      /\ \A i \in 1 .. n : topic'[i] = topic[i]
  OBVIOUS
<1>2. {i \in DOMAIN topic' : topic'[i] = x}
        = IF x = y THEN S \cup {n + 1} ELSE S
  BY <1>1
<1>3. IsFiniteSet(S) /\ n + 1 \notin S
  <2>1. IsFiniteSet(S)
    BY CopiesType
  <2>2. n + 1 \notin S
    BY <1>1
  <2> QED
    BY <2>1, <2>2
<1>4. Cardinality(S \cup {n + 1}) = Cardinality(S) + 1
  BY <1>3, FS_AddElement
<1>5. Copies(x)' = IF x = y THEN Copies(x) + 1 ELSE Copies(x)
  BY <1>2, <1>4 DEF Copies
<1>6. Sent(x)' <=> Sent(x) \/ x = y
  BY <1>1 DEF Sent
<1> QED
  BY <1>5, <1>6

\* An empty topic holds no copy of anything.
LEMMA CopiesEmpty ==
    ASSUME topic = << >>, NEW x
    PROVE  Copies(x) = 0
<1>1. {i \in DOMAIN topic : topic[i] = x} = {}
  OBVIOUS
<1> QED
  BY <1>1, FS_EmptySet DEF Copies

\* One more send may leave as many copies more as KafkaJS has tries.
LEMMA CopiesOfMore ==
    ASSUME NEW n \in Nat
    PROVE  /\ CopiesOf(n) \in Nat
           /\ CopiesOf(n + 1) = CopiesOf(n) + SendTries
           /\ \A m \in Nat : n <= m => CopiesOf(n) <= CopiesOf(m)
<1>1. CopiesOf(n) \in Nat
  BY SendAssumption DEF CopiesOf
<1>2. CopiesOf(n + 1) = CopiesOf(n) + SendTries
  BY SendAssumption DEF CopiesOf
<1>3. ASSUME NEW m \in Nat, n <= m PROVE CopiesOf(n) <= CopiesOf(m)
  <2>1. PICK d \in Nat : m = n + d
    <3>1. m - n \in Nat /\ m = n + (m - n)
      BY <1>3
    <3> QED
      BY <3>1
  <2>2. SendTries * m = SendTries * n + SendTries * d
    BY <2>1, SendAssumption
  <2>3. SendTries * d \in Nat /\ SendTries * n \in Nat
    BY SendAssumption
  <2> QED
    BY <2>2, <2>3 DEF CopiesOf
<1> QED
  BY <1>1, <1>2, <1>3

\* The next creation time and commit place are numbers.
LEMMA NumberedType ==
    ASSUME NEW f
    PROVE  Numbered(f) \in Nat
<1>1. IsFiniteSet({t \in Transactions : f[t] # 0})
  BY RowAssumption, FS_Subset
<1> QED
  BY <1>1, FS_CardinalityType DEF Numbered

-----------------------------------------------------------------------------
(***************************************************************************)
(* Type correctness, together with the shape of a cycle: a row is being    *)
(* marked or reset only while it is in the batch.                          *)
(***************************************************************************)
TypeInv == TypeOK /\ CycleShape

LEMMA InitTypeInv == Init => TypeInv
<1> SUFFICES ASSUME Init PROVE TypeInv
    OBVIOUS
<1>1. TypeOK
  BY FaultsAssumption, SendAssumption DEF Init, TypeOK, Status
<1>2. CycleShape
  BY DEF Init, CycleShape
<1> QED
  BY <1>1, <1>2 DEF TypeInv

\* A step that sends nothing leaves every count alone.
LEMMA SameTopic ==
    ASSUME topic' = topic, NEW x
    PROVE  Copies(x)' = Copies(x) /\ (Sent(x)' <=> Sent(x))
BY DEF Copies, Sent

\* A step that may send the current row only adds to what was sent.
LEMMA SentGrows ==
    ASSUME topic \in Seq(Rows), NEW y \in Rows,
           topic' \in {topic, Append(topic, y)}, NEW x, Sent(x)
    PROVE  Sent(x)'
BY SameTopic, CopiesAppend

LEMMA NextRowShape ==
    ASSUME TypeInv, NEW p \in Pollers, pc[p] \in {"marking", "resetting"},
           NextRow(p), topic' = topic
    PROVE  /\ pc' \in [Pollers -> {"idle", "publishing", "marking",
                                   "resetting"}]
           /\ batch' \in [Pollers -> SUBSET Rows]
           /\ current' \in [Pollers -> Rows \cup {NoRow}]
           /\ tries' \in [Pollers -> 0 .. SendTries]
           /\ CycleShape'
<1>1. current[p] \in batch[p] /\ batch[p] \in SUBSET Rows
  BY DEF TypeInv, TypeOK, CycleShape
<1>2. batch[p] \ {current[p]} = {} <=> batch[p] = {current[p]}
  BY <1>1
<1> QED
  BY <1>1, <1>2, SendAssumption DEF NextRow, TypeInv, TypeOK, CycleShape, Sent

LEMMA AbandonShape ==
    ASSUME TypeInv, NEW p \in Pollers, Abandon(p), topic' = topic
    PROVE  /\ pc' \in [Pollers -> {"idle", "publishing", "marking",
                                   "resetting"}]
           /\ batch' \in [Pollers -> SUBSET Rows]
           /\ current' \in [Pollers -> Rows \cup {NoRow}]
           /\ tries' \in [Pollers -> 0 .. SendTries]
           /\ CycleShape'
BY SendAssumption DEF Abandon, TypeInv, TypeOK, CycleShape, Sent

LEMMA FaultType ==
    ASSUME TypeOK, NEW kind, Fault(kind)
    PROVE  faults' \in 0 .. MaxFaults
BY FaultsAssumption DEF TypeOK, Fault

\* The row whose outcome a poller records is a row of its batch.
LEMMA CurrentIsRow ==
    ASSUME TypeInv, NEW p \in Pollers, pc[p] \in {"marking", "resetting"}
    PROVE  current[p] \in batch[p] /\ current[p] \in Rows
BY DEF TypeInv, TypeOK, CycleShape

LEMMA ResetRowType ==
    ASSUME TypeOK, NEW x \in Rows,
           ResetRow(x) \/ UNCHANGED <<status, attempts>>
    PROVE  status' \in [Rows -> Status] /\ attempts' \in [Rows -> Nat]
<1>1. CASE ResetRow(x)
  <2>1. attempts[x] + 1 \in Nat
    BY DEF TypeOK
  <2>2. attempts' \in [Rows -> Nat]
    BY <1>1, <2>1 DEF ResetRow, TypeOK
  <2>3. status' \in [Rows -> Status]
    BY <1>1 DEF ResetRow, TypeOK, Status
  <2> QED
    BY <2>2, <2>3
<1>2. CASE UNCHANGED <<status, attempts>>
  BY <1>2 DEF TypeOK
<1> QED
  BY <1>1, <1>2

\* A try that keeps the row: what p holds and sends after it.
LEMMA TryShape ==
    ASSUME TypeInv, NEW p \in Pollers, NEW x \in batch[p], TrySend(p, x)
    PROVE  /\ pc[p] = "publishing" /\ x \in Rows
           /\ current' = [current EXCEPT ![p] = x]
           /\ current' \in [Pollers -> Rows \cup {NoRow}]
           /\ tries[p] < SendTries
           /\ tries' = [tries EXCEPT ![p] = @ + 1]
           /\ tries' \in [Pollers -> 0 .. SendTries]
<1>1. /\ pc[p] = "publishing" /\ x \in Rows
      /\ current' = [current EXCEPT ![p] = x]
      /\ tries' = [tries EXCEPT ![p] = @ + 1]
  BY DEF TrySend, TypeInv, TypeOK
<1>2. tries[p] \in 0 .. SendTries /\ tries[p] < SendTries
  BY <1>1 DEF TypeInv, TypeOK, CycleShape
<1>3. tries[p] + 1 \in 0 .. SendTries
  BY <1>2, SendAssumption
<1> QED
  BY <1>1, <1>2, <1>3 DEF TypeInv, TypeOK

\* The three ways in which a try may end.
Sends(p) == publish(p) \/ AckLost(p) \/ PublishFails(p)

LEMMA SendsShape ==
    ASSUME TypeInv, NEW p \in Pollers, Sends(p)
    PROVE  /\ \E x \in batch[p] :
                /\ TrySend(p, x)
                /\ topic' \in {topic, Append(topic, x)}
                /\ ~PublishFails(p) => topic' = Append(topic, x)
           /\ UNCHANGED <<status, attempts, createdAt, committedAt, batch>>
           /\ \E l \in {"publishing", "marking", "resetting"} :
                /\ pc' = [pc EXCEPT ![p] = l]
                /\ l = "publishing" => AckLost(p)
                /\ l = "marking" => publish(p)
                /\ PublishFails(p) => l = "resetting"
<1>1. /\ pc \in [Pollers -> {"idle", "publishing", "marking", "resetting"}]
      /\ \A x : TrySend(p, x) => pc[p] = "publishing"
  BY DEF TypeInv, TypeOK, TrySend
<1>2. CASE publish(p)
  BY <1>1, <1>2 DEF publish, PublishFails, table
<1>3. CASE AckLost(p)
  <2>1. pc' = [pc EXCEPT ![p] = "publishing"] /\ pc[p] = "publishing"
    BY <1>1, <1>3 DEF AckLost
  <2> QED
    BY <1>1, <1>3, <2>1 DEF AckLost, PublishFails, table
<1>4. CASE PublishFails(p)
  BY <1>1, <1>4 DEF PublishFails, table
<1> QED
  BY <1>2, <1>3, <1>4 DEF Sends

LEMMA NextTypeInv == TypeInv /\ [Next]_vars => TypeInv'
<1> SUFFICES ASSUME TypeInv, [Next]_vars PROVE TypeInv'
    OBVIOUS
<1> USE DEF table, pollers, Status
<1>1. ASSUME NEW t \in Transactions, Begin(t) PROVE TypeInv'
  BY <1>1, NumberedType DEF Begin, TypeInv, TypeOK, CycleShape, Sent
<1>2. ASSUME NEW t \in Transactions, NEW B \in SUBSET Rows,
             CommitTransaction(t, B)
      PROVE  TypeInv'
  BY <1>2, NumberedType
     DEF CommitTransaction, SetStatus, TypeInv, TypeOK, CycleShape, Sent
<1>3. ASSUME NEW p \in Pollers, claimPendingBatch(p) PROVE TypeInv'
  <2>1. PICK B \in Claimable :
          /\ status' = SetStatus(B, "processing")
          /\ batch' = [batch EXCEPT ![p] = B]
    BY <1>3 DEF claimPendingBatch
  <2>2. B # {} /\ B \subseteq Rows
    BY <2>1 DEF Claimable
  <2>3. status' \in [Rows -> Status]
    BY <2>1 DEF SetStatus, TypeInv, TypeOK
  <2> QED
    BY <1>3, <2>1, <2>2, <2>3, SendAssumption
       DEF claimPendingBatch, TypeInv, TypeOK, CycleShape, Sent
<1>4. ASSUME NEW p \in Pollers, ClaimUnanswered(p) PROVE TypeInv'
  <2>1. status' \in [Rows -> Status]
    <3>1. PICK B \in Claimable : status' = SetStatus(B, "processing")
      BY <1>4 DEF ClaimUnanswered
    <3> QED
      BY <3>1 DEF SetStatus, TypeInv, TypeOK
  <2>2. faults' \in 0 .. MaxFaults
    BY <1>4, FaultType DEF ClaimUnanswered, TypeInv
  <2> QED
    BY <1>4, <2>1, <2>2 DEF ClaimUnanswered, TypeInv, TypeOK, CycleShape, Sent
<1>5. ASSUME NEW p \in Pollers, Sends(p) PROVE TypeInv'
  <2>1. PICK x \in batch[p] :
          /\ TrySend(p, x)
          /\ topic' \in {topic, Append(topic, x)}
          /\ ~PublishFails(p) => topic' = Append(topic, x)
    BY <1>5, SendsShape
  <2>2. PICK l \in {"publishing", "marking", "resetting"} :
          /\ pc' = [pc EXCEPT ![p] = l]
          /\ l = "publishing" => AckLost(p)
          /\ l = "marking" => publish(p)
          /\ PublishFails(p) => l = "resetting"
    BY <1>5, SendsShape
  <2>2a. UNCHANGED <<status, attempts, createdAt, committedAt, batch>>
    BY <1>5, SendsShape
  <2>3. /\ pc[p] = "publishing" /\ x \in Rows
        /\ current' = [current EXCEPT ![p] = x]
        /\ current' \in [Pollers -> Rows \cup {NoRow}]
        /\ tries' = [tries EXCEPT ![p] = @ + 1]
        /\ tries' \in [Pollers -> 0 .. SendTries]
    BY <2>1, TryShape
  <2>4. topic \in Seq(Rows) /\ topic' \in Seq(Rows)
    <3>1. topic \in Seq(Rows)
      BY DEF TypeInv, TypeOK
    <3>2. Append(topic, x) \in Seq(Rows)
      BY <2>3, <3>1
    <3> QED
      BY <2>1, <3>1, <3>2
  <2>5. faults' \in 0 .. MaxFaults
    BY <1>5, FaultType DEF Sends, publish, AckLost, PublishFails, TypeInv, TypeOK
  <2>6. TypeOK'
    BY <2>2, <2>2a, <2>3, <2>4, <2>5 DEF TypeInv, TypeOK
  <2>7. ASSUME NEW q \in Pollers
        PROVE  /\ pc'[q] = "idle" => /\ batch'[q] = {}
                                     /\ current'[q] = NoRow
                                     /\ tries'[q] = 0
               /\ pc'[q] = "publishing" =>
                    /\ batch'[q] # {}
                    /\ current'[q] \in batch'[q] \cup {NoRow}
                    /\ tries'[q] < SendTries
               /\ pc'[q] \in {"marking", "resetting"} =>
                    current'[q] \in batch'[q]
               /\ pc'[q] = "marking" => Sent(current[q])'
    <3>1. CASE q = p
      <4>1. l = "marking" => Sent(x)'
        BY <2>1, <2>2, <2>3, <2>4, CopiesAppend
      <4>2. /\ current'[p] = x /\ pc'[p] = l /\ batch'[p] = batch[p]
            /\ tries'[p] = tries[p] + 1
        BY <2>2, <2>2a, <2>3 DEF TypeInv, TypeOK
      <4>3. l = "publishing" => tries'[p] < SendTries
        BY <2>2, <4>2 DEF AckLost
      <4> QED
        BY <2>1, <3>1, <4>1, <4>2, <4>3 DEF Sent
    <3>2. CASE q # p
      <4>1. /\ pc'[q] = pc[q] /\ current'[q] = current[q]
            /\ batch'[q] = batch[q] /\ tries'[q] = tries[q]
        BY <2>2, <2>2a, <2>3, <3>2 DEF TypeInv, TypeOK
      <4>2. pc[q] = "marking" => Sent(current[q])
        BY DEF TypeInv, CycleShape
      <4>3. pc[q] = "marking" => \E i \in DOMAIN topic' :
                                    topic'[i] = current[q]
        BY <2>1, <2>3, <2>4, <4>2, SentGrows DEF Sent
      <4> QED
        BY <4>1, <4>3 DEF TypeInv, CycleShape, Sent
    <3> QED
      BY <3>1, <3>2
  <2>8. CycleShape'
    BY <2>7 DEF CycleShape
  <2> QED
    BY <2>6, <2>8 DEF TypeInv
<1>6. ASSUME NEW p \in Pollers, markPublished(p) PROVE TypeInv'
  <2>1. pc[p] \in {"marking", "resetting"} /\ NextRow(p) /\ topic' = topic
    BY <1>6 DEF markPublished
  <2> QED
    BY <1>6, <2>1, NextRowShape DEF markPublished, TypeInv, TypeOK
<1>7. ASSUME NEW p \in Pollers, MarkFails(p) PROVE TypeInv'
  <2>1. status' \in [Rows -> Status]
    BY <1>7 DEF MarkFails, TypeInv, TypeOK
  <2>2. faults' \in 0 .. MaxFaults
    BY <1>7, FaultType DEF MarkFails, TypeInv
  <2> QED
    BY <1>7, <2>1, <2>2 DEF MarkFails, TypeInv, TypeOK, CycleShape, Sent
<1>8. ASSUME NEW p \in Pollers, resetToRetryable(p) PROVE TypeInv'
  <2>1. pc[p] \in {"marking", "resetting"} /\ NextRow(p) /\ topic' = topic
    BY <1>8 DEF resetToRetryable
  <2>2. status' \in [Rows -> Status] /\ attempts' \in [Rows -> Nat]
    BY <1>8, CurrentIsRow, ResetRowType DEF resetToRetryable, TypeInv
  <2> QED
    BY <1>8, <2>1, <2>2, NextRowShape DEF resetToRetryable, TypeInv, TypeOK
<1>9. ASSUME NEW p \in Pollers, ResetFails(p) PROVE TypeInv'
  <2>1. Abandon(p) /\ topic' = topic
    BY <1>9 DEF ResetFails
  <2>2. status' \in [Rows -> Status] /\ attempts' \in [Rows -> Nat]
    BY <1>9, CurrentIsRow, ResetRowType DEF ResetFails, TypeInv
  <2>3. faults' \in 0 .. MaxFaults
    BY <1>9, FaultType DEF ResetFails, TypeInv
  <2> QED
    BY <1>9, <2>1, <2>2, <2>3, AbandonShape DEF ResetFails, TypeInv, TypeOK
<1>10. ASSUME NEW p \in Pollers, Crash(p) PROVE TypeInv'
  <2>1. Abandon(p) /\ topic' = topic
    BY <1>10 DEF Crash
  <2>2. faults' \in 0 .. MaxFaults
    BY <1>10, FaultType DEF Crash, TypeInv
  <2> QED
    BY <1>10, <2>1, <2>2, AbandonShape DEF Crash, TypeInv, TypeOK
<1>11. CASE UNCHANGED vars
  BY <1>11 DEF vars, TypeInv, TypeOK, CycleShape, Sent
<1> QED
  BY <1>1, <1>2, <1>3, <1>4, <1>5, <1>6, <1>7, <1>8, <1>9, <1>10, <1>11
     DEF Next, PollerStep, RunCycle, Sends

(***************************************************************************)
(* Every variable keeps its type.                                          *)
(***************************************************************************)
THEOREM TypeCorrect == Spec => []TypeOK
<1>1. Spec => []TypeInv
  BY InitTypeInv, NextTypeInv, PTL DEF Spec
<1>2. TypeInv => TypeOK
  BY DEF TypeInv
<1> QED
  BY <1>1, <1>2, PTL

-----------------------------------------------------------------------------
(***************************************************************************)
(* The claim: a poller that claims takes rows nobody holds.                *)
(***************************************************************************)
LEMMA ClaimedAreFree ==
    ASSUME ClaimedByOne, NEW B \in Claimable
    PROVE  \A q \in Pollers : B \cap batch[q] = {}
BY DEF ClaimedByOne, Claimable

LEMMA NextClaimedByOne ==
    ASSUME TypeInv, ClaimedByOne, [Next]_vars
    PROVE  ClaimedByOne'
<1> USE DEF table, pollers
<1>1. ASSUME NEW t \in Transactions, Begin(t) PROVE ClaimedByOne'
  BY <1>1 DEF Begin, ClaimedByOne
<1>2. ASSUME NEW t \in Transactions, NEW B \in SUBSET Rows,
             CommitTransaction(t, B)
      PROVE  ClaimedByOne'
  BY <1>2 DEF CommitTransaction, SetStatus, ClaimedByOne, TypeInv, TypeOK
<1>3. ASSUME NEW p \in Pollers, claimPendingBatch(p) PROVE ClaimedByOne'
  <2>1. PICK B \in Claimable :
          /\ status' = SetStatus(B, "processing")
          /\ batch' = [batch EXCEPT ![p] = B]
    BY <1>3 DEF claimPendingBatch
  <2>2. batch[p] = {} /\ B \subseteq Rows
    BY <1>3, <2>1 DEF claimPendingBatch, TypeInv, CycleShape, Claimable
  <2> QED
    BY <2>1, <2>2, ClaimedAreFree DEF ClaimedByOne, SetStatus, TypeInv, TypeOK
<1>4. ASSUME NEW p \in Pollers, ClaimUnanswered(p) PROVE ClaimedByOne'
  <2>1. PICK B \in Claimable : status' = SetStatus(B, "processing")
    BY <1>4 DEF ClaimUnanswered
  <2> QED
    BY <1>4, <2>1 DEF ClaimUnanswered, ClaimedByOne, SetStatus, TypeInv, TypeOK
<1>5. ASSUME NEW p \in Pollers, Sends(p) PROVE ClaimedByOne'
  BY <1>5 DEF Sends, publish, AckLost, PublishFails, ClaimedByOne
<1>6. ASSUME NEW p \in Pollers, MarkFails(p) PROVE ClaimedByOne'
  BY <1>6 DEF MarkFails, ClaimedByOne, TypeInv, TypeOK
<1>7. ASSUME NEW p \in Pollers, markPublished(p) \/ resetToRetryable(p)
      PROVE  ClaimedByOne'
  <2>1. current[p] \in batch[p] /\ current[p] \in Rows
    BY <1>7, CurrentIsRow DEF markPublished, resetToRetryable
  <2>2. batch' = [batch EXCEPT ![p] = batch[p] \ {current[p]}]
    BY <1>7 DEF markPublished, resetToRetryable, NextRow
  <2>3. \A x \in Rows \ {current[p]} : status'[x] = status[x]
    BY <1>7 DEF markPublished, resetToRetryable, ResetRow, TypeInv, TypeOK
  <2>4. \A q \in Pollers : /\ batch'[q] \subseteq batch[q]
                           /\ current[p] \notin batch'[q]
                           /\ batch'[q] \subseteq Rows
    BY <2>1, <2>2 DEF ClaimedByOne, TypeInv, TypeOK
  <2> QED
    BY <2>3, <2>4 DEF ClaimedByOne
<1>8. ASSUME NEW p \in Pollers, ResetFails(p) PROVE ClaimedByOne'
  <2>1. current[p] \in batch[p] /\ current[p] \in Rows
    BY <1>8, CurrentIsRow DEF ResetFails
  <2>2. batch' = [batch EXCEPT ![p] = {}]
    BY <1>8 DEF ResetFails, Abandon
  <2>3. \A x \in Rows \ {current[p]} : status'[x] = status[x]
    BY <1>8 DEF ResetFails, ResetRow, TypeInv, TypeOK
  <2>4. \A q \in Pollers : /\ batch'[q] \subseteq batch[q]
                           /\ current[p] \notin batch'[q]
                           /\ batch'[q] \subseteq Rows
    BY <2>1, <2>2 DEF ClaimedByOne, TypeInv, TypeOK
  <2> QED
    BY <2>3, <2>4 DEF ClaimedByOne
<1>9. ASSUME NEW p \in Pollers, Crash(p) PROVE ClaimedByOne'
  BY <1>9 DEF Crash, Abandon, ClaimedByOne, TypeInv, TypeOK
<1>10. CASE UNCHANGED vars
  BY <1>10 DEF vars, ClaimedByOne
<1> QED
  BY <1>1, <1>2, <1>3, <1>4, <1>5, <1>6, <1>7, <1>8, <1>9, <1>10
     DEF Next, PollerStep, RunCycle, Sends

-----------------------------------------------------------------------------
(***************************************************************************)
(* Counting: what was sent, what was attempted and what is marked.         *)
(***************************************************************************)
Counting == PublishedWasSent /\ CopiesOfHeld /\ DuplicatesAreAttempts

\* The counts carry over a step that sends nothing, counts no attempt down,
\* marks only what was sent, and gives out only rows that are not ahead.
LEMMA QuietCounting ==
    ASSUME TypeInv, TypeInv', Counting, topic' = topic,
           \A x \in Rows : attempts'[x] >= attempts[x],
           \A x \in Rows : status'[x] = "published" =>
               status[x] = "published" \/ Sent(x),
           \A x \in Rows : status'[x] \in {"none", "pending"} =>
               \/ status[x] \in {"none", "pending"}
               \/ attempts'[x] = attempts[x] + 1,
           \A p \in Pollers : \A x \in batch'[p] :
               \/ x \in batch[p] /\ Tried(p, x)' = Tried(p, x)
               \/ status[x] \in {"none", "pending"}
    PROVE  Counting'
<1>1. \A x \in Rows :
         /\ Copies(x) \in Nat /\ attempts[x] \in Nat /\ attempts'[x] \in Nat
         /\ CopiesOf(attempts[x]) \in Nat /\ CopiesOf(attempts'[x]) \in Nat
         /\ CopiesOf(attempts[x] + 1) \in Nat
         /\ CopiesOf(attempts'[x] + 1) \in Nat
         /\ CopiesOf(attempts[x]) <= CopiesOf(attempts'[x])
         /\ CopiesOf(attempts[x] + 1) <= CopiesOf(attempts'[x] + 1)
  <2> SUFFICES ASSUME NEW x \in Rows
               PROVE  /\ Copies(x) \in Nat
                      /\ attempts[x] \in Nat /\ attempts'[x] \in Nat
                      /\ CopiesOf(attempts[x]) \in Nat
                      /\ CopiesOf(attempts'[x]) \in Nat
                      /\ CopiesOf(attempts[x] + 1) \in Nat
                      /\ CopiesOf(attempts'[x] + 1) \in Nat
                      /\ CopiesOf(attempts[x]) <= CopiesOf(attempts'[x])
                      /\ CopiesOf(attempts[x] + 1) <= CopiesOf(attempts'[x] + 1)
    OBVIOUS
  <2>1. Copies(x) \in Nat /\ attempts[x] \in Nat /\ attempts'[x] \in Nat
    BY CopiesType DEF TypeInv, TypeOK
  <2>2. /\ attempts[x] + 1 \in Nat /\ attempts'[x] + 1 \in Nat
        /\ attempts[x] <= attempts'[x] /\ attempts[x] + 1 <= attempts'[x] + 1
    BY <2>1
  <2> QED
    BY <2>1, <2>2, CopiesOfMore
<1>2. /\ \A p \in Pollers : batch'[p] \subseteq Rows
      /\ \A p \in Pollers, x \in Rows :
           Tried(p, x) \in 0 .. SendTries /\ Tried(p, x)' \in 0 .. SendTries
  BY SendAssumption DEF TypeInv, TypeOK, Tried
<1>3. \A x : Copies(x)' = Copies(x) /\ (Sent(x)' <=> Sent(x))
  BY SameTopic
<1>4. PublishedWasSent'
  BY <1>3 DEF Counting, PublishedWasSent
<1>5. CopiesOfHeld'
  <2> SUFFICES ASSUME NEW p \in Pollers, NEW x \in batch'[p]
               PROVE  Copies(x)' <= CopiesOf(attempts'[x]) + Tried(p, x)'
    BY DEF CopiesOfHeld, CopiesOf
  <2>1. x \in Rows
    BY <1>2
  <2>2. Copies(x) <= CopiesOf(attempts[x]) + Tried(p, x)'
    <3>1. CASE x \in batch[p] /\ Tried(p, x)' = Tried(p, x)
      BY <3>1 DEF Counting, CopiesOfHeld
    <3>2. CASE status[x] \in {"none", "pending"}
      <4>1. Copies(x) <= CopiesOf(attempts[x])
        BY <2>1, <3>2 DEF Counting, DuplicatesAreAttempts
      <4> QED
        BY <1>1, <1>2, <2>1, <4>1
    <3> QED
      BY <3>1, <3>2
  <2>3. /\ CopiesOf(attempts[x]) \in Nat /\ CopiesOf(attempts'[x]) \in Nat
        /\ CopiesOf(attempts[x]) <= CopiesOf(attempts'[x])
        /\ Copies(x) \in Nat /\ Tried(p, x)' \in 0 .. SendTries
        /\ Copies(x)' = Copies(x)
    BY <1>1, <1>2, <1>3, <2>1
  <2> HIDE DEF CopiesOf, Tried, Copies
  <2> QED
    BY <2>2, <2>3, SendAssumption
<1>6. DuplicatesAreAttempts'
  <2> SUFFICES ASSUME NEW x \in Rows
               PROVE  /\ Copies(x)' <= CopiesOf(attempts'[x] + 1)
                      /\ status'[x] \in {"none", "pending"}
                           => Copies(x)' <= CopiesOf(attempts'[x])
    BY DEF DuplicatesAreAttempts, CopiesOf
  <2>1. /\ Copies(x) <= CopiesOf(attempts[x] + 1)
        /\ status[x] \in {"none", "pending"} => Copies(x) <= CopiesOf(attempts[x])
    BY DEF Counting, DuplicatesAreAttempts
  <2>2. Copies(x)' = Copies(x)
    BY <1>3
  <2> QED
    BY <1>1, <2>1, <2>2
<1> QED
  BY <1>4, <1>5, <1>6 DEF Counting

\* A reset counts one attempt and makes the row claimable again.
LEMMA ResetCounts ==
    ASSUME TypeOK, NEW x \in Rows, ResetRow(x)
    PROVE  /\ status'[x] = "pending" /\ attempts'[x] = attempts[x] + 1
           /\ \A y \in Rows : attempts'[y] >= attempts[y]
           /\ \A y \in Rows \ {x} : status'[y] = status[y]
<1>1. \A y \in Rows : attempts[y] \in Nat
  BY DEF TypeOK
<1>2. \A y \in Rows : attempts'[y] = IF y = x THEN attempts[y] + 1
                                              ELSE attempts[y]
  BY DEF ResetRow, TypeOK
<1>3. \A y \in Rows : attempts'[y] >= attempts[y]
  BY <1>1, <1>2
<1>4. \A y \in Rows : status'[y] = IF y = x THEN "pending" ELSE status[y]
  BY DEF ResetRow, TypeOK
<1> QED
  BY <1>2, <1>3, <1>4

LEMMA SendCounting ==
    ASSUME TypeInv, TypeInv', ClaimedByOne, Counting,
           NEW p \in Pollers, Sends(p)
    PROVE  Counting'
<1>1. PICK x \in batch[p] :
        /\ TrySend(p, x)
        /\ topic' \in {topic, Append(topic, x)}
  BY SendsShape
<1>2. /\ x \in Rows /\ topic \in Seq(Rows)
      /\ UNCHANGED <<status, attempts, batch>>
      /\ current[p] \in {x, NoRow} /\ current' = [current EXCEPT ![p] = x]
      /\ tries' = [tries EXCEPT ![p] = @ + 1]
      /\ tries[p] < SendTries
  BY <1>1, SendsShape, TryShape DEF TrySend, TypeInv, TypeOK
<1>3. \A y \in Rows :
        /\ Copies(y) \in Nat /\ attempts[y] \in Nat
        /\ CopiesOf(attempts[y]) \in Nat
        /\ CopiesOf(attempts[y] + 1) = CopiesOf(attempts[y]) + SendTries
  BY CopiesType, CopiesOfMore DEF TypeInv, TypeOK
<1>4. \A y \in Rows : /\ Sent(y) => Sent(y)'
                      /\ y # x => Copies(y)' = Copies(y)
                      /\ Copies(x)' = Copies(x) \/ Copies(x)' = Copies(x) + 1
  BY <1>1, <1>2, SameTopic, CopiesAppend
<1>5. Copies(x)' <= CopiesOf(attempts[x]) + tries'[p]
  <2>1. Copies(x) <= CopiesOf(attempts[x]) + Tried(p, x)
    BY DEF Counting, CopiesOfHeld
  <2>2. /\ Tried(p, x) \in {0, tries[p]} /\ tries[p] \in 0 .. SendTries
        /\ tries'[p] = tries[p] + 1
    BY <1>2 DEF Tried, TypeInv, TypeOK
  <2>3. /\ Copies(x) \in Nat /\ CopiesOf(attempts[x]) \in Nat
        /\ Copies(x)' = Copies(x) \/ Copies(x)' = Copies(x) + 1
    BY <1>2, <1>3, <1>4
  <2> QED
    BY <2>1, <2>2, <2>3, SendAssumption
<1>6. \A q \in Pollers \ {p} : /\ x \notin batch[q]
                              /\ current'[q] = current[q]
                              /\ tries'[q] = tries[q]
  BY <1>2 DEF ClaimedByOne, TypeInv, TypeOK
<1>7. PublishedWasSent'
  BY <1>2, <1>4 DEF Counting, PublishedWasSent
<1>8. CopiesOfHeld'
  <2> SUFFICES ASSUME NEW q \in Pollers, NEW y \in batch[q]
               PROVE  Copies(y)' <= CopiesOf(attempts[y]) + Tried(q, y)'
    BY <1>2 DEF CopiesOfHeld, CopiesOf
  <2>1. y \in Rows
    BY DEF TypeInv, TypeOK
  <2>2. CASE y = x
    <3>1. q = p /\ Tried(q, y)' = tries'[p]
      BY <1>2, <1>6, <2>2 DEF Tried, TypeInv, TypeOK
    <3> QED
      BY <1>5, <2>2, <3>1
  <2>3. CASE y # x
    <3>1. Tried(q, y)' = Tried(q, y)
      BY <1>2, <1>6, <2>1, <2>3, RowAssumption DEF Tried, TypeInv, TypeOK
    <3>2. Copies(y) <= CopiesOf(attempts[y]) + Tried(q, y)
      BY DEF Counting, CopiesOfHeld
    <3> QED
      BY <1>4, <2>1, <2>3, <3>1, <3>2
  <2> QED
    BY <2>2, <2>3
<1>9. DuplicatesAreAttempts'
  <2> SUFFICES ASSUME NEW y \in Rows
               PROVE  /\ Copies(y)' <= CopiesOf(attempts[y] + 1)
                      /\ status[y] \in {"none", "pending"}
                           => Copies(y)' <= CopiesOf(attempts[y])
    BY <1>2 DEF DuplicatesAreAttempts, CopiesOf
  <2>1. CASE y = x
    <3>1. status[x] \notin {"none", "pending"}
      BY DEF ClaimedByOne
    <3>2. tries'[p] \in 0 .. SendTries
      BY DEF TypeInv, TypeOK
    <3>2a. /\ CopiesOf(attempts[x]) \in Nat
           /\ CopiesOf(attempts[x] + 1) = CopiesOf(attempts[x]) + SendTries
      BY <1>2, <1>3
    <3>2b. Copies(x)' \in Nat
      <4>1. Copies(x) \in Nat
        BY <1>2, <1>3
      <4> QED
        BY <1>2, <1>4, <4>1
    <3>3. Copies(x)' <= CopiesOf(attempts[x] + 1)
      BY <1>5, <3>2, <3>2a, <3>2b, SendAssumption
    <3> QED
      BY <2>1, <3>1, <3>3
  <2>2. CASE y # x
    <3>1. Copies(y)' = Copies(y)
      BY <1>4, <2>2
    <3> QED
      BY <3>1 DEF Counting, DuplicatesAreAttempts
  <2> QED
    BY <2>1, <2>2
<1> QED
  BY <1>7, <1>8, <1>9 DEF Counting

\* The rows that stay in a batch when the current one leaves it.
LEMMA NextRowTried ==
    ASSUME TypeInv, NEW p \in Pollers, NextRow(p)
    PROVE  \A q \in Pollers : \A x \in batch'[q] :
                x \in batch[q] /\ Tried(q, x)' = Tried(q, x)
<1> SUFFICES ASSUME NEW q \in Pollers, NEW x \in batch'[q]
             PROVE  x \in batch[q] /\ Tried(q, x)' = Tried(q, x)
  OBVIOUS
<1>1. CASE q = p
  <2>1. /\ x \in batch[p] /\ x # current[p]
        /\ tries'[p] = 0 /\ x \in Rows
    BY <1>1 DEF NextRow, TypeInv, TypeOK
  <2> QED
    BY <1>1, <2>1 DEF Tried
<1>2. CASE q # p
  BY <1>2 DEF NextRow, Tried, TypeInv, TypeOK
<1> QED
  BY <1>1, <1>2

LEMMA NextCounting ==
    ASSUME TypeInv, TypeInv', ClaimedByOne, Counting, [Next]_vars
    PROVE  Counting'
<1> USE DEF table, pollers
<1>1. \A x \in Rows : attempts[x] \in Nat /\ attempts[x] >= attempts[x]
  BY DEF TypeInv, TypeOK
<1>2. ASSUME NEW t \in Transactions, Begin(t) PROVE Counting'
  BY <1>1, <1>2, QuietCounting DEF Begin, Tried
<1>3. ASSUME NEW t \in Transactions, NEW B \in SUBSET Rows,
             CommitTransaction(t, B)
      PROVE  Counting'
  <2>1. \A y \in Rows : /\ status'[y] = "published" => status[y] = "published"
                        /\ status'[y] \in {"none", "pending"} =>
                             status[y] \in {"none", "pending"}
    BY <1>3 DEF CommitTransaction, SetStatus, TypeInv, TypeOK
  <2> QED
    BY <1>1, <1>3, <2>1, QuietCounting DEF CommitTransaction, Tried
<1>4. ASSUME NEW p \in Pollers, claimPendingBatch(p) \/ ClaimUnanswered(p)
      PROVE  Counting'
  <2>1. PICK B \in Claimable :
          /\ status' = SetStatus(B, "processing")
          /\ batch' = batch \/ batch' = [batch EXCEPT ![p] = B]
    BY <1>4 DEF claimPendingBatch, ClaimUnanswered
  <2>2. UNCHANGED <<attempts, current, tries, topic>>
    BY <1>4 DEF claimPendingBatch, ClaimUnanswered
  <2>3. \A x \in B : x \in Rows /\ status[x] = "pending"
    BY DEF Claimable
  <2>4. \A y \in Rows : /\ status'[y] = "published" => status[y] = "published"
                        /\ status'[y] \in {"none", "pending"} =>
                             status[y] \in {"none", "pending"}
    BY <2>1 DEF SetStatus
  <2>5. \A q \in Pollers : \A x \in batch'[q] :
            x \in batch[q] \/ status[x] \in {"none", "pending"}
    BY <2>1, <2>3 DEF TypeInv, TypeOK
  <2> QED
    BY <1>1, <2>2, <2>4, <2>5, QuietCounting DEF Tried
<1>5. ASSUME NEW p \in Pollers, Sends(p) PROVE Counting'
  BY <1>5, SendCounting
<1>6. ASSUME NEW p \in Pollers, markPublished(p) \/ MarkFails(p)
      PROVE  Counting'
  <2>1. Sent(current[p]) /\ current[p] \in Rows
    BY <1>6, CurrentIsRow DEF markPublished, MarkFails, TypeInv, CycleShape
  <2>2. UNCHANGED <<attempts, topic>>
    BY <1>6 DEF markPublished, MarkFails
  <2>3. \A y \in Rows : \/ status'[y] = status[y]
                        \/ status'[y] = "published" /\ y = current[p]
    BY <1>6 DEF markPublished, MarkFails, TypeInv, TypeOK
  <2>4. \A q \in Pollers : \A x \in batch'[q] :
            x \in batch[q] /\ Tried(q, x)' = Tried(q, x)
    <3>1. CASE markPublished(p)
      BY <3>1, NextRowTried DEF markPublished
    <3>2. CASE MarkFails(p)
      BY <3>2 DEF MarkFails, Tried
    <3> QED
      BY <1>6, <3>1, <3>2
  <2> QED
    BY <1>1, <2>1, <2>2, <2>3, <2>4, QuietCounting
<1>7. ASSUME NEW p \in Pollers, resetToRetryable(p) PROVE Counting'
  <2>1. current[p] \in Rows /\ ResetRow(current[p]) /\ topic' = topic
    BY <1>7, CurrentIsRow DEF resetToRetryable
  <2>2. /\ status'[current[p]] = "pending"
        /\ attempts'[current[p]] = attempts[current[p]] + 1
        /\ \A y \in Rows : attempts'[y] >= attempts[y]
        /\ \A y \in Rows \ {current[p]} : status'[y] = status[y]
    BY <2>1, ResetCounts DEF TypeInv
  <2>3. \A q \in Pollers : \A x \in batch'[q] :
            x \in batch[q] /\ Tried(q, x)' = Tried(q, x)
    BY <1>7, NextRowTried DEF resetToRetryable
  <2> QED
    BY <2>1, <2>2, <2>3, QuietCounting
<1>8. ASSUME NEW p \in Pollers, ResetFails(p) \/ Crash(p) PROVE Counting'
  <2>1. Abandon(p) /\ topic' = topic
    BY <1>8 DEF ResetFails, Crash
  <2>2. \A q \in Pollers : \A x \in batch'[q] :
            x \in batch[q] /\ Tried(q, x)' = Tried(q, x)
    BY <2>1 DEF Abandon, Tried, TypeInv, TypeOK
  <2>3. CASE UNCHANGED <<status, attempts>>
    BY <1>1, <2>1, <2>2, <2>3, QuietCounting
  <2>4. CASE ResetFails(p) /\ ResetRow(current[p])
    <3>1. current[p] \in Rows
      BY <2>4, CurrentIsRow DEF ResetFails
    <3>2. /\ status'[current[p]] = "pending"
          /\ attempts'[current[p]] = attempts[current[p]] + 1
          /\ \A y \in Rows : attempts'[y] >= attempts[y]
          /\ \A y \in Rows \ {current[p]} : status'[y] = status[y]
      BY <2>4, <3>1, ResetCounts DEF TypeInv
    <3> QED
      BY <2>1, <2>2, <3>1, <3>2, QuietCounting
  <2> QED
    BY <1>8, <2>3, <2>4 DEF ResetFails, Crash
<1>9. CASE UNCHANGED vars
  BY <1>1, <1>9, QuietCounting DEF vars, Tried
<1> QED
  BY <1>2, <1>3, <1>4, <1>5, <1>6, <1>7, <1>8, <1>9
     DEF Next, PollerStep, RunCycle, Sends

(***************************************************************************)
(* A poller touches only rows that were committed, and leaves them so.     *)
(***************************************************************************)
LEMMA PollerKeepsCommitted ==
    ASSUME TypeInv, ClaimedByOne, NEW p \in Pollers, PollerStep(p)
    PROVE  /\ \A x \in Rows : status'[x] = "none" <=> status[x] = "none"
           /\ \/ topic' = topic
              \/ \E x \in batch[p] : topic' = Append(topic, x)
           /\ UNCHANGED <<createdAt, committedAt>>
<1> USE DEF table, pollers
<1>1. CASE claimPendingBatch(p) \/ ClaimUnanswered(p)
  <2>1. PICK B \in Claimable : status' = SetStatus(B, "processing")
    BY <1>1 DEF claimPendingBatch, ClaimUnanswered
  <2>2. \A x \in B : status[x] = "pending"
    BY DEF Claimable
  <2>3. \A x \in Rows : status'[x] = "none" <=> status[x] = "none"
    BY <2>1, <2>2 DEF SetStatus
  <2> QED
    BY <1>1, <2>3 DEF claimPendingBatch, ClaimUnanswered
<1>2. CASE Sends(p)
  BY <1>2, SendsShape
<1>3. CASE markPublished(p) \/ MarkFails(p) \/ resetToRetryable(p) \/ ResetFails(p)
  <2>1. current[p] \in batch[p] /\ current[p] \in Rows
    BY <1>3, CurrentIsRow DEF markPublished, MarkFails, resetToRetryable,
                              ResetFails
  <2>2. status[current[p]] # "none"
    BY <2>1 DEF ClaimedByOne
  <2>3. \E s \in {"pending", "published", status[current[p]]} :
            status' = [status EXCEPT ![current[p]] = s]
    BY <1>3, <2>1 DEF markPublished, MarkFails, resetToRetryable, ResetFails,
                      ResetRow, TypeInv, TypeOK
  <2>4. \A x \in Rows : status'[x] = "none" <=> status[x] = "none"
    BY <2>1, <2>2, <2>3 DEF TypeInv, TypeOK
  <2> QED
    BY <1>3, <2>4 DEF markPublished, MarkFails, resetToRetryable, ResetFails
<1>4. CASE Crash(p)
  BY <1>4 DEF Crash
<1> QED
  BY <1>1, <1>2, <1>3, <1>4 DEF PollerStep, RunCycle, Sends

LEMMA NextSentIsCommitted ==
    ASSUME TypeInv, ClaimedByOne, SentIsCommitted, [Next]_vars
    PROVE  SentIsCommitted'
<1>1. ASSUME topic' = topic,
             \A x \in Rows : status'[x] = "none" => status[x] = "none"
      PROVE  SentIsCommitted'
  BY <1>1, SameTopic DEF SentIsCommitted
<1>2. ASSUME NEW t \in Transactions, Begin(t) PROVE SentIsCommitted'
  BY <1>1, <1>2 DEF Begin
<1>3. ASSUME NEW t \in Transactions, NEW B \in SUBSET Rows,
             CommitTransaction(t, B)
      PROVE  SentIsCommitted'
  <2>1. \A x \in Rows : status'[x] = "none" => status[x] = "none"
    BY <1>3 DEF CommitTransaction, SetStatus
  <2> QED
    BY <1>1, <1>3, <2>1 DEF CommitTransaction
<1>4. ASSUME NEW p \in Pollers, PollerStep(p) PROVE SentIsCommitted'
  <2>1. /\ \A x \in Rows : status'[x] = "none" <=> status[x] = "none"
        /\ \/ topic' = topic
           \/ \E x \in batch[p] : topic' = Append(topic, x)
    BY <1>4, PollerKeepsCommitted
  <2>2. ASSUME NEW x \in batch[p], topic' = Append(topic, x)
        PROVE  SentIsCommitted'
    <3>1. x \in Rows /\ topic \in Seq(Rows) /\ status[x] # "none"
      BY DEF ClaimedByOne, TypeInv, TypeOK
    <3>2. \A y \in Rows : Sent(y)' => Sent(y) \/ y = x
      BY <2>2, <3>1, CopiesAppend
    <3> QED
      BY <2>1, <3>1, <3>2 DEF SentIsCommitted
  <2> QED
    BY <1>1, <2>1, <2>2
<1>5. CASE UNCHANGED vars
  BY <1>1, <1>5 DEF vars
<1> QED
  BY <1>2, <1>3, <1>4, <1>5 DEF Next

-----------------------------------------------------------------------------
(***************************************************************************)
(* Only the current row of a poller may be published while it is held.     *)
(***************************************************************************)
LEMMA NextHeldIsProcessing ==
    ASSUME TypeInv, ClaimedByOne, HeldIsProcessing, [Next]_vars
    PROVE  HeldIsProcessing'
<1> USE DEF table, pollers
<1>1. ASSUME NEW t \in Transactions, Begin(t) PROVE HeldIsProcessing'
  BY <1>1 DEF Begin, HeldIsProcessing
<1>2. ASSUME NEW t \in Transactions, NEW B \in SUBSET Rows,
             CommitTransaction(t, B)
      PROVE  HeldIsProcessing'
  <2>1. \A q \in Pollers : \A x \in batch[q] :
            x \in Rows /\ status[x] # "none"
    BY DEF ClaimedByOne, TypeInv, TypeOK
  <2>2. \A x \in Rows : status[x] # "none" => status'[x] = status[x]
    BY <1>2 DEF CommitTransaction, SetStatus
  <2> QED
    BY <1>2, <2>1, <2>2 DEF CommitTransaction, HeldIsProcessing
<1>3. ASSUME NEW p \in Pollers, claimPendingBatch(p) \/ ClaimUnanswered(p)
      PROVE  HeldIsProcessing'
  <2>1. PICK B \in Claimable :
          /\ status' = SetStatus(B, "processing")
          /\ batch' = batch \/ batch' = [batch EXCEPT ![p] = B]
    BY <1>3 DEF claimPendingBatch, ClaimUnanswered
  <2>2. /\ B \subseteq Rows /\ pc[p] = "idle" /\ current' = current
        /\ \A q \in Pollers \ {p} : pc'[q] = pc[q]
        /\ pc'[p] # "resetting"
    BY <1>3 DEF claimPendingBatch, ClaimUnanswered, Claimable, TypeInv, TypeOK
  <2>3. \A x \in Rows : \/ status'[x] = status[x] /\ x \notin B
                        \/ status'[x] = "processing"
    BY <2>1 DEF SetStatus
  <2>4. \A q \in Pollers : \A x \in batch'[q] :
            /\ x \in Rows
            /\ x \in batch[q] \/ x \in B
    BY <2>1, <2>2 DEF TypeInv, TypeOK
  <2>5. \A x \in B : status'[x] = "processing"
    BY <2>1, <2>2 DEF SetStatus
  <2> QED
    BY <2>2, <2>3, <2>4, <2>5 DEF HeldIsProcessing
<1>4. ASSUME NEW p \in Pollers, Sends(p) PROVE HeldIsProcessing'
  <2>1. PICK x \in batch[p] : TrySend(p, x)
    BY <1>4, SendsShape
  <2>2a. PICK l : pc' = [pc EXCEPT ![p] = l]
    BY <1>4, SendsShape
  <2>2b. UNCHANGED <<status, batch>>
    BY <1>4, SendsShape
  <2>2c. pc[p] = "publishing" /\ current' = [current EXCEPT ![p] = x]
    BY <2>1, TryShape
  <2>2. /\ UNCHANGED <<status, batch>>
        /\ pc[p] = "publishing"
        /\ \A q \in Pollers \ {p} : pc'[q] = pc[q] /\ current'[q] = current[q]
    BY <2>2a, <2>2b, <2>2c DEF TypeInv, TypeOK
  <2>3. \A y \in batch[p] : status[y] = "processing"
    BY <2>2 DEF HeldIsProcessing
  <2> QED
    BY <2>2, <2>3 DEF HeldIsProcessing
<1>5. ASSUME NEW p \in Pollers,
             markPublished(p) \/ MarkFails(p) \/ resetToRetryable(p)
               \/ ResetFails(p)
      PROVE  HeldIsProcessing'
  <2>1. current[p] \in batch[p] /\ current[p] \in Rows
    BY <1>5, CurrentIsRow DEF markPublished, MarkFails, resetToRetryable,
                              ResetFails
  <2>2. \A x \in Rows \ {current[p]} : status'[x] = status[x]
    BY <1>5 DEF markPublished, MarkFails, resetToRetryable, ResetFails,
                ResetRow, TypeInv, TypeOK
  <2>3. \A q \in Pollers \ {p} : /\ batch'[q] = batch[q] /\ pc'[q] = pc[q]
                                 /\ current'[q] = current[q]
                                 /\ current[p] \notin batch[q]
    BY <1>5, <2>1 DEF markPublished, MarkFails, resetToRetryable, ResetFails,
                NextRow, Abandon, ClaimedByOne, TypeInv, TypeOK
  <2>4. \A x \in batch'[p] : /\ x \in batch[p]
                             /\ x # current'[p] \/ pc'[p] # "resetting" =>
                                  x # current[p]
    <3>1. CASE MarkFails(p)
      BY <3>1 DEF MarkFails, TypeInv, TypeOK
    <3>2. CASE markPublished(p) \/ resetToRetryable(p) \/ ResetFails(p)
      BY <3>2 DEF markPublished, resetToRetryable, ResetFails, NextRow, Abandon,
                  TypeInv, TypeOK
    <3> QED
      BY <1>5, <3>1, <3>2
  <2>5. \A q \in Pollers : batch[q] \subseteq Rows
    BY DEF TypeInv, TypeOK
  <2> QED
    BY <2>2, <2>3, <2>4, <2>5 DEF HeldIsProcessing
<1>6. ASSUME NEW p \in Pollers, Crash(p) PROVE HeldIsProcessing'
  BY <1>6 DEF Crash, Abandon, HeldIsProcessing, TypeInv, TypeOK
<1>7. CASE UNCHANGED vars
  BY <1>7 DEF vars, HeldIsProcessing
<1> QED
  BY <1>1, <1>2, <1>3, <1>4, <1>5, <1>6, <1>7
     DEF Next, PollerStep, RunCycle, Sends

-----------------------------------------------------------------------------
(***************************************************************************)
(* What a failure may strand.                                              *)
(***************************************************************************)
\* The sets of rows are finite, and so counted.
LEMMA RowsCount ==
    ASSUME NEW S \in SUBSET Rows
    PROVE  IsFiniteSet(S) /\ Cardinality(S) \in Nat
BY RowAssumption, FS_Subset, FS_CardinalityType

\* A smaller set of rows has no more rows.
LEMMA FewerRows ==
    ASSUME NEW T \in SUBSET Rows, NEW S \in SUBSET T
    PROVE  Cardinality(S) <= Cardinality(T)
BY RowsCount, FS_Subset

\* A batch is what the claim took of it, or a part of what it was.
LEMMA NextBatch ==
    ASSUME TypeInv, NEW p \in Pollers, PollerStep(p), NEW q \in Pollers
    PROVE  \/ batch'[q] \subseteq batch[q]
           \/ batch'[q] \in Claimable
<1>1. CASE claimPendingBatch(p)
  BY <1>1 DEF claimPendingBatch, TypeInv, TypeOK
<1>2. CASE ClaimUnanswered(p) \/ MarkFails(p)
  BY <1>2 DEF ClaimUnanswered, MarkFails, pollers
<1>3. CASE Sends(p)
  BY <1>3, SendsShape
<1>4. CASE markPublished(p) \/ resetToRetryable(p) \/ ResetFails(p) \/ Crash(p)
  <2>1. batch' \in {[batch EXCEPT ![p] = batch[p] \ {current[p]}],
                    [batch EXCEPT ![p] = {}]}
    BY <1>4 DEF markPublished, resetToRetryable, ResetFails, Crash, NextRow,
                Abandon
  <2> QED
    BY <2>1 DEF TypeInv, TypeOK
<1> QED
  BY <1>1, <1>2, <1>3, <1>4 DEF PollerStep, RunCycle, Sends

LEMMA NextBatchIsBounded ==
    ASSUME TypeInv, BatchIsBounded, [Next]_vars
    PROVE  BatchIsBounded'
<1>1. ASSUME NEW p \in Pollers, PollerStep(p) PROVE BatchIsBounded'
  <2> SUFFICES ASSUME NEW q \in Pollers
               PROVE  Cardinality(batch'[q]) <= BatchSize
    BY DEF BatchIsBounded
  <2>1. CASE batch'[q] \in Claimable
    BY <2>1 DEF Claimable
  <2>2. CASE batch'[q] \subseteq batch[q]
    <3>1. batch[q] \in SUBSET Rows
      BY DEF TypeInv, TypeOK
    <3>2. Cardinality(batch'[q]) <= Cardinality(batch[q])
      BY <2>2, <3>1, FewerRows
    <3>3. /\ Cardinality(batch'[q]) \in Nat /\ Cardinality(batch[q]) \in Nat
          /\ Cardinality(batch[q]) <= BatchSize
      BY <2>2, <3>1, RowsCount DEF BatchIsBounded
    <3> QED
      BY <3>2, <3>3, BatchAssumption
  <2> QED
    BY <1>1, <2>1, <2>2, NextBatch
<1>2. CASE UNCHANGED batch
  BY <1>2 DEF BatchIsBounded
<1> QED
  BY <1>1, <1>2 DEF Next, vars, Begin, CommitTransaction, pollers

\* Rows that become stranded are those of one batch, and cost one failure.
LEMMA StrandedGrows ==
    ASSUME TypeOK, StrandedBounded, NEW B \in SUBSET Rows,
           Cardinality(B) <= BatchSize,
           Stranded' \subseteq Stranded \cup B,
           NEW kind \in Stranding, Fault(kind)
    PROVE  StrandedBounded'
<1>1. /\ Stranded \in SUBSET Rows
      /\ Stranded' \in SUBSET (Stranded \cup B)
  BY DEF Stranded
<1>2. /\ IsFiniteSet(Stranded) /\ IsFiniteSet(B)
      /\ Cardinality(Stranded) \in Nat /\ Cardinality(B) \in Nat
      /\ Cardinality(Stranded \cap B) \in Nat
      /\ Cardinality(Stranded \cup B) \in Nat
  BY <1>1, RowsCount
<1>3. Cardinality(Stranded \cup B)
        = Cardinality(Stranded) + Cardinality(B) - Cardinality(Stranded \cap B)
  BY <1>2, FS_Union
<1>4. Cardinality(Stranded') <= Cardinality(Stranded \cup B)
  BY <1>1, FewerRows
<1>5. Cardinality(Stranded') \in Nat
  BY <1>1, RowsCount
<1>6. /\ faults \in Nat /\ faults' = faults + 1
      /\ kind \in Faults
  BY FaultsAssumption DEF Fault, TypeOK
<1>7. BatchSize * faults' = BatchSize * faults + BatchSize
  BY <1>6, BatchAssumption
<1>8. BatchSize * faults \in Nat
  BY <1>6, BatchAssumption
<1>9. Cardinality(Stranded) <= BatchSize * faults
  BY DEF StrandedBounded
<1>10. Cardinality(Stranded') <= BatchSize * faults'
  BY <1>2, <1>3, <1>4, <1>5, <1>7, <1>8, <1>9, BatchAssumption
<1>11. Faults \cap Stranding # {}
  BY <1>6
<1> QED
  BY <1>10, <1>11 DEF StrandedBounded

\* Other steps strand nothing.
LEMMA StrandedKept ==
    ASSUME TypeOK, TypeOK', StrandedBounded, Stranded' \subseteq Stranded,
           faults' \in {faults, faults + 1}
    PROVE  StrandedBounded'
<1>1. /\ Stranded \in SUBSET Rows /\ Stranded' \in SUBSET Stranded
  BY DEF Stranded
<1>2. /\ Cardinality(Stranded') <= Cardinality(Stranded)
      /\ Cardinality(Stranded) \in Nat /\ Cardinality(Stranded') \in Nat
  BY <1>1, FewerRows, RowsCount
<1>3. /\ faults \in Nat
      /\ BatchSize * faults \in Nat
      /\ BatchSize * (faults + 1) = BatchSize * faults + BatchSize
  BY FaultsAssumption, BatchAssumption DEF TypeOK
<1>4. BatchSize * faults <= BatchSize * faults' /\ BatchSize * faults' \in Nat
  <2>1. CASE faults' = faults
    BY <1>3, <2>1
  <2>2. CASE faults' = faults + 1
    BY <1>3, <2>2, BatchAssumption
  <2> QED
    BY <2>1, <2>2
<1>6. Cardinality(Stranded) <= BatchSize * faults
  BY DEF StrandedBounded
<1>7. Cardinality(Stranded') <= BatchSize * faults'
  BY <1>2, <1>3, <1>4, <1>6
<1>8. Stranded = {} => Stranded' = {}
  OBVIOUS
<1> QED
  BY <1>7, <1>8 DEF StrandedBounded

LEMMA NextStrandedBounded ==
    ASSUME TypeInv, TypeInv', BatchIsBounded, StrandedBounded, [Next]_vars
    PROVE  StrandedBounded'
<1> USE DEF table, pollers
<1>0. /\ TypeOK /\ TypeOK'
      /\ \A q \in Pollers : batch[q] \in SUBSET Rows
  BY DEF TypeInv, TypeOK
<1>1. ASSUME NEW t \in Transactions, Begin(t) PROVE StrandedBounded'
  <2>1. Stranded' = Stranded
    BY <1>1 DEF Begin, Stranded, HeldByNone
  <2> QED
    BY <1>0, <1>1, <2>1, StrandedKept DEF Begin
<1>2. ASSUME NEW t \in Transactions, NEW B \in SUBSET Rows,
             CommitTransaction(t, B)
      PROVE  StrandedBounded'
  <2>1. Stranded' \subseteq Stranded
    BY <1>2 DEF CommitTransaction, SetStatus, Stranded, HeldByNone
  <2> QED
    BY <1>0, <1>2, <2>1, StrandedKept DEF CommitTransaction
<1>3. ASSUME NEW p \in Pollers, claimPendingBatch(p) PROVE StrandedBounded'
  <2>1. PICK B \in Claimable :
          /\ status' = SetStatus(B, "processing")
          /\ batch' = [batch EXCEPT ![p] = B]
    BY <1>3 DEF claimPendingBatch
  <2>2. batch[p] = {} /\ faults' = faults
    BY <1>3 DEF claimPendingBatch, TypeInv, CycleShape
  <2>3. \A x \in Rows : HeldByNone(x)' => HeldByNone(x) /\ x \notin B
    BY <2>1, <2>2 DEF HeldByNone, TypeInv, TypeOK
  <2>4. \A x \in Rows : x \notin B => status'[x] = status[x]
    BY <2>1 DEF SetStatus
  <2>5. Stranded' \subseteq Stranded
    BY <2>3, <2>4 DEF Stranded
  <2> QED
    BY <1>0, <2>2, <2>5, StrandedKept
<1>4. ASSUME NEW p \in Pollers, ClaimUnanswered(p) PROVE StrandedBounded'
  <2>1. PICK B \in Claimable : status' = SetStatus(B, "processing")
    BY <1>4 DEF ClaimUnanswered
  <2>2. B \in SUBSET Rows /\ Cardinality(B) <= BatchSize
    BY DEF Claimable
  <2>3. Stranded' \subseteq Stranded \cup B
    BY <1>4, <2>1 DEF ClaimUnanswered, SetStatus, Stranded, HeldByNone
  <2> QED
    BY <1>0, <1>4, <2>2, <2>3, StrandedGrows DEF ClaimUnanswered, Stranding
<1>5. ASSUME NEW p \in Pollers, Sends(p) \/ MarkFails(p)
      PROVE  StrandedBounded'
  <2>1. /\ UNCHANGED batch /\ faults' \in {faults, faults + 1}
        /\ \A x \in Rows : status'[x] = "processing" => status[x] = "processing"
    <3>1. CASE Sends(p)
      BY <3>1, SendsShape DEF Sends, publish, AckLost, PublishFails, Fault
    <3>2. CASE MarkFails(p)
      BY <3>2 DEF MarkFails, Fault, TypeInv, TypeOK
    <3> QED
      BY <1>5, <3>1, <3>2
  <2>2. Stranded' \subseteq Stranded
    BY <2>1 DEF Stranded, HeldByNone
  <2> QED
    BY <1>0, <2>1, <2>2, StrandedKept
<1>6. ASSUME NEW p \in Pollers, markPublished(p) \/ resetToRetryable(p)
      PROVE  StrandedBounded'
  <2>1. /\ current[p] \in batch[p] /\ current[p] \in Rows
        /\ batch' = [batch EXCEPT ![p] = batch[p] \ {current[p]}]
        /\ faults' = faults
    BY <1>6, CurrentIsRow DEF markPublished, resetToRetryable, NextRow
  <2>2. \A x \in Rows : status'[x] = "processing" =>
                           x # current[p] /\ status[x] = "processing"
    BY <1>6, <2>1 DEF markPublished, resetToRetryable, ResetRow, TypeInv, TypeOK
  <2>3. \A x \in Rows \ {current[p]} : HeldByNone(x)' => HeldByNone(x)
    BY <2>1 DEF HeldByNone, TypeInv, TypeOK
  <2>4. Stranded' \subseteq Stranded
    BY <2>2, <2>3 DEF Stranded
  <2> QED
    BY <1>0, <2>1, <2>4, StrandedKept
<1>7. ASSUME NEW p \in Pollers, ResetFails(p) \/ Crash(p)
      PROVE  StrandedBounded'
  <2>1. /\ batch' = [batch EXCEPT ![p] = {}]
        /\ \A x \in Rows : status'[x] = "processing" => status[x] = "processing"
    BY <1>7 DEF ResetFails, Crash, Abandon, ResetRow, TypeInv, TypeOK
  <2>2. Stranded' \subseteq Stranded \cup batch[p]
    BY <2>1 DEF Stranded, HeldByNone, TypeInv, TypeOK
  <2>3. /\ batch[p] \in SUBSET Rows /\ Cardinality(batch[p]) <= BatchSize
    BY <1>0 DEF BatchIsBounded
  <2>4. PICK kind \in Stranding : Fault(kind)
    BY <1>7 DEF ResetFails, Crash, Stranding
  <2> QED
    BY <1>0, <2>2, <2>3, <2>4, StrandedGrows
<1>8. CASE UNCHANGED vars
  <2>1. Stranded' = Stranded
    BY <1>8 DEF vars, Stranded, HeldByNone
  <2> QED
    BY <1>0, <1>8, <2>1, StrandedKept DEF vars
<1> QED
  BY <1>1, <1>2, <1>3, <1>4, <1>5, <1>6, <1>7, <1>8
     DEF Next, PollerStep, RunCycle, Sends

LEMMA InitIInv == Init => IInv
<1> SUFFICES ASSUME Init PROVE IInv
    OBVIOUS
<1>1. TypeOK /\ CycleShape
  BY InitTypeInv DEF TypeInv
<1>2. ClaimedByOne /\ PublishedWasSent /\ CopiesOfHeld /\ HeldIsProcessing
  BY DEF Init, ClaimedByOne, PublishedWasSent, CopiesOfHeld, HeldIsProcessing
<1>3. DuplicatesAreAttempts
  <2> SUFFICES ASSUME NEW x \in Rows
               PROVE  /\ Copies(x) <= CopiesOf(attempts[x] + 1)
                      /\ Copies(x) <= CopiesOf(attempts[x])
    BY DEF DuplicatesAreAttempts
  <2>1. Copies(x) = 0 /\ attempts[x] = 0
    BY CopiesEmpty DEF Init
  <2>2. CopiesOf(0) \in Nat /\ CopiesOf(0 + 1) \in Nat
    BY CopiesOfMore
  <2> QED
    BY <2>1, <2>2
<1>3a. BatchIsBounded
  BY FS_EmptySet, BatchAssumption DEF Init, BatchIsBounded
<1>3b. StrandedBounded
  <2>1. Stranded = {} /\ faults = 0
    BY DEF Init, Stranded
  <2> QED
    BY <2>1, FS_EmptySet, BatchAssumption DEF StrandedBounded
<1>4. SentIsCommitted
  BY DEF Init, SentIsCommitted, Sent
<1> QED
  BY <1>1, <1>2, <1>3, <1>3a, <1>3b, <1>4 DEF IInv

LEMMA NextIInv == IInv /\ [Next]_vars => IInv'
<1> SUFFICES ASSUME IInv, [Next]_vars PROVE IInv'
    OBVIOUS
<1>1. TypeInv /\ ClaimedByOne /\ Counting
  BY DEF IInv, TypeInv, Counting
<1>2. TypeInv'
  BY <1>1, NextTypeInv
<1>3. ClaimedByOne'
  BY <1>1, NextClaimedByOne
<1>4. Counting'
  BY <1>1, <1>2, NextCounting
<1>5. SentIsCommitted'
  BY <1>1, NextSentIsCommitted DEF IInv
<1>6. HeldIsProcessing'
  BY <1>1, NextHeldIsProcessing DEF IInv
<1>7. BatchIsBounded'
  BY <1>1, NextBatchIsBounded DEF IInv
<1>8. StrandedBounded'
  BY <1>1, <1>2, NextStrandedBounded DEF IInv
<1> QED
  BY <1>2, <1>3, <1>4, <1>5, <1>6, <1>7, <1>8 DEF IInv, TypeInv, Counting

(***************************************************************************)
(* Cycles, statuses and the topic always agree.                            *)
(***************************************************************************)
THEOREM Invariance == Spec => []IInv
BY InitIInv, NextIInv, PTL DEF Spec

(***************************************************************************)
(* No two instances ever hold the same outbox row.                         *)
(***************************************************************************)
THEOREM ExclusiveClaim == Spec => []ClaimedByOne
<1>1. IInv => ClaimedByOne
  BY DEF IInv
<1> QED
  BY <1>1, Invariance, PTL

(***************************************************************************)
(* `published` is never a false claim about Kafka.                         *)
(***************************************************************************)
THEOREM PublishedIsTrue == Spec => []PublishedWasSent
<1>1. IInv => PublishedWasSent
  BY DEF IInv
<1> QED
  BY <1>1, Invariance, PTL

(***************************************************************************)
(* The copies in the topic are no more than the counted sends, and the one *)
(* that is not counted yet, may have tried.                                *)
(***************************************************************************)
THEOREM DuplicatesBounded == Spec => []DuplicatesAreAttempts
<1>1. IInv => DuplicatesAreAttempts
  BY DEF IInv
<1> QED
  BY <1>1, Invariance, PTL

(***************************************************************************)
(* Each failure strands one batch at most, and only an unheard claim, a    *)
(* failed reset or the death of a process strands any row.                 *)
(***************************************************************************)
THEOREM StrandingBounded == Spec => []StrandedBounded
<1>1. IInv => StrandedBounded
  BY DEF IInv
<1> QED
  BY <1>1, Invariance, PTL

-----------------------------------------------------------------------------
(***************************************************************************)
(* The pollers implement OutboxRelay.                                      *)
(***************************************************************************)
Visible == {x \in Rows : status[x] # "none"}
Closed  == {x \in Rows : status[x] = "published" /\ HeldByNone(x)}

\* A row that was sent has a copy in the topic.
LEMMA SentHasCopies ==
    ASSUME topic \in Seq(Rows), NEW x, Sent(x)
    PROVE  Copies(x) > 0
<1> DEFINE S == {i \in DOMAIN topic : topic[i] = x}
<1>1. IsFiniteSet(S) /\ Cardinality(S) \in Nat
  BY CopiesType DEF Copies
<1>2. S # {}
  BY DEF Sent
<1>3. Cardinality(S) # 0
  BY <1>1, <1>2, FS_EmptySet
<1> QED
  BY <1>1, <1>3 DEF Copies

\* The rows of a batch are open: committed, and not closed.
LEMMA HeldIsOpen ==
    ASSUME TypeInv, ClaimedByOne, NEW p \in Pollers, NEW x \in batch[p]
    PROVE  x \in Visible \ Closed
BY DEF ClaimedByOne, HeldByNone, Visible, Closed, TypeInv, TypeOK

\* A step that sends nothing leaves the copies alone.
LEMMA SameCopies ==
    ASSUME topic' = topic
    PROVE  [x \in Rows |-> Copies(x)]' = [x \in Rows |-> Copies(x)]
BY SameTopic

LEMMA RelayInit == Init => Relay!Init
<1> SUFFICES ASSUME Init PROVE Relay!Init
    OBVIOUS
<1>1. [x \in Rows |-> Copies(x)] = [x \in Rows |-> 0]
  BY CopiesEmpty DEF Init
<1> QED
  BY <1>1 DEF Init, Relay!Init

\* Claims, and marks that are not heard, are no steps of the relay.
LEMMA RelayStutters ==
    ASSUME Visible' = Visible, Closed' = Closed, UNCHANGED <<attempts, topic>>
    PROVE  UNCHANGED Relay!vars
BY SameCopies DEF Relay!vars, Visible, Closed

LEMMA RelaySends ==
    ASSUME IInv, NEW p \in Pollers, Sends(p)
    PROVE  [Relay!Next]_(Relay!vars)
<1>1. TypeInv /\ ClaimedByOne /\ CopiesOfHeld
  BY DEF IInv, TypeInv
<1>2. PICK x \in batch[p] :
        TrySend(p, x) /\ topic' \in {topic, Append(topic, x)}
  BY <1>1, SendsShape
<1>3. /\ tries[p] < SendTries /\ UNCHANGED <<status, attempts, batch>>
      /\ x \in Rows /\ topic \in Seq(Rows)
  BY <1>1, <1>2, SendsShape, TryShape DEF TypeInv, TypeOK
<1>4. Visible' = Visible /\ Closed' = Closed
  BY <1>3 DEF Visible, Closed, HeldByNone
<1>5. CASE topic' = topic
  BY <1>3, <1>4, <1>5, RelayStutters
<1>6. CASE topic' = Append(topic, x)
  <2>1. \A y \in Rows :
          Copies(y)' = IF y = x THEN Copies(y) + 1 ELSE Copies(y)
    BY <1>3, <1>6, CopiesAppend
  <2>2. [y \in Rows |-> Copies(y)]'
          = [[y \in Rows |-> Copies(y)] EXCEPT ![x] = @ + 1]
    BY <1>3, <2>1
  <2>3. x \in Visible \ Closed
    BY <1>1, HeldIsOpen
  <2>4. Copies(x) < SendTries * (attempts[x] + 1)
    <3>1. Copies(x) <= CopiesOf(attempts[x]) + Tried(p, x)
      BY <1>1 DEF CopiesOfHeld
    <3>2. /\ Tried(p, x) \in Nat /\ Tried(p, x) < SendTries
          /\ attempts[x] \in Nat
      BY <1>1, <1>3, SendAssumption DEF Tried, TypeInv, TypeOK
    <3>3. /\ CopiesOf(attempts[x]) \in Nat
          /\ CopiesOf(attempts[x] + 1) = CopiesOf(attempts[x]) + SendTries
      BY <3>2, CopiesOfMore
    <3>4. Copies(x) \in Nat
      BY <1>3, CopiesType
    <3>5. Copies(x) < CopiesOf(attempts[x] + 1)
      BY <3>1, <3>2, <3>3, <3>4, SendAssumption
    <3> QED
      BY <3>5 DEF CopiesOf
  <2>5. [y \in Rows |-> Copies(y)][x] < SendTries * (attempts[x] + 1)
    BY <1>3, <2>4
  <2>6. Relay!Send(x)
    BY <1>3, <1>4, <2>2, <2>3, <2>5
       DEF Relay!Send, Relay!Open, Visible, Closed
  <2> QED
    BY <1>3, <2>6 DEF Relay!Next
<1> QED
  BY <1>2, <1>5, <1>6

\* What a poller lets go of besides its current row was not published.
LEMMA LetGo ==
    ASSUME IInv, NEW p \in Pollers,
           \/ NextRow(p) /\ pc[p] \in {"marking", "resetting"}
           \/ Abandon(p)
    PROVE  /\ \A q \in Pollers : batch'[q] \subseteq batch[q]
           /\ \A q \in Pollers \ {p} : batch'[q] = batch[q]
           /\ current[p] \notin batch'[p]
           /\ \A x \in Rows \ {current[p]} :
                status[x] = "published" => (HeldByNone(x)' <=> HeldByNone(x))
<1>1. /\ batch' \in {[batch EXCEPT ![p] = batch[p] \ {current[p]}],
                     [batch EXCEPT ![p] = {}]}
      /\ batch \in [Pollers -> SUBSET Rows]
  BY DEF NextRow, Abandon, IInv, TypeOK
<1>2. /\ \A q \in Pollers : batch'[q] \subseteq batch[q]
      /\ \A q \in Pollers \ {p} : batch'[q] = batch[q]
      /\ current[p] \notin batch'[p]
  BY <1>1
<1>3. ASSUME NEW x \in Rows \ {current[p]}, status[x] = "published"
      PROVE  x \notin batch[p]
  BY <1>3 DEF IInv, HeldIsProcessing
<1> QED
  BY <1>2, <1>3 DEF HeldByNone

LEMMA RelayRetries ==
    ASSUME IInv, NEW p \in Pollers,
           pc[p] = "resetting" /\ ResetRow(current[p]) /\ topic' = topic,
           NextRow(p) \/ Abandon(p)
    PROVE  Relay!Next
<1> DEFINE x == current[p]
<1>1. TypeInv /\ ClaimedByOne
  BY DEF IInv, TypeInv
<1>2. x \in batch[p] /\ x \in Rows /\ attempts \in [Rows -> Nat]
  BY <1>1, CurrentIsRow DEF TypeInv, TypeOK
<1>3. x \in Visible \ Closed
  BY <1>1, <1>2, HeldIsOpen
<1>4. /\ status'[x] = "pending"
      /\ \A y \in Rows \ {x} : status'[y] = status[y]
  BY <1>1, <1>2, ResetCounts DEF TypeInv
<1>5. Visible' = Visible
  BY <1>2, <1>3, <1>4 DEF Visible
<1>6. \A y \in Rows \ {x} :
         status[y] = "published" => (HeldByNone(y)' <=> HeldByNone(y))
  BY LetGo
<1>7. Closed' = Closed
  BY <1>2, <1>3, <1>4, <1>6 DEF Closed
<1>8. attempts' = [attempts EXCEPT ![x] = @ + 1]
  BY DEF ResetRow
<1>9. Relay!Retry(x)
  BY <1>3, <1>5, <1>7, <1>8, SameCopies
     DEF Relay!Retry, Relay!Open, Visible, Closed
<1> QED
  BY <1>2, <1>9 DEF Relay!Next

\* When a poller lets go of a published current row, that row is closed.
LEMMA RelayCloses ==
    ASSUME IInv, NEW p \in Pollers, pc[p] \in {"marking", "resetting"},
           NextRow(p) \/ Abandon(p), UNCHANGED <<attempts, topic>>,
           Sent(current[p]),
           status' = [status EXCEPT ![current[p]] = "published"]
    PROVE  Relay!Next
<1>1. TypeInv /\ ClaimedByOne
  BY DEF IInv, TypeInv
<1>2. PICK x \in Rows : x = current[p] /\ x \in batch[p]
  BY <1>1, CurrentIsRow
<1>2a. topic \in Seq(Rows) /\ status \in [Rows -> Status]
  BY <1>1 DEF TypeInv, TypeOK
<1>3. x \in Visible \ Closed
  BY <1>1, <1>2, HeldIsOpen
<1>4. /\ status'[x] = "published"
      /\ \A y \in Rows \ {x} : status'[y] = status[y]
  BY <1>2a, <1>2
<1>5. Visible' = Visible
  BY <1>2, <1>3, <1>4 DEF Visible
<1>6. /\ \A q \in Pollers \ {p} : batch'[q] = batch[q]
      /\ x \notin batch'[p]
      /\ \A y \in Rows \ {x} :
           status[y] = "published" => (HeldByNone(y)' <=> HeldByNone(y))
  BY <1>2, LetGo
<1>7. HeldByNone(x)'
  BY <1>1, <1>2, <1>6 DEF HeldByNone, ClaimedByOne
<1>8. Closed' = Closed \cup {x}
  BY <1>2, <1>4, <1>6, <1>7 DEF Closed
<1>9. Copies(x) > 0
  BY <1>2a, <1>2, SentHasCopies
<1>10. [y \in Rows |-> Copies(y)][x] > 0
  BY <1>2, <1>9
<1>11. Relay!Close(x)
  BY <1>3, <1>5, <1>8, <1>10, SameCopies
     DEF Relay!Close, Relay!Open, Visible, Closed
<1> QED
  BY <1>2, <1>11 DEF Relay!Next

\* A cycle that ends with no reset closes its current row, or does nothing.
LEMMA RelayAbandoned ==
    ASSUME IInv, NEW p \in Pollers, Abandon(p),
           UNCHANGED <<status, attempts, topic>>
    PROVE  [Relay!Next]_(Relay!vars)
<1>1. TypeInv
  BY DEF IInv, TypeInv
<1>2. CASE current[p] \in batch[p] /\ status[current[p]] = "published"
  <2>1. current[p] \in Rows /\ status \in [Rows -> Status]
    BY <1>1, <1>2 DEF TypeInv, TypeOK
  <2>2. pc[p] \in {"marking", "resetting"}
    BY <1>1, <1>2, <2>1 DEF IInv, HeldIsProcessing, TypeInv, TypeOK
  <2>3. Sent(current[p])
    BY <1>2, <2>1 DEF IInv, PublishedWasSent
  <2>4. status' = [status EXCEPT ![current[p]] = "published"]
    BY <1>2, <2>1
  <2> QED
    BY <2>2, <2>3, <2>4, RelayCloses
<1>3. CASE ~(current[p] \in batch[p] /\ status[current[p]] = "published")
  <2>1. /\ \A q \in Pollers \ {p} : batch'[q] = batch[q]
        /\ \A q \in Pollers : batch'[q] \subseteq batch[q]
        /\ \A x \in Rows \ {current[p]} :
             status[x] = "published" => (HeldByNone(x)' <=> HeldByNone(x))
    BY LetGo
  <2>2. ASSUME NEW x \in Rows, x = current[p], status[x] = "published"
        PROVE  HeldByNone(x)' <=> HeldByNone(x)
    BY <1>3, <2>1, <2>2 DEF HeldByNone
  <2>3. Closed' = Closed /\ Visible' = Visible
    BY <2>1, <2>2 DEF Closed, Visible
  <2> QED
    BY <2>3, RelayStutters
<1> QED
  BY <1>2, <1>3

LEMMA RelayStep == IInv /\ [Next]_vars => [Relay!Next]_(Relay!vars)
<1> SUFFICES ASSUME IInv, [Next]_vars PROVE [Relay!Next]_(Relay!vars)
    OBVIOUS
<1> USE DEF table, pollers
<1>0. TypeInv /\ ClaimedByOne
  BY DEF IInv, TypeInv
<1>1. ASSUME NEW t \in Transactions, Begin(t) PROVE UNCHANGED Relay!vars
  <2>1. Visible' = Visible /\ Closed' = Closed
    BY <1>1 DEF Begin, Visible, Closed, HeldByNone
  <2> QED
    BY <1>1, <2>1, RelayStutters DEF Begin
<1>2. ASSUME NEW t \in Transactions, NEW B \in SUBSET Rows,
             CommitTransaction(t, B)
      PROVE  Relay!Next
  <2>1. \A x \in Rows : status'[x] = IF x \in B THEN "pending" ELSE status[x]
    BY <1>2 DEF CommitTransaction, SetStatus
  <2>2. \A x \in B : status[x] = "none"
    BY <1>2 DEF CommitTransaction
  <2>3. Visible' = Visible \cup B /\ B \cap Visible = {}
    BY <2>1, <2>2 DEF Visible
  <2>4. Closed' = Closed
    BY <1>2, <2>1, <2>2 DEF CommitTransaction, Closed, HeldByNone
  <2>5. Relay!Commit(B)
    BY <1>2, <2>3, <2>4, SameCopies
       DEF CommitTransaction, Relay!Commit, Visible, Closed
  <2> QED
    BY <2>5 DEF Relay!Next
<1>3. ASSUME NEW p \in Pollers, claimPendingBatch(p) \/ ClaimUnanswered(p)
      PROVE  UNCHANGED Relay!vars
  <2>1. PICK B \in Claimable :
          /\ status' = SetStatus(B, "processing")
          /\ batch' = batch \/ batch' = [batch EXCEPT ![p] = B]
    BY <1>3 DEF claimPendingBatch, ClaimUnanswered
  <2>2. \A x \in B : x \in Rows /\ status[x] = "pending"
    BY DEF Claimable
  <2>3. \A x \in Rows :
          status'[x] = IF x \in B THEN "processing" ELSE status[x]
    BY <2>1 DEF SetStatus
  <2>4. Visible' = Visible
    BY <2>2, <2>3 DEF Visible
  <2>5. batch' = batch \/ batch[p] = {}
    BY <1>0, <1>3 DEF claimPendingBatch, ClaimUnanswered, TypeInv, CycleShape
  <2>6. \A q \in Pollers : \A x \in Rows \ B :
           x \in batch'[q] <=> x \in batch[q]
    BY <1>0, <2>1, <2>5 DEF TypeInv, TypeOK
  <2>7. Closed' = Closed
    BY <2>2, <2>3, <2>6 DEF Closed, HeldByNone
  <2> QED
    BY <1>3, <2>4, <2>7, RelayStutters DEF claimPendingBatch, ClaimUnanswered
<1>4. ASSUME NEW p \in Pollers, Sends(p) PROVE [Relay!Next]_(Relay!vars)
  BY <1>4, RelaySends
<1>5. ASSUME NEW p \in Pollers, markPublished(p) PROVE Relay!Next
  <2>1. Sent(current[p])
    BY <1>0, <1>5 DEF markPublished, TypeInv, CycleShape
  <2> QED
    BY <1>5, <2>1, RelayCloses DEF markPublished
<1>6. ASSUME NEW p \in Pollers, MarkFails(p) PROVE UNCHANGED Relay!vars
  <2>1. current[p] \in batch[p] /\ current[p] \in Visible \ Closed
    BY <1>0, <1>6, CurrentIsRow, HeldIsOpen DEF MarkFails
  <2>2. \A x \in Rows \ {current[p]} : status'[x] = status[x]
    BY <1>0, <1>6 DEF MarkFails, TypeInv, TypeOK
  <2>3. status'[current[p]] # "none"
    BY <1>0, <1>6, <2>1 DEF MarkFails, Visible, TypeInv, TypeOK
  <2>4. Visible' = Visible
    BY <2>1, <2>2, <2>3 DEF Visible
  <2>5. Closed' = Closed
    BY <1>6, <2>1, <2>2 DEF MarkFails, Closed, HeldByNone
  <2> QED
    BY <1>6, <2>4, <2>5, RelayStutters DEF MarkFails
<1>7. ASSUME NEW p \in Pollers, resetToRetryable(p) PROVE Relay!Next
  BY <1>7, RelayRetries DEF resetToRetryable
<1>8. ASSUME NEW p \in Pollers, ResetFails(p)
      PROVE  [Relay!Next]_(Relay!vars)
  BY <1>8, RelayRetries, RelayAbandoned DEF ResetFails
<1>9. ASSUME NEW p \in Pollers, Crash(p) PROVE [Relay!Next]_(Relay!vars)
  BY <1>9, RelayAbandoned DEF Crash
<1>10. CASE UNCHANGED vars
  <2>1. Visible' = Visible /\ Closed' = Closed
    BY <1>10 DEF vars, Visible, Closed, HeldByNone
  <2> QED
    BY <1>10, <2>1, RelayStutters DEF vars
<1> QED
  BY <1>1, <1>2, <1>3, <1>4, <1>5, <1>6, <1>7, <1>8, <1>9, <1>10
     DEF Next, PollerStep, RunCycle, Sends

(***************************************************************************)
(* Any number of pollers with any failures relay the rows as one reliable  *)
(* relay does: no copy is sent beyond those that the first send and the    *)
(* counted retries may try, and a row that is published and let go of is   *)
(* never touched again.                                                    *)
(***************************************************************************)
THEOREM Refinement == Spec => RelaysRows
<1>1. Init => Relay!Init
  BY RelayInit
<1>2. IInv /\ [Next]_vars => [Relay!Next]_(Relay!vars)
  BY RelayStep
<1> QED
  BY <1>1, <1>2, Invariance, PTL DEF Spec, RelaysRows, Relay!Spec

-----------------------------------------------------------------------------
(***************************************************************************)
(* The places in the order of the BEGINs, and in that of the commits.      *)
(***************************************************************************)
LEMMA NextPlace ==
    ASSUME NEW f \in [Transactions -> Nat], Places(f),
           NEW t \in Transactions, f[t] = 0,
           NEW g, g = [f EXCEPT ![t] = Numbered(f) + 1]
    PROVE  /\ Places(g)
           /\ g[t] # 0
           /\ \A u \in Transactions \ {t} : g[u] = f[u] /\ g[u] < g[t]
<1> DEFINE S == {u \in Transactions : f[u] # 0}
<1>1. Numbered(f) \in Nat
  BY NumberedType
<1>2. {u \in Transactions : g[u] # 0} = S \cup {t}
  BY <1>1
<1>3. IsFiniteSet(S) /\ t \notin S
  <2>1. IsFiniteSet(S)
    BY RowAssumption, FS_Subset
  <2> QED
    BY <2>1
<1>4. Cardinality(S \cup {t}) = Cardinality(S) + 1
  BY <1>3, FS_AddElement
<1>5. Numbered(g) = Numbered(f) + 1
  BY <1>2, <1>4 DEF Numbered
<1>6. /\ g[t] = Numbered(f) + 1
      /\ \A u \in Transactions \ {t} : g[u] = f[u] /\ g[u] <= Numbered(f)
  BY DEF Places
<1>7. \A u \in Transactions : g[u] <= Numbered(g)
  BY <1>1, <1>5, <1>6
<1>8. \A u \in Transactions \ {t} : g[u] < g[t]
  BY <1>1, <1>6
<1>9. \A u, v \in Transactions : u # v /\ g[u] = g[v] => g[u] = 0
  BY <1>6, <1>8 DEF Places
<1>10. Places(g)
  BY <1>7, <1>9 DEF Places
<1>11. g[t] # 0
  BY <1>1, <1>6
<1> QED
  BY <1>6, <1>8, <1>10, <1>11

\* Both orders, and what they say of the rows, hold after every step.
Stamps == Places(createdAt) /\ Places(committedAt) /\ VisibleIsCommitted

LEMMA InitStamps == Init => Stamps
<1> SUFFICES ASSUME Init PROVE Stamps
    OBVIOUS
<1>1. Places([t \in Transactions |-> 0])
  BY NumberedType DEF Places
<1> QED
  BY <1>1 DEF Init, Stamps, VisibleIsCommitted

LEMMA NextStamps ==
    ASSUME IInv, Stamps, [Next]_vars
    PROVE  /\ Stamps'
           /\ \A t \in Transactions :
                /\ createdAt[t] # 0 => createdAt'[t] = createdAt[t]
                /\ committedAt[t] # 0 => committedAt'[t] = committedAt[t]
<1> USE DEF IInv, TypeOK
<1>1. ASSUME UNCHANGED <<createdAt, committedAt>>,
             \A x \in Rows : status'[x] = "none" <=> status[x] = "none"
      PROVE  Stamps'
  BY <1>1 DEF Stamps, VisibleIsCommitted, Places, Numbered
<1>2. ASSUME NEW t \in Transactions, Begin(t)
      PROVE  /\ Stamps'
             /\ committedAt' = committedAt
             /\ \A u \in Transactions :
                  createdAt[u] # 0 => createdAt'[u] = createdAt[u]
  <2>1. /\ createdAt' = [createdAt EXCEPT ![t] = Numbered(createdAt) + 1]
        /\ createdAt[t] = 0
        /\ UNCHANGED <<status, committedAt>>
    BY <1>2 DEF Begin
  <2>2. /\ Places(createdAt')
        /\ createdAt'[t] # 0
        /\ \A u \in Transactions \ {t} : createdAt'[u] = createdAt[u]
    BY <2>1, NextPlace DEF Stamps
  <2>3. Places(committedAt)'
    BY <2>1 DEF Stamps, Places, Numbered
  <2>4. Places(createdAt)'
    BY <2>2 DEF Places, Numbered
  <2> QED
    BY <2>1, <2>2, <2>3, <2>4 DEF Stamps, VisibleIsCommitted
<1>3. ASSUME NEW t \in Transactions, NEW B \in SUBSET Rows,
             CommitTransaction(t, B)
      PROVE  /\ Stamps'
             /\ createdAt' = createdAt
             /\ \A u \in Transactions :
                  committedAt[u] # 0 => committedAt'[u] = committedAt[u]
  <2>1. /\ committedAt' = [committedAt EXCEPT ![t] = Numbered(committedAt) + 1]
        /\ committedAt[t] = 0 /\ createdAt[t] # 0
        /\ createdAt' = createdAt
        /\ \A x \in Rows : status'[x] # "none" =>
                              status[x] # "none" \/ transaction[x] = t
    BY <1>3 DEF CommitTransaction, SetStatus
  <2>2. /\ Places(committedAt')
        /\ committedAt'[t] # 0
        /\ \A u \in Transactions \ {t} : committedAt'[u] = committedAt[u]
    BY <2>1, NextPlace DEF Stamps
  <2>3. Places(createdAt)'
    BY <2>1 DEF Stamps, Places, Numbered
  <2>4. Places(committedAt)'
    BY <2>2 DEF Places, Numbered
  <2>5. VisibleIsCommitted'
    BY <2>1, <2>2, RowAssumption DEF Stamps, VisibleIsCommitted
  <2> QED
    BY <2>1, <2>2, <2>3, <2>4, <2>5 DEF Stamps
<1>4. ASSUME NEW p \in Pollers, PollerStep(p)
      PROVE  Stamps' /\ UNCHANGED <<createdAt, committedAt>>
  BY <1>1, <1>4, PollerKeepsCommitted DEF TypeInv
<1>5. CASE UNCHANGED vars
  BY <1>1, <1>5 DEF vars
<1> QED
  BY <1>1, <1>2, <1>3, <1>4, <1>5 DEF Next, vars

-----------------------------------------------------------------------------
(***************************************************************************)
(* The order of a user's messages, when rows are taken one at a time.      *)
(***************************************************************************)
\* The rows that were sent, and those that still may be, are in order.
Ordered == PerUserOrder /\ Queue

LEMMA OrderIsInOrder ==
    ASSUME topic \in Seq(Rows)
    PROVE  PerUserOrder <=>
             \A i, j \in DOMAIN topic : i < j => InOrder(topic[i], topic[j])
BY DEF PerUserOrder, InOrder

\* A step that sends nothing, holds nothing new, and makes a row claimable
\* only when nothing is held any more.
LEMMA OrderKept ==
    ASSUME Ordered,
           UNCHANGED <<topic, committedAt>>,
           \A x \in Rows : Held(x)' => Held(x),
           \/ \A y \in Rows : status'[y] = "pending" => status[y] = "pending"
           \/ \A y \in Rows : /\ ~Held(y)'
                              /\ status'[y] = "pending" =>
                                   Held(y) \/ status[y] = "pending"
    PROVE  Ordered'
<1>1. \A x, y : InOrder(x, y)' <=> InOrder(x, y)
  BY DEF InOrder
<1>2. \A x : Sent(x)' <=> Sent(x)
  BY DEF Sent
<1>3. PerUserOrder'
  BY DEF Ordered, PerUserOrder
<1>4. Queue'
  BY <1>1, <1>2 DEF Ordered, Queue
<1> QED
  BY <1>3, <1>4 DEF Ordered

\* Rows that become visible are of the transaction that commits last.
LEMMA OrderCommitted ==
    ASSUME IInv, Stamps, Ordered, NEW t \in Transactions, NEW B \in SUBSET Rows,
           CommitTransaction(t, B)
    PROVE  Ordered'
<1>1. /\ UNCHANGED <<topic, batch>>
      /\ committedAt[t] = 0
      /\ committedAt' = [committedAt EXCEPT ![t] = Numbered(committedAt) + 1]
      /\ \A x \in Rows : \/ x \in B /\ transaction[x] = t
                         \/ status'[x] = status[x]
  BY DEF CommitTransaction, SetStatus, pollers
<1>2. /\ topic \in Seq(Rows) /\ committedAt \in [Transactions -> Nat]
      /\ \A p \in Pollers : batch[p] \subseteq Rows
  BY DEF IInv, TypeOK
<1>3. /\ \A u \in Transactions \ {t} : /\ committedAt'[u] = committedAt[u]
                                       /\ committedAt'[u] < committedAt'[t]
      /\ committedAt'[t] \in Nat
  <2>1. Places(committedAt)
    BY DEF Stamps
  <2>2. \A u \in Transactions \ {t} : /\ committedAt'[u] = committedAt[u]
                                     /\ committedAt'[u] < committedAt'[t]
    BY <1>1, <1>2, <2>1, NextPlace
  <2>3. committedAt'[t] \in Nat
    BY <1>1, <1>2, NumberedType
  <2> QED
    BY <2>2, <2>3
<1>4. \A x \in Rows : Sent(x) \/ Held(x) =>
          /\ transaction[x] \in Transactions \ {t}
          /\ Sent(x)' \/ Held(x)'
  BY <1>1, RowAssumption DEF IInv, SentIsCommitted, ClaimedByOne, Held, Sent,
                             Stamps, VisibleIsCommitted
<1>5. \A x, y \in Rows :
          /\ transaction[x] # t /\ InOrder(x, y) => InOrder(x, y)'
          /\ transaction[x] # t /\ transaction[y] = t => InOrder(x, y)'
  BY <1>2, <1>3, RowAssumption DEF InOrder
<1>6. PerUserOrder'
  <2>1. \A i \in DOMAIN topic : topic[i] \in Rows /\ Sent(topic[i])
    BY <1>2 DEF Sent
  <2>2. \A i, j \in DOMAIN topic : i < j => InOrder(topic[i], topic[j])'
    BY <1>2, <1>4, <1>5, <2>1, OrderIsInOrder, <1>1 DEF Ordered
  <2> QED
    BY <1>1, <2>2 DEF PerUserOrder, InOrder
<1>7. Queue'
  <2>1. \A x : (Sent(x)' <=> Sent(x)) /\ (Held(x)' <=> Held(x))
    BY <1>1 DEF Sent, Held
  <2> QED
    BY <1>1, <1>4, <1>5, <2>1 DEF Ordered, Queue
<1> QED
  BY <1>6, <1>7 DEF Ordered

\* The claim takes the oldest pending row, when nothing is held.
LEMMA OldestIsFirst ==
    ASSUME IInv, Stamps, CommitsFollowBegins, NEW B \in Claimable,
           NEW x \in B, NEW y \in Rows \ B, status[y] = "pending"
    PROVE  InOrder(x, y)
<1> DEFINE t == transaction[x]
           u == transaction[y]
<1>1. /\ x \in Rows /\ t \in Transactions /\ u \in Transactions
      /\ status[x] = "pending"
      /\ createdAt[t] <= createdAt[u]
  BY RowAssumption DEF Claimable
<1>2. /\ committedAt[t] # 0 /\ committedAt[u] # 0
      /\ createdAt[t] # 0
  BY <1>1 DEF Stamps, VisibleIsCommitted
<1>3. /\ createdAt[t] \in Nat /\ createdAt[u] \in Nat
      /\ committedAt[t] \in Nat /\ committedAt[u] \in Nat
  BY <1>1 DEF IInv, TypeOK
<1>4. t = u \/ createdAt[t] < createdAt[u]
  BY <1>1, <1>2, <1>3 DEF Stamps, Places
<1>5. partitionKey[t] = partitionKey[u] => committedAt[t] <= committedAt[u]
  BY <1>1, <1>2, <1>3, <1>4 DEF CommitsFollowBegins
<1> QED
  BY <1>5 DEF InOrder

LEMMA OrderClaimed ==
    ASSUME IInv, Stamps, OneAtATime, CommitsFollowBegins, Ordered,
           NEW p \in Pollers, claimPendingBatch(p)
    PROVE  Ordered'
<1>1. PICK B \in Claimable :
        /\ status' = SetStatus(B, "processing")
        /\ batch' = [batch EXCEPT ![p] = B]
  BY DEF claimPendingBatch
<1>2. PICK z \in Rows : B = {z}
  <2>1. /\ B \subseteq Rows /\ B # {} /\ Cardinality(B) <= 1
    BY DEF Claimable, OneAtATime
  <2>2. IsFiniteSet(B) /\ Cardinality(B) \in Nat
    BY <2>1, RowAssumption, FS_Subset, FS_CardinalityType
  <2>3. Cardinality(B) # 0
    BY <2>1, <2>2, FS_EmptySet
  <2>4. Cardinality(B) = 1
    BY <2>1, <2>2, <2>3
  <2> QED
    BY <2>1, <2>2, <2>4, FS_Singleton
<1>3. /\ status[z] = "pending"
      /\ \A y \in Rows : Held(y)' <=> y = z
      /\ \A y \in Rows : status'[y] = "pending" =>
                            y # z /\ status[y] = "pending"
      /\ UNCHANGED <<topic, committedAt>>
  BY <1>1, <1>2 DEF claimPendingBatch, Claimable, SetStatus, Held, OneAtATime,
                    IInv, TypeOK
<1>4. \A y \in Rows : y # z /\ status[y] = "pending" => InOrder(z, y)
  BY <1>2, OldestIsFirst
<1>5. /\ \A x, y : InOrder(x, y)' <=> InOrder(x, y)
      /\ \A x : Sent(x)' <=> Sent(x)
  BY <1>3 DEF InOrder, Sent
<1>6. PerUserOrder'
  BY <1>3 DEF Ordered, PerUserOrder
<1>7. Queue'
  BY <1>3, <1>4, <1>5 DEF Ordered, Queue
<1> QED
  BY <1>6, <1>7 DEF Ordered

\* What is sent is the row that is held, which comes after all that was sent.
LEMMA OrderSent ==
    ASSUME IInv, Ordered, NEW x \in Rows, Held(x),
           topic' = Append(topic, x), UNCHANGED <<status, committedAt, batch>>
    PROVE  Ordered'
<1>1. topic \in Seq(Rows) /\ committedAt \in [Transactions -> Nat]
  BY DEF IInv, TypeOK
<1>2. /\ \A y, z : InOrder(y, z)' <=> InOrder(y, z)
      /\ \A y : Held(y)' <=> Held(y)
      /\ \A y : Sent(y)' <=> Sent(y) \/ y = x
  BY <1>1, CopiesAppend DEF InOrder, Held
<1>3. InOrder(x, x)
  BY <1>1, RowAssumption DEF InOrder
<1>4. Queue'
  BY <1>2, <1>3 DEF Ordered, Queue
<1>5. PerUserOrder'
  <2> DEFINE n == Len(topic)
  <2>1. /\ DOMAIN topic = 1 .. n /\ n \in Nat /\ DOMAIN topic' = 1 .. (n + 1)
        /\ topic'[n + 1] = x
        /\ \A i \in 1 .. n : topic'[i] = topic[i] /\ topic[i] \in Rows
    BY <1>1
  <2>2. \A i \in 1 .. n : InOrder(topic[i], x)
    BY <2>1 DEF Ordered, Queue, Sent
  <2>3. \A i, j \in 1 .. n : i < j => InOrder(topic[i], topic[j])
    BY <1>1, <2>1, OrderIsInOrder DEF Ordered
  <2>4. \A i, j \in 1 .. (n + 1) : i < j => InOrder(topic'[i], topic'[j])
    <3> SUFFICES ASSUME NEW i \in 1 .. (n + 1), NEW j \in 1 .. (n + 1), i < j
                 PROVE  InOrder(topic'[i], topic'[j])
      OBVIOUS
    <3>1. i \in 1 .. n /\ (j = n + 1 \/ j \in 1 .. n)
      BY <2>1
    <3> QED
      BY <2>1, <2>2, <2>3, <3>1
  <2> QED
    BY <2>1, <2>4 DEF PerUserOrder, InOrder
<1> QED
  BY <1>4, <1>5 DEF Ordered

\* A row that was held is pending again only when nothing is held any more.
LEMMA OrderReset ==
    ASSUME IInv, OneAtATime, Ordered, NEW p \in Pollers,
           resetToRetryable(p) \/ ResetFails(p)
    PROVE  Ordered'
<1>1. /\ current[p] \in batch[p] /\ current[p] \in Rows
      /\ Held(current[p])
      /\ UNCHANGED <<topic, committedAt>>
  BY CurrentIsRow DEF resetToRetryable, ResetFails, IInv, TypeInv, Held
<1>2. \A y \in Rows : Held(y) => y = current[p]
  BY <1>1 DEF Ordered, Queue
<1>3. \A y \in batch[p] : y = current[p]
  BY <1>2 DEF IInv, TypeOK, Held
<1>4. batch' = [batch EXCEPT ![p] = {}]
  BY <1>3 DEF resetToRetryable, ResetFails, NextRow, Abandon, IInv, TypeOK
<1>5. \A y \in Rows : ~Held(y)'
  BY <1>4 DEF Held, OneAtATime, IInv, TypeOK
<1>6. \A y \in Rows : status'[y] = status[y] \/ y = current[p]
  BY <1>1 DEF resetToRetryable, ResetFails, ResetRow, IInv, TypeOK
<1> QED
  BY <1>1, <1>5, <1>6, OrderKept

LEMMA OrderPolled ==
    ASSUME IInv, Stamps, OneAtATime, CommitsFollowBegins, Ordered,
           NEW p \in Pollers, PollerStep(p)
    PROVE  Ordered'
<1> USE DEF table, pollers
<1>1. CASE ClaimUnanswered(p)
  <2>1. \A y \in Rows : status'[y] = "pending" => status[y] = "pending"
    BY <1>1 DEF ClaimUnanswered, SetStatus
  <2> QED
    BY <1>1, <2>1, OrderKept DEF ClaimUnanswered, Held
<1>2. CASE Sends(p)
  <2>1. PICK x \in batch[p] : topic' \in {topic, Append(topic, x)}
    BY <1>2, SendsShape DEF IInv, TypeInv
  <2>2. x \in Rows /\ Held(x) /\ UNCHANGED <<status, committedAt, batch>>
    BY <1>2, <2>1, SendsShape DEF Held, IInv, TypeOK, TypeInv
  <2>3. CASE topic' = topic
    BY <2>2, <2>3, OrderKept DEF Held
  <2>4. CASE topic' = Append(topic, x)
    BY <2>2, <2>4, OrderSent
  <2> QED
    BY <2>1, <2>3, <2>4
<1>3. CASE markPublished(p) \/ MarkFails(p)
  <2>1. \A y \in Rows : status'[y] = "pending" => status[y] = "pending"
    BY <1>3 DEF markPublished, MarkFails, IInv, TypeOK
  <2>2. \A q \in Pollers : batch'[q] \subseteq batch[q]
    <3>1. batch' \in {batch, [batch EXCEPT ![p] = batch[p] \ {current[p]}]}
      BY <1>3 DEF markPublished, MarkFails, NextRow
    <3> QED
      BY <3>1 DEF IInv, TypeOK
  <2>3. UNCHANGED <<topic, committedAt>>
    BY <1>3 DEF markPublished, MarkFails
  <2> QED
    BY <2>1, <2>2, <2>3, OrderKept DEF Held
<1>4. CASE Crash(p)
  <2>1. \A q \in Pollers : batch'[q] \subseteq batch[q]
    BY <1>4 DEF Crash, Abandon, IInv, TypeOK
  <2> QED
    BY <1>4, <2>1, OrderKept DEF Crash, Held
<1> QED
  BY <1>1, <1>2, <1>3, <1>4, OrderClaimed, OrderReset
     DEF PollerStep, RunCycle, Sends

LEMMA NextOrdered ==
    ASSUME IInv, Stamps, OneAtATime, CommitsFollowBegins, Ordered, [Next]_vars
    PROVE  Ordered'
<1>1. ASSUME NEW t \in Transactions, Begin(t) PROVE Ordered'
  BY <1>1, OrderKept DEF Begin, pollers, Held
<1>2. CASE UNCHANGED vars
  BY <1>2, OrderKept DEF vars, Held
<1> QED
  BY <1>1, <1>2, OrderCommitted, OrderPolled DEF Next

\* A commit out of turn is never undone.
LEMMA OutOfTurn ==
    ASSUME IInv, Stamps, [Next]_vars, CommitsFollowBegins'
    PROVE  CommitsFollowBegins
<1>1. \A t \in Transactions :
        committedAt[t] # 0 => /\ committedAt'[t] = committedAt[t]
                              /\ createdAt'[t] = createdAt[t]
  BY NextStamps DEF Stamps, VisibleIsCommitted
<1> QED
  BY <1>1 DEF CommitsFollowBegins

LEMMA SerialInvStep ==
    IInv /\ SerialInv /\ [Next]_vars => SerialInv'
<1> SUFFICES ASSUME IInv, SerialInv, [Next]_vars PROVE SerialInv'
    OBVIOUS
<1>1. Stamps /\ Stamps'
  BY NextStamps DEF SerialInv, Stamps
<1>2. ASSUME OneAtATime', CommitsFollowBegins' PROVE Ordered'
  <2>1. OneAtATime /\ CommitsFollowBegins
    BY <1>1, <1>2, OutOfTurn DEF OneAtATime
  <2> QED
    BY <1>1, <2>1, NextOrdered DEF SerialInv, Ordered
<1> QED
  BY <1>1, <1>2 DEF SerialInv, Stamps, Ordered

(***************************************************************************)
(* With one poller that takes one row at a time, the messages of a user    *)
(* whose transactions commit in the order in which they began are in the   *)
(* topic in that order, whatever calls fail, however often KafkaJS repeats *)
(* a send and the process dies.                                            *)
(***************************************************************************)
THEOREM SerialOrder == Spec => []OrderedWhenSerial
<1>1. Init => SerialInv
  <2>1. ASSUME Init PROVE PerUserOrder /\ Queue
    BY <2>1 DEF Init, PerUserOrder, Queue, Held, Sent
  <2> QED
    BY <2>1, InitStamps DEF SerialInv, Stamps
<1>2. Spec => []SerialInv
  BY <1>1, SerialInvStep, Invariance, PTL DEF Spec
<1>3. SerialInv => OrderedWhenSerial
  BY DEF SerialInv, OrderedWhenSerial
<1> QED
  BY <1>2, <1>3, PTL
=============================================================================
