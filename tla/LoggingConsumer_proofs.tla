------------------------ MODULE LoggingConsumer_proofs ------------------------
(***************************************************************************)
(* Proofs about LoggingConsumer, for any number of consumers, messages and *)
(* faults.  The log table and the offsets always agree: what a handler is  *)
(* about to commit is settled, and rows are never lost.                    *)
(***************************************************************************)
EXTENDS LoggingConsumer, TLAPS

(***************************************************************************)
(* Rows.                                                                   *)
(***************************************************************************)
LEMMA InsertedRows ==
    ASSUME rows \in [Messages -> Nat], OneRowPerEvent, NEW m \in Messages
    PROVE  /\ Inserted(m) \in [Messages -> Nat]
           /\ \A n \in Messages : /\ Inserted(m)[n] <= 1
                                  /\ Inserted(m)[n] >= rows[n]
           /\ Inserted(m)[m] > 0
BY DEF Inserted, OneRowPerEvent

\* Rows that stay or grow keep settled what is settled.
LEMMA StillSettled ==
    ASSUME TypeOK, TypeOK', \A m \in Messages : rows'[m] >= rows[m],
           NEW m \in Messages, Settled(m)
    PROVE  Settled(m)'
BY DEF Settled, TypeOK

(***************************************************************************)
(* The steps of a handler need a message.                                  *)
(***************************************************************************)
LEMMA CurrentIsMessage ==
    ASSUME TypeOK, HandlerShape, NEW c \in Consumers, pc[c] # "idle"
    PROVE  /\ position[c] \in 1 .. Len(topic)
           /\ Current(c) \in Messages
<1>1. position[c] \in DOMAIN topic
  BY DEF HandlerShape
<1>2. topic \in Seq(Messages)
  BY DEF TypeOK
<1>3. DOMAIN topic = 1 .. Len(topic)
  BY <1>2
<1> QED
  BY <1>1, <1>2, <1>3 DEF Current

LEMMA StartInRange ==
    ASSUME TypeOK
    PROVE  /\ StartOffset \in 0 .. Len(topic) + 1
           /\ StartOffset \in Nat
           /\ committed # NoOffset => StartOffset = committed
<1>1. Len(topic) \in Nat
  BY DEF TypeOK
<1> QED
  BY <1>1 DEF StartOffset, TypeOK, NoOffset

\* The topic is a sequence of messages, and grows at its end.
LEMMA Appended ==
    ASSUME TypeOK, NEW m \in Messages
    PROVE  /\ Append(topic, m) \in Seq(Messages)
           /\ Len(topic) \in Nat
           /\ Len(Append(topic, m)) = Len(topic) + 1
           /\ DOMAIN topic = 1 .. Len(topic)
           /\ DOMAIN Append(topic, m) = 1 .. Len(topic) + 1
           /\ \A i \in 1 .. Len(topic) : Append(topic, m)[i] = topic[i]
<1>1. topic \in Seq(Messages)
  BY DEF TypeOK
<1> QED
  BY <1>1

(***************************************************************************)
(* Type correctness, which needs that a handler that runs has a message.   *)
(***************************************************************************)
LEMMA InitIInv == Init => IInv
<1> SUFFICES ASSUME Init PROVE IInv
    OBVIOUS
<1>1. TypeOK
  BY StartAssumption, BoundAssumption DEF Init, TypeOK, NoOffset
<1>2. HandlerShape /\ OneRowPerEvent
  BY DEF Init, HandlerShape, OneRowPerEvent
<1>3. OwnerNotAhead /\ OwnerNotBehind
  BY ConsumerAssumption DEF Init, OwnerNotAhead, OwnerNotBehind, NoOffset
<1>4. CommittedIsSettled
  BY DEF Init, CommittedIsSettled
<1> QED
  BY <1>1, <1>2, <1>3, <1>4 DEF IInv

LEMMA FaultType ==
    ASSUME TypeOK, Fault
    PROVE  faults' \in 0 .. MaxFaults
BY BoundAssumption DEF TypeOK, Fault

LEMMA NextTypeOK ==
    ASSUME TypeOK, HandlerShape, OneRowPerEvent, [OpenNext]_vars
    PROVE  TypeOK'
<1> USE DEF Goto
<1>0. Len(topic) \in Nat
  BY DEF TypeOK
<1>1. ASSUME NEW m \in Messages, Deliver(m) PROVE TypeOK'
  <2>1. topic' \in Seq(Messages) /\ Len(topic') = Len(topic) + 1
    BY <1>1, Appended DEF Deliver
  <2>2. 0 .. Len(topic) + 1 \subseteq 0 .. Len(topic') + 1
    BY <1>0, <2>1
  <2> QED
    BY <1>1, <2>1, <2>2 DEF Deliver, TypeOK
<1>2. ASSUME NEW c \in Consumers, Join(c) \/ Rebalance(c) PROVE TypeOK'
  <2>1. Assign(c) /\ faults' \in 0 .. MaxFaults
    BY <1>2, FaultType DEF Join, Rebalance, TypeOK
  <2> QED
    BY <2>1, StartInRange DEF Assign, TypeOK
<1>3. ASSUME NEW c \in Consumers, eachMessage(c) PROVE TypeOK'
  BY <1>3 DEF eachMessage, TypeOK
<1>4. ASSUME NEW c \in Consumers, save(c) \/ SaveFails(c) PROVE TypeOK'
  <2>1. Current(c) \in Messages
    BY <1>4, CurrentIsMessage DEF save, SaveFails
  <2>2. rows' \in [Messages -> Nat]
    BY <1>4, <2>1, InsertedRows DEF save, SaveFails, TypeOK
  <2>3. faults' \in 0 .. MaxFaults
    BY <1>4, FaultType DEF save, SaveFails, TypeOK
  <2>4. /\ pc' \in [Consumers -> {"idle", "saving", "committing"}]
        /\ UNCHANGED <<topic, committed, owner, position>>
    BY <1>4 DEF save, SaveFails, TypeOK
  <2> QED
    BY <2>2, <2>3, <2>4 DEF TypeOK
<1>5. ASSUME NEW c \in Consumers, commitOffset(c) \/ CommitFails(c)
      PROVE  TypeOK'
  <2>1. position[c] \in 1 .. Len(topic)
    BY <1>5, CurrentIsMessage DEF commitOffset, CommitFails
  <2>2. position[c] + 1 \in 0 .. Len(topic) + 1
    BY <1>0, <2>1
  <2>3. faults' \in 0 .. MaxFaults
    BY <1>5, FaultType DEF commitOffset, CommitFails, TypeOK
  <2> QED
    BY <1>5, <2>2, <2>3 DEF commitOffset, CommitFails, TypeOK
<1>6. ASSUME NEW c \in Consumers, CommitFenced(c) PROVE TypeOK'
  BY <1>6 DEF CommitFenced, TypeOK
<1>7. ASSUME NEW c \in Consumers, Stop(c) PROVE TypeOK'
  BY <1>7, FaultType DEF Stop, TypeOK
<1>8. CASE UNCHANGED vars
  BY <1>8 DEF vars, TypeOK
<1> QED
  BY <1>1, <1>2, <1>3, <1>4, <1>5, <1>6, <1>7, <1>8 DEF OpenNext, ConsumerStep, Consume

(***************************************************************************)
(* Rows are only added, one per event.                                     *)
(***************************************************************************)
LEMMA NextRows ==
    ASSUME TypeOK, HandlerShape, OneRowPerEvent, [OpenNext]_vars
    PROVE  /\ OneRowPerEvent'
           /\ \A m \in Messages : rows'[m] >= rows[m]
<1>1. CASE UNCHANGED rows
  BY <1>1 DEF OneRowPerEvent, TypeOK
<1>2. ASSUME NEW c \in Consumers, save(c) \/ SaveFails(c)
      PROVE  /\ OneRowPerEvent'
             /\ \A m \in Messages : rows'[m] >= rows[m]
  <2>1. Current(c) \in Messages
    BY <1>2, CurrentIsMessage DEF save, SaveFails
  <2>2. rows' = rows \/ rows' = Inserted(Current(c))
    BY <1>2 DEF save, SaveFails
  <2> QED
    BY <1>1, <2>1, <2>2, InsertedRows DEF OneRowPerEvent, TypeOK
<1> QED
  BY <1>1, <1>2 DEF OpenNext, ConsumerStep, Consume, Deliver, Join, Rebalance, Assign,
                    eachMessage, commitOffset, CommitFails, CommitFenced,
                    Stop, vars

\* A consumer adds at most one row, the first of an event of the partition.
LEMMA ConsumerLogs ==
    ASSUME TypeOK, HandlerShape, NEW c \in Consumers, ConsumerStep(c)
    PROVE  /\ topic' = topic
           /\ \/ rows' = rows
              \/ \E i \in DOMAIN topic :
                   /\ kind[topic[i]] = "event"
                   /\ rows[topic[i]] = 0
                   /\ rows' = [rows EXCEPT ![topic[i]] = 1]
<1>1. CASE save(c) \/ SaveFails(c)
  <2>1. position[c] \in DOMAIN topic /\ kind[topic[position[c]]] = "event"
    BY <1>1 DEF save, SaveFails, HandlerShape, Current
  <2>2. topic' = topic /\ rows' \in {rows, Inserted(topic[position[c]])}
    BY <1>1 DEF save, SaveFails, Current
  <2> QED
    BY <2>1, <2>2 DEF Inserted
<1> QED
  BY <1>1 DEF ConsumerStep, Consume, Join, Rebalance, Assign, eachMessage,
              commitOffset, CommitFails, CommitFenced, Stop

(***************************************************************************)
(* What is behind an unchanged position stays there, and stays settled.    *)
(***************************************************************************)
LEMMA TopicGrows ==
    ASSUME TypeOK, [OpenNext]_vars
    PROVE  /\ DOMAIN topic \subseteq DOMAIN topic'
           /\ \A i \in DOMAIN topic : topic[i] \in Messages /\ topic'[i] = topic[i]
<1>1. \A i \in DOMAIN topic : topic[i] \in Messages
  BY DEF TypeOK
<1>2. CASE UNCHANGED topic
  BY <1>1, <1>2
<1>3. ASSUME NEW m \in Messages, Deliver(m)
      PROVE  /\ DOMAIN topic \subseteq DOMAIN topic'
             /\ \A i \in DOMAIN topic : topic'[i] = topic[i]
  <2>1. 1 .. Len(topic) \subseteq 1 .. Len(topic) + 1
    BY Appended
  <2> QED
    BY <1>3, <2>1, Appended DEF Deliver
<1> QED
  BY <1>1, <1>2, <1>3 DEF OpenNext, ConsumerStep, Consume, Join, Rebalance, Assign, eachMessage,
       save, SaveFails, commitOffset, CommitFails, CommitFenced, Stop, vars

LEMMA NextHandlerShape ==
    ASSUME TypeOK, TypeOK', HandlerShape, OneRowPerEvent, [OpenNext]_vars
    PROVE  HandlerShape'
<1> SUFFICES ASSUME NEW d \in Consumers
             PROVE  /\ pc'[d] # "idle" => position'[d] \in DOMAIN topic'
                    /\ pc'[d] = "saving" => kind[Current(d)'] = "event"
                    /\ pc'[d] = "committing" => Settled(Current(d))'
    BY DEF HandlerShape
<1> USE DEF Goto
<1>1. \A m \in Messages : rows'[m] >= rows[m]
  BY NextRows
<1>2. CASE pc'[d] = pc[d] /\ position'[d] = position[d]
  <2>1. pc[d] # "idle" => position[d] \in DOMAIN topic
    BY DEF HandlerShape
  <2>2. ASSUME pc[d] = "committing" PROVE Settled(Current(d))'
    <3>1. Settled(Current(d)) /\ Current(d) \in Messages
      BY <2>2, CurrentIsMessage DEF HandlerShape
    <3>2. Current(d)' = Current(d)
      BY <1>2, <2>1, <2>2, TopicGrows DEF Current
    <3>3. Settled(Current(d))' <=>
            (kind[Current(d)] = "event" => rows'[Current(d)] > 0)
      BY <3>2 DEF Settled
    <3> QED
      BY <1>1, <3>1, <3>3 DEF Settled, TypeOK
  <2>3. ASSUME pc[d] = "saving" PROVE kind[Current(d)'] = "event"
    <3>1. Current(d)' = Current(d)
      BY <1>2, <2>1, <2>3, TopicGrows DEF Current
    <3> QED
      BY <2>3, <3>1 DEF HandlerShape
  <2> QED
    BY <1>2, <2>1, <2>2, <2>3, TopicGrows
<1>3. CASE pc'[d] = "idle"
  BY <1>3
<1>4. CASE eachMessage(d)
  <2>1. /\ position'[d] = position[d] /\ position[d] \in DOMAIN topic
        /\ topic' = topic
    BY <1>4 DEF eachMessage
  <2>2. ASSUME pc'[d] = "committing" PROVE Settled(Current(d))'
    <3>1. kind[Current(d)] = "invalid"
      BY <1>4, <2>2 DEF eachMessage, TypeOK
    <3>2. Current(d)' = Current(d)
      BY <2>1 DEF Current
    <3> QED
      BY <3>1, <3>2 DEF Settled
  <2>3. ASSUME pc'[d] = "saving" PROVE kind[Current(d)'] = "event"
    <3>1. kind[Current(d)] = "event"
      BY <1>4, <2>3 DEF eachMessage, TypeOK
    <3>2. Current(d)' = Current(d)
      BY <2>1 DEF Current
    <3> QED
      BY <3>1, <3>2
  <2> QED
    BY <2>1, <2>2, <2>3
<1>5. CASE save(d)
  <2>1. Current(d) \in Messages /\ position[d] \in DOMAIN topic
    BY <1>5, CurrentIsMessage DEF save, HandlerShape
  <2>2. /\ topic' = topic /\ position' = position
        /\ rows' = Inserted(Current(d))
    BY <1>5 DEF save
  <2>3. Inserted(Current(d))[Current(d)] > 0
    BY <2>1, InsertedRows DEF TypeOK
  <2>4. Current(d)' = Current(d)
    BY <2>2 DEF Current
  <2>5. Settled(Current(d))'
    BY <2>2, <2>3, <2>4 DEF Settled
  <2>6. pc'[d] = "committing"
    BY <1>5 DEF save, TypeOK
  <2> QED
    BY <2>1, <2>2, <2>5, <2>6
<1>6. ASSUME NEW c \in Consumers, c # d,
             Consume(c) \/ Rebalance(c) \/ SaveFails(c) \/ CommitFails(c) \/ Stop(c)
      PROVE  pc'[d] = pc[d] /\ position'[d] = position[d]
  BY <1>6 DEF Consume, Join, Rebalance, Assign, eachMessage, save, SaveFails,
              commitOffset, CommitFails, CommitFenced, Stop, TypeOK
<1>7. ASSUME Join(d) \/ Rebalance(d) \/ SaveFails(d) \/ commitOffset(d)
             \/ CommitFails(d) \/ CommitFenced(d) \/ Stop(d)
      PROVE  pc'[d] = "idle"
  BY <1>7 DEF Join, Rebalance, Assign, SaveFails, commitOffset, CommitFails,
              CommitFenced, Stop, TypeOK
<1>8. ASSUME (\E m \in Messages : Deliver(m)) \/ UNCHANGED vars
      PROVE  pc'[d] = pc[d] /\ position'[d] = position[d]
  BY <1>8 DEF Deliver, vars
<1> QED
  BY <1>2, <1>3, <1>4, <1>5, <1>6, <1>7, <1>8 DEF OpenNext, ConsumerStep, Consume

(***************************************************************************)
(* The owner is never ahead of the committed offset.                       *)
(***************************************************************************)
LEMMA NextOwnerNotAhead ==
    ASSUME TypeOK, TypeOK', HandlerShape, OwnerNotAhead, [OpenNext]_vars
    PROVE  OwnerNotAhead'
<1> SUFFICES ASSUME Established
             PROVE  /\ committed' # NoOffset
                    /\ \A d \in Consumers : owner' = d => position'[d] <= committed'
    BY DEF OwnerNotAhead
<1>1. /\ committed # NoOffset
      /\ \A d \in Consumers : owner = d => position[d] <= committed
  BY DEF OwnerNotAhead
<1>2. ASSUME UNCHANGED <<committed, position>>, owner' \in {owner, NoConsumer}
      PROVE  /\ committed' # NoOffset
             /\ \A d \in Consumers : owner' = d => position'[d] <= committed'
  BY <1>1, <1>2, ConsumerAssumption
<1>3. ASSUME NEW c \in Consumers, Join(c) \/ Rebalance(c)
      PROVE  /\ committed' # NoOffset
             /\ \A d \in Consumers : owner' = d => position'[d] <= committed'
  <2>1. Assign(c)
    BY <1>3 DEF Join, Rebalance
  <2>2. owner' = c /\ position'[c] = committed /\ committed' = committed
    BY <1>1, <2>1, StartInRange DEF Assign, TypeOK
  <2>3. committed \in Nat
    BY DEF TypeOK
  <2> QED
    BY <1>1, <2>2, <2>3
<1>4. ASSUME NEW c \in Consumers, commitOffset(c) \/ CommitFails(c)
      PROVE  /\ committed' # NoOffset
             /\ \A d \in Consumers : owner' = d => position'[d] <= committed'
  <2>1. owner = c /\ owner' = c /\ position[c] \in Nat
    BY <1>4 DEF commitOffset, CommitFails, TypeOK
  <2>2. \/ position'[c] = position[c] + 1 /\ committed' = position[c] + 1
        \/ position'[c] = position[c] /\ committed' \in {committed, position[c] + 1}
    BY <1>4 DEF commitOffset, CommitFails, TypeOK
  <2> QED
    BY <1>1, <2>1, <2>2 DEF NoOffset
<1> QED
  BY <1>2, <1>3, <1>4 DEF OpenNext, ConsumerStep, Consume, Deliver, eachMessage, save, SaveFails,
                          CommitFenced, Stop, vars

(***************************************************************************)
(* Nor is it more than one behind, so its next commit goes forward.        *)
(***************************************************************************)
LEMMA NextOwnerNotBehind ==
    ASSUME TypeOK, TypeOK', OwnerNotBehind, [OpenNext]_vars
    PROVE  OwnerNotBehind'
<1> SUFFICES ASSUME NEW d \in Consumers, owner' = d
             PROVE  committed' <= position'[d] + 1
    BY DEF OwnerNotBehind
<1>1. owner = d => committed <= position[d] + 1
  BY DEF OwnerNotBehind
<1>2. committed \in Nat /\ \A c \in Consumers : position[c] \in Nat
  BY DEF TypeOK
<1>3. ASSUME UNCHANGED <<committed, position>>, owner' \in {owner, NoConsumer}
      PROVE  committed' <= position'[d] + 1
  BY <1>1, <1>3, ConsumerAssumption
<1>4. ASSUME NEW c \in Consumers, Join(c) \/ Rebalance(c)
      PROVE  committed' <= position'[d] + 1
  <2>1. Assign(c)
    BY <1>4 DEF Join, Rebalance
  <2>2. d = c /\ position'[d] = StartOffset /\ committed' = committed
    BY <2>1 DEF Assign, TypeOK
  <2>3. StartOffset >= committed /\ StartOffset \in Nat
    BY <1>2, StartInRange DEF NoOffset
  <2> QED
    BY <1>2, <2>2, <2>3
<1>5. ASSUME NEW c \in Consumers, commitOffset(c) \/ CommitFails(c)
      PROVE  committed' <= position'[d] + 1
  <2>1. owner = c /\ d = c
    BY <1>5 DEF commitOffset, CommitFails
  <2>2. \/ position'[c] = position[c] + 1 /\ committed' = position[c] + 1
        \/ position'[c] = position[c] /\ committed' \in {committed, position[c] + 1}
    BY <1>5 DEF commitOffset, CommitFails, TypeOK
  <2> QED
    BY <1>1, <1>2, <2>1, <2>2
<1> QED
  BY <1>3, <1>4, <1>5
     DEF OpenNext, ConsumerStep, Consume, Deliver, eachMessage, save, SaveFails,
         CommitFenced, Stop, vars

(***************************************************************************)
(* Nothing below the committed offset is left unsettled.                   *)
(***************************************************************************)
LEMMA NextCommittedIsSettled ==
    ASSUME TypeOK, TypeOK', HandlerShape, OwnerNotAhead, OneRowPerEvent,
           CommittedIsSettled, Established, [OpenNext]_vars
    PROVE  CommittedIsSettled'
<1>1. \A i \in DOMAIN topic : Settled(topic[i]) => Settled(topic[i])'
  <2> SUFFICES ASSUME NEW i \in DOMAIN topic, Settled(topic[i])
               PROVE  Settled(topic[i])'
      OBVIOUS
  <2>1. topic[i] \in Messages /\ topic'[i] = topic[i]
    BY TopicGrows
  <2>2. rows'[topic[i]] >= rows[topic[i]]
    BY <2>1, NextRows
  <2>3. Settled(topic[i])' <=> (kind[topic[i]] = "event" => rows'[topic[i]] > 0)
    BY <2>1 DEF Settled
  <2> QED
    BY <2>1, <2>2, <2>3 DEF Settled, TypeOK
<1>2. ASSUME committed' = committed, topic' = topic
      PROVE  CommittedIsSettled'
  BY <1>1, <1>2 DEF CommittedIsSettled
<1>3. ASSUME NEW m \in Messages, Deliver(m) PROVE CommittedIsSettled'
  <2>1. \A i \in DOMAIN topic' : i < committed => i \in DOMAIN topic
    BY <1>3, Appended DEF Deliver, TypeOK
  <2>2. committed' = committed
    BY <1>3 DEF Deliver
  <2> QED
    BY <1>1, <2>1, <2>2 DEF CommittedIsSettled
<1>4. ASSUME NEW c \in Consumers, commitOffset(c) \/ CommitFails(c)
      PROVE  CommittedIsSettled'
  <2>1. /\ owner = c /\ pc[c] = "committing" /\ topic' = topic
        /\ committed' \in {committed, position[c] + 1}
    BY <1>4 DEF commitOffset, CommitFails
  <2>2. position[c] <= committed /\ Settled(topic[position[c]])
    BY <2>1 DEF OwnerNotAhead, HandlerShape, Current
  <2>3. position[c] \in Nat /\ committed \in Nat /\ DOMAIN topic \subseteq Nat
    BY Appended, CurrentIsMessage, <2>1 DEF TypeOK
  <2>4. \A i \in DOMAIN topic : i < committed' => i < committed \/ i = position[c]
    BY <2>1, <2>2, <2>3
  <2> QED
    BY <1>1, <2>1, <2>2, <2>4 DEF CommittedIsSettled
<1> QED
  BY <1>2, <1>3, <1>4 DEF OpenNext, ConsumerStep, Consume, Join, Rebalance, Assign, eachMessage,
                          save, SaveFails, CommitFenced, Stop, vars

LEMMA NextIInv == IInv /\ [OpenNext]_vars => IInv'
<1> SUFFICES ASSUME IInv, [OpenNext]_vars PROVE IInv'
    OBVIOUS
<1>1. /\ TypeOK /\ HandlerShape /\ OneRowPerEvent
      /\ OwnerNotAhead /\ OwnerNotBehind
  BY DEF IInv
<1>2. TypeOK'
  BY <1>1, NextTypeOK
<1>3. HandlerShape' /\ OwnerNotAhead' /\ OwnerNotBehind' /\ OneRowPerEvent'
  BY <1>1, <1>2, NextHandlerShape, NextOwnerNotAhead, NextOwnerNotBehind,
     NextRows
<1>4. Established => CommittedIsSettled'
  BY <1>1, <1>2, NextCommittedIsSettled DEF IInv
<1> QED
  BY <1>2, <1>3, <1>4 DEF IInv

(***************************************************************************)
(* Handlers, offsets and the log table always agree, however the messages  *)
(* get into the partition ...                                              *)
(***************************************************************************)
THEOREM OpenInvariance == OpenSpec => []IInv
BY InitIInv, NextIInv, PTL DEF OpenSpec

(***************************************************************************)
(* ... and in particular when they are bounded, as in the runs.            *)
(***************************************************************************)
THEOREM Invariance == Spec => []IInv
<1>1. [Next]_vars => [OpenNext]_vars
  BY DEF Next, OpenNext, Produce
<1> QED
  BY <1>1, InitIInv, NextIInv, PTL DEF Spec

(***************************************************************************)
(* Every variable keeps its type: no offset is past the partition's end.   *)
(***************************************************************************)
THEOREM TypeCorrect == Spec => []TypeOK
<1>1. IInv => TypeOK
  BY DEF IInv
<1> QED
  BY <1>1, Invariance, PTL

(***************************************************************************)
(* No event ever has two rows in the log.                                  *)
(***************************************************************************)
THEOREM LoggedOnce == Spec => []OneRowPerEvent
<1>1. IInv => OneRowPerEvent
  BY DEF IInv
<1> QED
  BY <1>1, Invariance, PTL

(***************************************************************************)
(* Delivery is at least once for a group that has committed before.        *)
(***************************************************************************)
THEOREM AtLeastOnce ==
    ASSUME Established
    PROVE  Spec => []CommittedIsSettled
<1>1. IInv => CommittedIsSettled
  BY DEF IInv
<1> QED
  BY <1>1, Invariance, PTL

-----------------------------------------------------------------------------
(***************************************************************************)
(* The commit of an owner never goes back: nobody else commits, and what   *)
(* the owner commits is the offset behind its position.                    *)
(***************************************************************************)
LEMMA CommittedGrows == IInv /\ [OpenNext]_vars => [committed' >= committed]_vars
<1> SUFFICES ASSUME IInv, [OpenNext]_vars PROVE committed' >= committed
    OBVIOUS
<1>1. committed \in Nat
  BY DEF IInv, TypeOK
<1>2. CASE UNCHANGED committed
  BY <1>1, <1>2
<1>3. ASSUME NEW c \in Consumers, commitOffset(c) \/ CommitFails(c)
      PROVE  committed' >= committed
  <2>1. owner = c /\ committed' \in {committed, position[c] + 1}
    BY <1>3 DEF commitOffset, CommitFails
  <2>2. committed <= position[c] + 1 /\ position[c] \in Nat
    BY <2>1 DEF IInv, OwnerNotBehind, TypeOK
  <2> QED
    BY <1>1, <2>1, <2>2
<1> QED
  BY <1>2, <1>3
     DEF OpenNext, ConsumerStep, Consume, Deliver, Join, Rebalance, Assign,
         eachMessage, save, SaveFails, CommitFenced, Stop, vars

(***************************************************************************)
(* No step takes the committed offset back, not even the late commit of a  *)
(* consumer that lost the partition and may have got it again.             *)
(***************************************************************************)
THEOREM NeverBack == Spec => OffsetsMoveForward
<1>1. [Next]_vars => [OpenNext]_vars
  BY DEF Next, OpenNext, Produce
<1> QED
  BY <1>1, CommittedGrows, Invariance, PTL DEF Spec, OffsetsMoveForward

(***************************************************************************)
(* The consumers implement TransitionDelivery.                             *)
(***************************************************************************)
Arrived == {m \in Messages : /\ kind[m] = "event"
                             /\ \E i \in DOMAIN topic : topic[i] = m}

LEMMA DeliveryStep ==
    IInv /\ [OpenNext]_vars => [Delivery!Next]_(Delivery!vars)
<1> SUFFICES ASSUME IInv, [OpenNext]_vars
             PROVE  [Delivery!Next]_(Delivery!vars)
    OBVIOUS
<1>0. TypeOK /\ HandlerShape
  BY DEF IInv
<1>1. CASE UNCHANGED <<topic, rows>>
  BY <1>1 DEF Delivery!vars
<1>2. ASSUME NEW m \in Messages, Deliver(m)
      PROVE  [Delivery!Next]_(Delivery!vars)
  <2>1. /\ topic' = Append(topic, m) /\ rows' = rows
        /\ topic \in Seq(Messages)
    BY <1>0, <1>2 DEF Deliver, TypeOK
  <2>2. \A n : (\E i \in DOMAIN topic' : topic'[i] = n)
                 <=> n = m \/ \E i \in DOMAIN topic : topic[i] = n
    BY <2>1
  <2>3. CASE kind[m] = "event" /\ m \notin Arrived
    <3>1. Arrived' = Arrived \cup {m} /\ {m} \cap Arrived = {}
      BY <2>2, <2>3 DEF Arrived
    <3>2. Delivery!Record({m})
      BY <2>1, <3>1 DEF Delivery!Record, Arrived
    <3> QED
      BY <3>2 DEF Delivery!Next
  <2>4. CASE ~(kind[m] = "event" /\ m \notin Arrived)
    <3>1. Arrived' = Arrived
      BY <2>2, <2>4 DEF Arrived
    <3> QED
      BY <2>1, <3>1 DEF Delivery!vars, Arrived
  <2> QED
    BY <2>3, <2>4
<1>3. ASSUME NEW c \in Consumers, ConsumerStep(c)
      PROVE  [Delivery!Next]_(Delivery!vars)
  <2>1. topic' = topic
    BY <1>0, <1>3, ConsumerLogs
  <2>2. CASE rows' = rows
    BY <1>1, <2>1, <2>2
  <2>3. ASSUME NEW i \in DOMAIN topic, kind[topic[i]] = "event",
               rows[topic[i]] = 0, rows' = [rows EXCEPT ![topic[i]] = 1]
        PROVE  Delivery!Next
    <3>1. topic[i] \in Messages
      BY <1>0 DEF TypeOK
    <3>2. Delivery!Log(topic[i])
      BY <2>1, <2>3, <3>1 DEF Delivery!Log
    <3> QED
      BY <3>1, <3>2 DEF Delivery!Next
  <2> QED
    BY <1>0, <1>3, <2>2, <2>3, ConsumerLogs
<1> QED
  BY <1>1, <1>2, <1>3 DEF OpenNext, vars

(***************************************************************************)
(* The log has a row of every event once at the most, of events that are   *)
(* in the partition only, and loses none, however the messages get there.  *)
(***************************************************************************)
THEOREM Refinement == OpenSpec => LogsOnlyEvents
<1>1. Init => Delivery!Init
  BY DEF Init, Delivery!Init
<1> QED
  BY <1>1, DeliveryStep, OpenInvariance, PTL
     DEF OpenSpec, LogsOnlyEvents, Delivery!Spec

(***************************************************************************)
(* The same for a partition of bounded length, as in the runs.             *)
(***************************************************************************)
THEOREM BoundedRefinement == Spec => LogsOnlyEvents
<1>1. [Next]_vars => [OpenNext]_vars
  BY DEF Next, OpenNext, Produce
<1>2. Spec => OpenSpec
  BY <1>1, PTL DEF Spec, OpenSpec
<1> QED
  BY <1>2, Refinement
=============================================================================
