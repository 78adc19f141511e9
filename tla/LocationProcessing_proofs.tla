------------------------ MODULE LocationProcessing_proofs ------------------------
(***************************************************************************)
(* Proofs about LocationProcessing, for any number of users, areas,        *)
(* requests, lock keys and connections.                                    *)
(***************************************************************************)
EXTENDS LocationProcessing, TLAPS

(***************************************************************************)
(* Type correctness.                                                       *)
(***************************************************************************)
LEMMA TransitionsType ==
    ASSUME NEW previous \in SUBSET Areas, NEW current \in SUBSET Areas
    PROVE  computeTransitions(previous, current) \in Transitions
BY DEF computeTransitions, Transitions

LEMMA NoTransitionsType == NoTransitions \in Transitions
BY TransitionsType DEF NoTransitions

\* A user's rows stay rows, stamped with an old stamp or with the new one.
LEMMA ApplyStateChangesType ==
    ASSUME NEW S, NoRow \in S, NEW t \in S, NEW rows \in [Areas -> S], NEW tr
    PROVE  applyStateChanges(rows, tr, t) \in [Areas -> S]
BY DEF applyStateChanges, UpsertEntered, DeleteExited

LEMMA OutboxInputsType ==
    ASSUME NEW r \in Requests, NEW c \in Command, NEW tr \in Transitions
    PROVE  OutboxInputs(r, c, tr) \subseteq OutboxEvent
BY DEF OutboxInputs, DomainEvent, OutboxEvent, Command, Transitions

TypeInv == TypeOK /\ CommandKnown

LEMMA InitTypeInv == Init => TypeInv
<1> SUFFICES ASSUME Init PROVE TypeInv
    OBVIOUS
<1> USE NoTransitionsType DEF Init
<1>1. TypeOK
  BY DEF TypeOK
<1>2. CommandKnown
  BY DEF CommandKnown, InFlight, InTransaction, Holding
<1> QED
  BY <1>1, <1>2 DEF TypeInv

LEMMA ReleaseType ==
    ASSUME TypeOK, NEW r \in Requests, Release(r)
    PROVE  lock' \in [LockKeys -> Requests \cup {NoRequest}]
BY DEF TypeOK, Release

LEMMA GotoType ==
    ASSUME TypeOK, NEW r \in Requests,
           NEW l \in InFlight \cup {"new", "done", "failed"}, Goto(r, l)
    PROVE  /\ pc' \in [Requests -> InFlight \cup {"new", "done", "failed"}]
           /\ pc'[r] = l
           /\ \A q \in Requests \ {r} : pc'[q] = pc[q]
BY DEF TypeOK, Goto

\* The lock table is the only one that every step of a request may touch.
LEMMA ApplyWritesType ==
    ASSUME TypeOK, NEW r \in Requests, cmd[r] \in Command, ApplyWrites(r)
    PROVE  /\ areas' \subseteq Areas
           /\ userAreaState' \in
                [Users -> [Areas -> Timestamps \cup LegacyStamps \cup {NoRow}]]
           /\ watermark' \in [Users -> Timestamps \cup {NoRow}]
           /\ outbox' \subseteq OutboxEvent
           /\ cmd' = cmd
           /\ seen' \in [Requests -> SUBSET Areas]
           /\ writes' \in [Requests -> SUBSET {"state", "outbox", "watermark"}]
           /\ lock' \in [LockKeys -> Requests \cup {NoRequest}]
<1> DEFINE u == cmd[r].userId
           t == cmd[r].timestamp
           S == Timestamps \cup LegacyStamps \cup {NoRow}
<1>1. u \in Users /\ t \in Timestamps /\ t \in S /\ NoRow \in S
  BY DEF Command
<1>2. transitions[r] \in Transitions
  BY DEF TypeOK
<1>3. applyStateChanges(userAreaState[u], transitions[r], t) \in [Areas -> S]
  <2> HIDE DEF S
  <2>1. userAreaState[u] \in [Areas -> S]
    BY <1>1 DEF TypeOK, S
  <2> QED
    BY <1>1, <2>1, ApplyStateChangesType
<1>4. userAreaState' \in [Users -> [Areas -> S]]
  BY <1>1, <1>3 DEF TypeOK, ApplyWrites
<1>5. outbox' \subseteq OutboxEvent
  BY <1>2, OutboxInputsType DEF TypeOK, ApplyWrites
<1>6. watermark' \in [Users -> Timestamps \cup {NoRow}]
  BY <1>1 DEF TypeOK, ApplyWrites, upsertWatermark
<1>7. lock' \in [LockKeys -> Requests \cup {NoRequest}]
  BY ReleaseType DEF ApplyWrites
<1> QED
  BY <1>4, <1>5, <1>6, <1>7 DEF TypeOK, ApplyWrites

LEMMA NextTypeInv == TypeInv /\ [Next]_vars => TypeInv'
<1> SUFFICES ASSUME TypeOK, CommandKnown, [Next]_vars
             PROVE  TypeInv'
    BY DEF TypeInv
<1> USE DEF InFlight, InTransaction, Holding
<1>1. ASSUME NEW a \in Areas, CreateArea(a) PROVE TypeInv'
  BY <1>1 DEF CreateArea, requests, TypeInv, TypeOK, CommandKnown
<1>2. ASSUME NEW r \in Requests, Receive(r) PROVE TypeInv'
  <2>1. PICK c \in Command : cmd' = [cmd EXCEPT ![r] = c]
    BY <1>2 DEF Receive
  <2>2. TypeOK'
    BY <1>2, <2>1, GotoType DEF Receive, tables, TypeOK
  <2>3. CommandKnown'
    BY <1>2, <2>1, GotoType DEF Receive, CommandKnown, TypeOK
  <2> QED
    BY <2>2, <2>3 DEF TypeInv
<1>3. ASSUME NEW r \in Requests, Reject(r) PROVE TypeInv'
  BY <1>3, GotoType DEF Reject, tables, TypeInv, TypeOK, CommandKnown
<1>4. ASSUME NEW r \in Requests, findContainingAreaIds(r) PROVE TypeInv'
  <2>1. areas \cap Covers[cmd[r].point] \in SUBSET Areas
    BY DEF TypeOK
  <2>2. seen' \in [Requests -> SUBSET Areas]
    BY <1>4, <2>1 DEF findContainingAreaIds, TypeOK
  <2>3. pc[r] = "received"
    BY <1>4 DEF findContainingAreaIds
  <2> QED
    BY <1>4, <2>2, <2>3, GotoType
       DEF findContainingAreaIds, tables, TypeInv, TypeOK, CommandKnown
<1>5. ASSUME NEW r \in Requests, BeginTransaction(r) PROVE TypeInv'
  BY <1>5, GotoType DEF BeginTransaction, tables, TypeInv, TypeOK, CommandKnown
<1>6. ASSUME NEW r \in Requests, AcquireLock(r) PROVE TypeInv'
  BY <1>6, GotoType DEF AcquireLock, tables, TypeInv, TypeOK, CommandKnown
<1>7. ASSUME NEW r \in Requests, CheckWatermark(r) PROVE TypeInv'
  BY <1>7, GotoType DEF CheckWatermark, tables, TypeInv, TypeOK, CommandKnown
<1>8. ASSUME NEW r \in Requests, LoadInsideAreas(r) PROVE TypeInv'
  <2> DEFINE rows == userAreaState[cmd[r].userId]
             computed == computeTransitions(Inside(rows), seen[r])
  <2>1. pc[r] = "loading" /\ cmd[r] \in Command
    BY <1>8 DEF LoadInsideAreas, CommandKnown
  <2>2. Inside(rows) \in SUBSET Areas /\ seen[r] \in SUBSET Areas
    BY <2>1 DEF Inside, TypeOK, Command
  <2>3. computed \in Transitions
    BY <2>2, TransitionsType
  <2>4. PICK l \in {"committing", "applying", "advancing"} : Goto(r, l)
    BY <1>8 DEF LoadInsideAreas
  <2>5. transitions' \in [Requests -> Transitions]
    <3> HIDE DEF computed
    <3> QED
      BY <1>8, <2>3 DEF LoadInsideAreas, TypeOK, computed
  <2> QED
    BY <1>8, <2>1, <2>4, <2>5, GotoType
       DEF LoadInsideAreas, tables, TypeInv, TypeOK, CommandKnown
<1>9. ASSUME NEW r \in Requests, ApplyState(r) PROVE TypeInv'
  BY <1>9, GotoType DEF ApplyState, tables, TypeInv, TypeOK, CommandKnown
<1>10. ASSUME NEW r \in Requests, InsertBatch(r) PROVE TypeInv'
  BY <1>10, GotoType DEF InsertBatch, tables, TypeInv, TypeOK, CommandKnown
<1>11. ASSUME NEW r \in Requests, AdvanceWatermark(r) PROVE TypeInv'
  BY <1>11, GotoType DEF AdvanceWatermark, tables, TypeInv, TypeOK, CommandKnown
<1>12. ASSUME NEW r \in Requests, Commit(r) PROVE TypeInv'
  <2>1. cmd[r] \in Command /\ ApplyWrites(r)
    BY <1>12 DEF Commit, CommandKnown
  <2> QED
    BY <1>12, <2>1, ApplyWritesType, GotoType
       DEF Commit, TypeInv, TypeOK, CommandKnown
<1>13. ASSUME NEW r \in Requests, CommitUnacked(r) PROVE TypeInv'
  <2>1. cmd[r] \in Command /\ ApplyWrites(r)
    BY <1>13 DEF CommitUnacked, CommandKnown
  <2> QED
    BY <1>13, <2>1, ApplyWritesType, GotoType, NoTransitionsType
       DEF CommitUnacked, TypeInv, TypeOK, CommandKnown
<1>14. ASSUME NEW r \in Requests, Fail(r) PROVE TypeInv'
  BY <1>14, ReleaseType, GotoType, NoTransitionsType
     DEF Fail, tables, TypeInv, TypeOK, CommandKnown
<1>15. CASE UNCHANGED vars
  BY <1>15 DEF vars, TypeInv, TypeOK, CommandKnown
<1> QED
  BY <1>1, <1>2, <1>3, <1>4, <1>5, <1>6, <1>7, <1>8, <1>9, <1>10, <1>11,
     <1>12, <1>13, <1>14, <1>15 DEF Next, Handle

(***************************************************************************)
(* Every variable keeps its type, and a request in flight has a command.   *)
(***************************************************************************)
THEOREM TypeCorrect == Spec => []TypeOK
<1>1. Spec => []TypeInv
  BY InitTypeInv, NextTypeInv, PTL DEF Spec
<1>2. TypeInv => TypeOK
  BY DEF TypeInv
<1> QED
  BY <1>1, <1>2, PTL

-----------------------------------------------------------------------------
(***************************************************************************)
(* Mutual exclusion.                                                       *)
(***************************************************************************)
LEMMA KeyType ==
    ASSUME TypeInv, NEW r \in Requests, pc[r] \in InFlight
    PROVE  Key(r) \in LockKeys
BY HashtextAssumption DEF TypeInv, CommandKnown, Command, Key

LEMMA ReleaseKeepsOthers ==
    ASSUME TypeInv, NEW r \in Requests, Release(r),
           NEW q \in Requests \ {r}, pc[q] \in InFlight, lock[Key(q)] = q
    PROVE  lock'[Key(q)] = q
<1>1. Key(q) \in LockKeys
  BY KeyType
<1> HIDE DEF Key
<1> QED
  BY <1>1 DEF Release

LEMMA NextLockOwned == TypeInv /\ LockOwned /\ [Next]_vars => LockOwned'
<1> SUFFICES ASSUME TypeInv, LockOwned, [Next]_vars,
                    NEW q \in Requests, pc'[q] \in Holding
             PROVE  lock'[Key(q)'] = q
    BY DEF LockOwned
<1> USE DEF InFlight, InTransaction, Holding
<1>1. ASSUME NEW a \in Areas, CreateArea(a) PROVE lock'[Key(q)'] = q
  BY <1>1 DEF CreateArea, requests, Key, LockOwned
<1>2. ASSUME NEW r \in Requests,
             \/ Receive(r) \/ Reject(r) \/ findContainingAreaIds(r)
             \/ BeginTransaction(r)
      PROVE  lock'[Key(q)'] = q
  <2>1. q # r /\ pc'[q] = pc[q] /\ cmd'[q] = cmd[q]
    BY <1>2 DEF Receive, Reject, findContainingAreaIds, BeginTransaction,
                Goto, TypeInv, TypeOK
  <2>2. lock' = lock
    BY <1>2 DEF Receive, Reject, findContainingAreaIds, BeginTransaction
  <2> QED
    BY <2>1, <2>2 DEF LockOwned, Key
<1>3. ASSUME NEW r \in Requests, AcquireLock(r) PROVE lock'[Key(q)'] = q
  <2>1. Key(r) \in LockKeys /\ lock[Key(r)] = NoRequest
    BY <1>3, KeyType DEF AcquireLock, LockAvailable
  <2>2. cmd' = cmd /\ Key(q)' = Key(q)
    BY <1>3 DEF AcquireLock, Key
  <2>3. lock' = [lock EXCEPT ![Key(r)] = r]
    BY <1>3 DEF AcquireLock
  <2>4. CASE q = r
    BY <2>1, <2>2, <2>3, <2>4 DEF TypeInv, TypeOK
  <2>5. CASE q # r
    <3>1. pc[q] \in Holding
      BY <1>3, <2>5 DEF AcquireLock, Goto, TypeInv, TypeOK
    <3>2. lock[Key(q)] = q /\ Key(q) \in LockKeys
      BY <3>1, KeyType DEF LockOwned
    <3>3. Key(q) # Key(r)
      BY <3>2, <2>1, RequestAssumption
    <3> HIDE DEF Key
    <3> QED
      BY <2>2, <2>3, <3>2, <3>3 DEF TypeInv, TypeOK
  <2> QED
    BY <2>4, <2>5
<1>4. ASSUME NEW r \in Requests,
             \/ CheckWatermark(r) \/ LoadInsideAreas(r) \/ ApplyState(r)
             \/ InsertBatch(r) \/ AdvanceWatermark(r)
      PROVE  lock'[Key(q)'] = q
  <2>1. pc[q] \in Holding
    BY <1>4 DEF CheckWatermark, LoadInsideAreas, ApplyState, InsertBatch,
                AdvanceWatermark, Goto, TypeInv, TypeOK
  <2>2. lock' = lock /\ cmd' = cmd
    BY <1>4 DEF CheckWatermark, LoadInsideAreas, ApplyState, InsertBatch,
                AdvanceWatermark, tables
  <2> QED
    BY <2>1, <2>2 DEF LockOwned, Key
<1>5. ASSUME NEW r \in Requests, Commit(r) \/ CommitUnacked(r) \/ Fail(r)
      PROVE  lock'[Key(q)'] = q
  <2>1. Release(r) /\ cmd' = cmd
    BY <1>5 DEF Commit, CommitUnacked, Fail, ApplyWrites
  <2>2. q # r /\ pc[q] \in Holding
    BY <1>5 DEF Commit, CommitUnacked, Fail, Goto, TypeInv, TypeOK
  <2>3. lock'[Key(q)] = q
    BY <2>1, <2>2, ReleaseKeepsOthers DEF LockOwned
  <2> QED
    BY <2>1, <2>3 DEF Key
<1>6. CASE UNCHANGED vars
  BY <1>6 DEF vars, LockOwned, Key
<1> QED
  BY <1>1, <1>2, <1>3, <1>4, <1>5, <1>6 DEF Next, Handle

\* Two transactions past the lock belong to different users.
LEMMA OneTransactionPerUser ==
    ASSUME LockOwned, NEW r \in Requests, NEW q \in Requests, q # r,
           pc[r] \in Holding, pc[q] \in Holding
    PROVE  cmd[r].userId # cmd[q].userId
BY DEF LockOwned, Key

(***************************************************************************)
(* The statements a transaction has executed.                              *)
(***************************************************************************)
LEMMA NextWritesFollowControl ==
    TypeInv /\ WritesFollowControl /\ [Next]_vars => WritesFollowControl'
<1> SUFFICES ASSUME TypeInv, WritesFollowControl, [Next]_vars
             PROVE  WritesFollowControl'
    OBVIOUS
<1> USE DEF WritesFollowControl, Decided, StatementsOf, Goto, InFlight,
            InTransaction, Holding
<1>1. ASSUME NEW a \in Areas, CreateArea(a) PROVE WritesFollowControl'
  BY <1>1 DEF CreateArea, requests
<1>2. ASSUME NEW r \in Requests,
             \/ Receive(r) \/ Reject(r) \/ findContainingAreaIds(r)
             \/ BeginTransaction(r) \/ AcquireLock(r) \/ CheckWatermark(r)
      PROVE  WritesFollowControl'
  <2>1. /\ UNCHANGED <<transitions, writes>>
        /\ pc[r] \in {"new", "received", "queried", "waiting", "locked"}
    BY <1>2 DEF Receive, Reject, findContainingAreaIds, BeginTransaction,
                AcquireLock, CheckWatermark
  <2>2. PICK l \in {"received", "failed", "queried", "waiting", "locked",
                    "committing", "loading"} :
          pc' = [pc EXCEPT ![r] = l]
    BY <1>2 DEF Receive, Reject, findContainingAreaIds, BeginTransaction,
                AcquireLock, CheckWatermark
  <2>3. writes[r] = {} /\ transitions[r] = NoTransitions
    BY <2>1
  <2> QED
    BY <2>1, <2>2, <2>3 DEF TypeInv, TypeOK
<1>3. ASSUME NEW r \in Requests, LoadInsideAreas(r)
      PROVE  WritesFollowControl'
  <2> DEFINE rows == userAreaState[cmd[r].userId]
             computed == computeTransitions(Inside(rows), seen[r])
  <2>1. pc[r] = "loading" /\ writes' = writes
    BY <1>3 DEF LoadInsideAreas
  <2>2. CASE HasNewerRow(rows, cmd[r].timestamp)
    BY <1>3, <2>1, <2>2 DEF LoadInsideAreas, TypeInv, TypeOK
  <2>3. CASE ~HasNewerRow(rows, cmd[r].timestamp)
    <3>1. transitions' = [transitions EXCEPT ![r] = computed]
      BY <1>3, <2>3 DEF LoadInsideAreas
    <3>2. pc' = [pc EXCEPT ![r] = IF hasTransitions(computed)
                                    THEN "applying" ELSE "advancing"]
      BY <1>3, <2>3 DEF LoadInsideAreas
    <3> HIDE DEF computed
    <3> QED
      BY <2>1, <3>1, <3>2 DEF TypeInv, TypeOK
  <2> QED
    BY <2>2, <2>3
<1>4. ASSUME NEW r \in Requests, ApplyState(r) PROVE WritesFollowControl'
  BY <1>4 DEF ApplyState, TypeInv, TypeOK
<1>5. ASSUME NEW r \in Requests, InsertBatch(r) PROVE WritesFollowControl'
  BY <1>5 DEF InsertBatch, TypeInv, TypeOK
<1>6. ASSUME NEW r \in Requests, AdvanceWatermark(r)
      PROVE  WritesFollowControl'
  BY <1>6 DEF AdvanceWatermark, TypeInv, TypeOK
<1>7. ASSUME NEW r \in Requests, Commit(r) \/ CommitUnacked(r) \/ Fail(r)
      PROVE  WritesFollowControl'
  <2>1. writes' = [writes EXCEPT ![r] = {}]
    BY <1>7 DEF Commit, CommitUnacked, Fail, ApplyWrites
  <2>2. PICK l \in {"done", "failed"} : pc' = [pc EXCEPT ![r] = l]
    BY <1>7 DEF Commit, CommitUnacked, Fail
  <2>3. /\ \A q \in Requests \ {r} : transitions'[q] = transitions[q]
        /\ pc'[r] = "failed" => transitions'[r] = NoTransitions
    BY <1>7 DEF Commit, CommitUnacked, Fail, TypeInv, TypeOK
  <2> QED
    BY <2>1, <2>2, <2>3 DEF TypeInv, TypeOK
<1>8. CASE UNCHANGED vars
  BY <1>8 DEF vars
<1> QED
  BY <1>1, <1>2, <1>3, <1>4, <1>5, <1>6, <1>7, <1>8 DEF Next, Handle

-----------------------------------------------------------------------------
(***************************************************************************)
(* What a commit does.  A transaction that decided to take its location    *)
(* makes, in its commit, the one step of the abstract specification; any   *)
(* other commit changes no table.                                          *)
(***************************************************************************)
TablesUnchanged == UNCHANGED <<userAreaState, watermark, outbox>>

\* Applying the computed transitions makes the membership the observed set.
LEMMA ApplyIsMembership ==
    ASSUME NEW rows \in [Areas -> Nat], NEW current \in SUBSET Areas,
           NEW t \in Nat, \A a \in Areas : rows[a] < t
    PROVE  applyStateChanges(rows, computeTransitions(Inside(rows), current), t)
             = [a \in Areas |-> IF a \notin current THEN NoRow
                                ELSE IF rows[a] = NoRow THEN t ELSE rows[a]]
BY DEF applyStateChanges, UpsertEntered, DeleteExited, computeTransitions,
       Inside, NoRow

\* Without transitions the membership already is the observed set.
LEMMA NoTransitionsMembership ==
    ASSUME NEW rows \in [Areas -> Nat], NEW current \in SUBSET Areas,
           NEW t \in Nat,
           ~hasTransitions(computeTransitions(Inside(rows), current))
    PROVE  rows = [a \in Areas |-> IF a \notin current THEN NoRow
                                   ELSE IF rows[a] = NoRow THEN t ELSE rows[a]]
<1>1. Inside(rows) = current
  BY DEF hasTransitions, computeTransitions, Inside
<1>2. \A a \in Areas : a \in current <=> rows[a] # NoRow
  BY <1>1 DEF Inside
<1> QED
  BY <1>2

LEMMA StateTypes ==
    ASSUME TypeOK
    PROVE  /\ userAreaState \in [Users -> [Areas -> Nat]]
           /\ watermark \in [Users -> Nat]
           /\ Timestamps \subseteq Nat /\ NoRow \in Nat
<1>1. Timestamps \cup LegacyStamps \cup {NoRow} \subseteq Nat
  BY StampAssumption DEF NoRow
<1> QED
  BY <1>1 DEF TypeOK

\* The abstract events of a request are the outbox rows that it inserts.
LEMMA SameEvents ==
    ASSUME NEW r, NEW c \in Command, NEW current
    PROVE  A!Events(r, c.userId, current, c.timestamp)
             = OutboxInputs(r, c, computeTransitions(
                              Inside(userAreaState[c.userId]), current))
BY DEF A!Events, A!OutboxInputs, A!DomainEvent, A!computeTransitions,
       A!Inside, A!UserEnteredArea, A!UserExitedArea, A!NoRow,
       OutboxInputs, DomainEvent, computeTransitions, Inside,
       UserEnteredArea, UserExitedArea, NoRow

LEMMA CommitEffect ==
    ASSUME TypeInv, WritesFollowControl, ReadsStayValid, EventsAreTaken,
           NEW r \in Requests, pc[r] = "committing", ApplyWrites(r)
    PROVE  \/ /\ ~Decided(r)
              /\ TablesUnchanged
           \/ /\ Decided(r)
              /\ A!Observe(r, cmd[r].userId, seen[r], cmd[r].timestamp)
<1> DEFINE u == cmd[r].userId
           t == cmd[r].timestamp
           rows == userAreaState[u]
           tr == computeTransitions(Inside(rows), seen[r])
           target == [a \in Areas |->
                        IF a \notin seen[r] THEN NoRow
                        ELSE IF rows[a] = NoRow THEN t ELSE rows[a]]
<1>1. cmd[r] \in Command /\ u \in Users /\ t \in Nat
  BY StateTypes DEF TypeInv, CommandKnown, InFlight, InTransaction, Holding,
                    Command
<1>2. rows \in [Areas -> Nat] /\ seen[r] \in SUBSET Areas
  BY <1>1, StateTypes DEF TypeInv, TypeOK
<1>3. CASE ~Decided(r)
  BY <1>3 DEF WritesFollowControl, ApplyWrites, TablesUnchanged
<1>4. CASE Decided(r)
  <2>1. /\ watermark[u] < t
        /\ \A a \in Areas : rows[a] < t
        /\ transitions[r] = tr
    BY <1>4 DEF ReadsStayValid, ReadsValid
  <2>2. writes[r] = StatementsOf(r) \cup {"watermark"}
    BY <1>4 DEF WritesFollowControl
  <2>3. watermark' = [watermark EXCEPT ![u] = t]
    BY <2>1, <2>2 DEF ApplyWrites, upsertWatermark
  <2>4. userAreaState' = [userAreaState EXCEPT ![u] = target]
    <3>1. CASE hasTransitions(tr)
      <4>1. userAreaState' = [userAreaState EXCEPT
                                ![u] = applyStateChanges(rows, tr, t)]
        <5>1. "state" \in writes[r]
          BY <2>1, <2>2, <3>1 DEF StatementsOf
        <5> HIDE DEF tr
        <5> QED
          BY <2>1, <5>1 DEF ApplyWrites
      <4>2. applyStateChanges(rows, tr, t) = target
        BY <1>1, <1>2, <2>1, ApplyIsMembership
      <4> QED
        BY <4>1, <4>2
    <3>2. CASE ~hasTransitions(tr)
      <4>1. "state" \notin writes[r]
        BY <2>1, <2>2, <3>2 DEF StatementsOf
      <4>2. rows = target
        <5> HIDE DEF rows, t
        <5> QED
          BY <1>1, <1>2, <3>2, NoTransitionsMembership
      <4>3. userAreaState' = userAreaState
        BY <4>1 DEF ApplyWrites
      <4> HIDE DEF target
      <4>4. userAreaState = [userAreaState EXCEPT ![u] = rows]
        BY <1>1 DEF TypeInv, TypeOK
      <4> QED
        BY <4>2, <4>3, <4>4
    <3> QED
      BY <3>1, <3>2
  <2>5. outbox' = outbox \cup OutboxInputs(r, cmd[r], tr)
    <3>1. CASE hasTransitions(tr)
      <4>1. "outbox" \in writes[r]
        BY <2>1, <2>2, <3>1 DEF StatementsOf
      <4> HIDE DEF tr
      <4> QED
        BY <2>1, <4>1 DEF ApplyWrites
    <3>2. CASE ~hasTransitions(tr)
      <4>1. "outbox" \notin writes[r]
        BY <2>1, <2>2, <3>2 DEF StatementsOf
      <4>2. OutboxInputs(r, cmd[r], tr) = {}
        <5> HIDE DEF tr
        <5> QED
          BY <3>2 DEF hasTransitions, OutboxInputs
      <4> QED
        BY <4>1, <4>2 DEF ApplyWrites
    <3> QED
      BY <3>1, <3>2
  <2>6. \A e \in outbox : e.request # r
    BY DEF EventsAreTaken
  <2>7. A!Newer(u, t)
    BY <2>1 DEF A!Newer
  <2>8. A!Membership(u, seen[r], t) = target
    BY DEF A!Membership, A!NoRow, NoRow
  <2>9. A!Events(r, u, seen[r], t) = OutboxInputs(r, cmd[r], tr)
    BY <1>1, SameEvents
  <2> HIDE DEF tr, target
  <2> QED
    BY <1>4, <2>3, <2>4, <2>5, <2>6, <2>7, <2>8, <2>9 DEF A!Observe
<1> QED
  BY <1>3, <1>4

-----------------------------------------------------------------------------
(***************************************************************************)
(* Every step is a commit or leaves the tables alone.                      *)
(***************************************************************************)
QuietStep ==
    /\ TablesUnchanged
    /\ \A q \in Requests :
         /\ pc[q] \in {"done", "failed"} => pc'[q] = pc[q] /\ cmd'[q] = cmd[q]
         /\ pc'[q] = "done" => pc[q] = "done" /\ transitions'[q] = transitions[q]

LEMMA StepKinds ==
    ASSUME TypeInv, [Next]_vars
    PROVE  \/ QuietStep
           \/ \E r \in Requests : Commit(r) \/ CommitUnacked(r)
<1> USE DEF QuietStep, TablesUnchanged, Goto, tables, InFlight, InTransaction,
            Holding
<1>1. ASSUME NEW a \in Areas, CreateArea(a) PROVE QuietStep
  BY <1>1 DEF CreateArea, requests
<1>2. ASSUME NEW r \in Requests,
             \/ Receive(r) \/ Reject(r) \/ findContainingAreaIds(r)
             \/ BeginTransaction(r) \/ AcquireLock(r) \/ CheckWatermark(r)
      PROVE  QuietStep
  BY <1>2 DEF Receive, Reject, findContainingAreaIds, BeginTransaction,
              AcquireLock, CheckWatermark, TypeInv, TypeOK
<1>3. ASSUME NEW r \in Requests, LoadInsideAreas(r) PROVE QuietStep
  <2>1. PICK l \in {"committing", "applying", "advancing"} :
          pc' = [pc EXCEPT ![r] = l]
    BY <1>3 DEF LoadInsideAreas
  <2>2. TablesUnchanged /\ cmd' = cmd /\ pc[r] = "loading"
    BY <1>3 DEF LoadInsideAreas
  <2>3. \A q \in Requests \ {r} : transitions'[q] = transitions[q]
    BY <1>3 DEF LoadInsideAreas, TypeInv, TypeOK
  <2> QED
    BY <2>1, <2>2, <2>3 DEF TypeInv, TypeOK
<1>4. ASSUME NEW r \in Requests,
             ApplyState(r) \/ InsertBatch(r) \/ AdvanceWatermark(r) \/ Fail(r)
      PROVE  QuietStep
  BY <1>4 DEF ApplyState, InsertBatch, AdvanceWatermark, Fail, TypeInv, TypeOK
<1>5. CASE UNCHANGED vars
  BY <1>5 DEF vars
<1> QED
  BY <1>1, <1>2, <1>3, <1>4, <1>5 DEF Next, Handle

(***************************************************************************)
(* The history: what the outbox says of the past and of the rows.          *)
(***************************************************************************)
History ==
    /\ EventsAreTaken
    /\ EventsExplainRows
    /\ EventsAlternate
    /\ OneRequestPerTimestamp
    /\ EventsOfRequest
    /\ AnsweredIsAccountedFor

LEMMA QuietHistory ==
    ASSUME TypeInv, History, QuietStep
    PROVE  History'
<1> USE DEF QuietStep, TablesUnchanged
<1>1. \A e \in outbox : e.request \in Requests
  BY DEF TypeInv, TypeOK, OutboxEvent
<1>2. EventsAreTaken'
  BY <1>1 DEF History, EventsAreTaken
<1>3. EventsExplainRows'
  BY DEF History, EventsExplainRows, UndoneByLater
<1>4. EventsAlternate'
  BY DEF History, EventsAlternate
<1>5. OneRequestPerTimestamp'
  BY DEF History, OneRequestPerTimestamp
<1>6. EventsOfRequest'
  BY DEF History, EventsOfRequest
<1>7. AnsweredIsAccountedFor'
  BY DEF History, AnsweredIsAccountedFor, HasNewerRow
<1> QED
  BY <1>2, <1>3, <1>4, <1>5, <1>6, <1>7 DEF History

\* The events that one observation adds, described one by one.
LEMMA ObservedEvents ==
    ASSUME TypeOK, NEW r \in Requests, NEW u \in Users, NEW t,
           NEW current \in SUBSET Areas,
           NEW e \in A!Events(r, u, current, t)
    PROVE  /\ e.request = r /\ e.userId = u /\ e.timestamp = t
           /\ e.areaId \in Areas
           /\ \/ /\ e.type = UserEnteredArea
                 /\ e.areaId \in current
                 /\ userAreaState[u][e.areaId] = NoRow
              \/ /\ e.type = UserExitedArea
                 /\ e.areaId \notin current
                 /\ userAreaState[u][e.areaId] # NoRow
BY DEF TypeOK, A!Events, A!OutboxInputs, A!DomainEvent, A!computeTransitions,
       A!Inside, A!UserEnteredArea, A!UserExitedArea, A!NoRow,
       UserEnteredArea, UserExitedArea, NoRow

\* Conversely, a row that the observation changes has its event.
LEMMA ChangedRowHasEvent ==
    ASSUME TypeOK, NEW r \in Requests, NEW u \in Users, NEW t,
           NEW current \in SUBSET Areas, NEW a \in Areas,
           (a \in current) # (userAreaState[u][a] # NoRow)
    PROVE  \E e \in A!Events(r, u, current, t) :
              /\ About(e, u, a)
              /\ e.timestamp = t
              /\ e.type = IF a \in current THEN UserEnteredArea
                                           ELSE UserExitedArea
<1> DEFINE new(type) == [request |-> r, userId |-> u, areaId |-> a,
                         type |-> type, timestamp |-> t]
<1> USE DEF A!Events, A!OutboxInputs, A!DomainEvent, A!computeTransitions,
            A!Inside, A!UserEnteredArea, A!UserExitedArea, A!NoRow,
            UserEnteredArea, UserExitedArea, NoRow, About
<1>1. CASE a \in current
  <2>1. new(UserEnteredArea) \in A!Events(r, u, current, t)
    BY <1>1 DEF TypeOK
  <2> QED
    BY <1>1, <2>1
<1>2. CASE a \notin current
  <2>1. new(UserExitedArea) \in A!Events(r, u, current, t)
    BY <1>2 DEF TypeOK
  <2> QED
    BY <1>2, <2>1
<1> QED
  BY <1>1, <1>2

(***************************************************************************)
(* An observation preserves the history.  All of its events carry its      *)
(* timestamp, which is above the watermark and so above every earlier      *)
(* event of the user.                                                      *)
(***************************************************************************)
LEMMA ObserveHistory ==
    ASSUME TypeInv, History, NEW r \in Requests,
           pc[r] = "committing",
           cmd' = cmd,
           NEW l \in {"done", "failed"}, Goto(r, l),
           A!Observe(r, cmd[r].userId, seen[r], cmd[r].timestamp)
    PROVE  /\ EventsAreTaken'
           /\ EventsExplainRows'
           /\ EventsAlternate'
           /\ OneRequestPerTimestamp'
<1> DEFINE u == cmd[r].userId
           t == cmd[r].timestamp
           current == seen[r]
           New == A!Events(r, u, current, t)
<1>1. /\ cmd[r] \in Command /\ u \in Users /\ t \in Nat
      /\ current \in SUBSET Areas
  BY StateTypes DEF TypeInv, TypeOK, CommandKnown, InFlight, InTransaction,
                    Holding, Command
<1>2. outbox' = outbox \cup New
  BY DEF A!Observe
<1>3. watermark[u] < t /\ watermark' = [watermark EXCEPT ![u] = t]
  BY DEF A!Observe, A!Newer
<1>4. /\ watermark'[u] = t
      /\ \A v \in Users : watermark'[v] \in Nat /\ watermark[v] \in Nat
      /\ \A v \in Users : watermark'[v] >= watermark[v]
  BY <1>1, <1>3, StateTypes DEF TypeInv
<1>5. \A e \in New : /\ e.request = r /\ e.userId = u /\ e.timestamp = t
                     /\ e.areaId \in Areas
                     /\ \/ /\ e.type = UserEnteredArea
                           /\ e.areaId \in current
                           /\ userAreaState[u][e.areaId] = NoRow
                        \/ /\ e.type = UserExitedArea
                           /\ e.areaId \notin current
                           /\ userAreaState[u][e.areaId] # NoRow
  BY <1>1, ObservedEvents DEF TypeInv
<1>6. \A e \in outbox : /\ e.request \in Requests /\ e.userId \in Users
                        /\ e.areaId \in Areas /\ e.timestamp \in Nat
                        /\ e.type \in {UserEnteredArea, UserExitedArea}
                        /\ e.timestamp <= watermark[e.userId]
                        /\ e.request # r
  BY StateTypes DEF TypeInv, TypeOK, OutboxEvent, History, EventsAreTaken
<1>7. \A e \in outbox : e.userId = u => e.timestamp < t
  BY <1>1, <1>3, <1>4, <1>6
<1>8. \A v \in Users, a \in Areas :
        /\ v # u => userAreaState'[v][a] = userAreaState[v][a]
        /\ userAreaState'[u][a] = NoRow <=> a \notin current
  <2>1. userAreaState' = [userAreaState EXCEPT
                            ![u] = A!Membership(u, current, t)]
    BY DEF A!Observe
  <2>2. \A a \in Areas : A!Membership(u, current, t)[a] = NoRow
                            <=> a \notin current
    <3>1. t # NoRow
      BY <1>1, StampAssumption DEF Command
    <3> QED
      BY <3>1 DEF A!Membership, A!NoRow, NoRow
  <2> QED
    BY <1>1, <2>1, <2>2 DEF TypeInv, TypeOK
<1>9. UserEnteredArea # UserExitedArea
  BY DEF UserEnteredArea, UserExitedArea
<1> HIDE DEF u, t, current, New
<1>10. EventsAreTaken'
  <2> SUFFICES ASSUME NEW e \in outbox'
               PROVE  /\ pc'[e.request] \in {"done", "failed"}
                      /\ cmd'[e.request] \in Command
                      /\ cmd'[e.request].userId = e.userId
                      /\ cmd'[e.request].timestamp = e.timestamp
                      /\ e.timestamp <= watermark'[e.userId]
    BY DEF EventsAreTaken
  <2>1. CASE e \in outbox
    <3>1. pc'[e.request] = pc[e.request]
      BY <1>6, <2>1 DEF Goto, TypeInv, TypeOK
    <3>2. e.timestamp <= watermark'[e.userId]
      BY <1>4, <1>6, <2>1
    <3> QED
      BY <2>1, <3>1, <3>2 DEF History, EventsAreTaken
  <2>2. CASE e \in New
    <3>1. pc'[r] \in {"done", "failed"}
      BY DEF Goto, TypeInv, TypeOK
    <3> QED
      BY <1>1, <1>4, <1>5, <2>2, <3>1 DEF u, t
  <2> QED
    BY <1>2, <2>1, <2>2
<1>11. EventsExplainRows'
  <2> SUFFICES ASSUME NEW e \in outbox',
                      e.type = UserEnteredArea
                        <=> userAreaState'[e.userId][e.areaId] = NoRow
               PROVE  UndoneByLater(e)'
    BY DEF EventsExplainRows
  <2>1. e \in outbox
    BY <1>2, <1>5, <1>8, <1>9, <1>1
  <2>2. CASE e.userId = u /\ (e.areaId \in current)
                                # (userAreaState[u][e.areaId] # NoRow)
    <3>1. PICK g \in New :
            /\ About(g, u, e.areaId)
            /\ g.timestamp = t
            /\ g.type = IF e.areaId \in current THEN UserEnteredArea
                                                ELSE UserExitedArea
      BY <1>1, <1>6, <2>1, <2>2, ChangedRowHasEvent DEF TypeInv, New
    <3>2. g.type # e.type
      BY <1>1, <1>6, <1>8, <1>9, <2>1, <2>2, <3>1
    <3>3. e.timestamp < g.timestamp
      BY <1>7, <2>1, <2>2, <3>1
    <3> QED
      BY <1>2, <2>2, <3>1, <3>2, <3>3 DEF UndoneByLater
  <2>3. CASE ~(e.userId = u /\ (e.areaId \in current)
                                 # (userAreaState[u][e.areaId] # NoRow))
    <3>1. userAreaState'[e.userId][e.areaId] = NoRow
            <=> userAreaState[e.userId][e.areaId] = NoRow
      BY <1>1, <1>6, <1>8, <2>1, <2>3
    <3>2. UndoneByLater(e)
      BY <2>1, <3>1 DEF History, EventsExplainRows
    <3> QED
      BY <1>2, <3>2 DEF UndoneByLater
  <2> QED
    BY <2>2, <2>3
<1>12. EventsAlternate'
  <2> SUFFICES ASSUME NEW e \in outbox', NEW f \in outbox',
                      About(f, e.userId, e.areaId), f.type = e.type,
                      e.timestamp < f.timestamp
               PROVE  \E g \in outbox' :
                         /\ About(g, e.userId, e.areaId)
                         /\ g.type # e.type
                         /\ e.timestamp < g.timestamp
                         /\ g.timestamp < f.timestamp
    BY DEF EventsAlternate
  <2>1. CASE e \in outbox /\ f \in outbox
    BY <1>2, <2>1 DEF History, EventsAlternate
  <2>2. CASE e \in New
    <3>1. e.userId = u /\ e.timestamp = t
      BY <1>5, <2>2
    <3>2. f.userId = u
      BY <3>1 DEF About
    <3>3. f.timestamp = t \/ f.timestamp < t
      BY <1>2, <1>5, <1>7, <3>2
    <3>4. f.timestamp \in Nat
      BY <1>1, <1>2, <1>5, <1>6
    <3> QED
      BY <1>1, <3>1, <3>3, <3>4
  <2>3. CASE e \in outbox /\ f \in New
    <3>1. e.userId = u /\ e.areaId = f.areaId /\ f.timestamp = t
      BY <1>5, <2>3 DEF About
    <3>2. e.type = UserEnteredArea
            <=> userAreaState[e.userId][e.areaId] = NoRow
      BY <1>5, <1>9, <2>3, <3>1
    <3>3. UndoneByLater(e)
      BY <2>3, <3>2 DEF History, EventsExplainRows
    <3>4. PICK g \in outbox : /\ About(g, e.userId, e.areaId)
                              /\ g.type # e.type
                              /\ e.timestamp < g.timestamp
      BY <3>3 DEF UndoneByLater
    <3>5. g.timestamp < f.timestamp
      BY <1>7, <3>1, <3>4 DEF About
    <3> QED
      BY <1>2, <3>4, <3>5
  <2> QED
    BY <1>2, <2>1, <2>2, <2>3
<1>13. OneRequestPerTimestamp'
  <2> SUFFICES ASSUME NEW e \in outbox', NEW f \in outbox',
                      e.userId = f.userId, e.timestamp = f.timestamp
               PROVE  e.request = f.request
    BY DEF OneRequestPerTimestamp
  <2>1. CASE e \in outbox /\ f \in outbox
    BY <2>1 DEF History, OneRequestPerTimestamp
  <2>2. CASE e \in New /\ f \in New
    BY <1>5, <2>2
  <2>3. CASE e \in outbox /\ f \in New
    BY <1>1, <1>5, <1>7, <2>3
  <2>4. CASE e \in New /\ f \in outbox
    BY <1>1, <1>5, <1>7, <2>4
  <2> QED
    BY <1>2, <2>1, <2>2, <2>3, <2>4
<1> QED
  BY <1>10, <1>11, <1>12, <1>13

LEMMA CommitHistory ==
    ASSUME TypeInv, LockOwned, WritesFollowControl, ReadsStayValid, History,
           NEW r \in Requests, Commit(r) \/ CommitUnacked(r)
    PROVE  History'
<1> DEFINE u == cmd[r].userId
           t == cmd[r].timestamp
<1>1. /\ pc[r] = "committing" /\ ApplyWrites(r) /\ cmd' = cmd
      /\ cmd[r] \in Command /\ u \in Users /\ t \in Nat
  BY StateTypes DEF Commit, CommitUnacked, ApplyWrites, TypeInv, CommandKnown,
                    InFlight, InTransaction, Holding, Command
<1>2. PICK l \in {"done", "failed"} : Goto(r, l)
  BY DEF Commit, CommitUnacked
<1>3. /\ pc'[r] \in {"done", "failed"}
      /\ pc'[r] = "done" => transitions' = transitions
      /\ \A q \in Requests \ {r} : /\ pc'[q] = pc[q]
                                   /\ transitions'[q] = transitions[q]
  BY DEF Commit, CommitUnacked, Goto, TypeInv, TypeOK
<1>4. \A e \in outbox : e.request \in Requests /\ e.request # r
  BY <1>1 DEF TypeInv, TypeOK, OutboxEvent, History, EventsAreTaken
<1>5. CASE ~Decided(r)
  <2>1. TablesUnchanged
    BY <1>1, <1>5, CommitEffect DEF History
  <2>2. transitions[r] = NoTransitions
    BY <1>1, <1>5 DEF WritesFollowControl
  <2>3. OutboxInputs(r, cmd[r], NoTransitions) = {}
    BY DEF OutboxInputs, NoTransitions, computeTransitions
  <2>4. EventsAreTaken' /\ EventsExplainRows'
    BY <1>1, <1>3, <1>4, <2>1
       DEF TablesUnchanged, History, EventsAreTaken, EventsExplainRows,
           UndoneByLater
  <2>5. EventsAlternate' /\ OneRequestPerTimestamp'
    BY <2>1 DEF TablesUnchanged, History, EventsAlternate,
                OneRequestPerTimestamp
  <2>6. EventsOfRequest'
    BY <1>1, <1>3, <1>4, <2>1, <2>2, <2>3
       DEF TablesUnchanged, History, EventsOfRequest
  <2>7. AnsweredIsAccountedFor'
    BY <1>1, <1>3, <1>5, <2>1
       DEF TablesUnchanged, History, AnsweredIsAccountedFor, ReadsStayValid,
           ReadsValid, HasNewerRow
  <2> QED
    BY <2>4, <2>5, <2>6, <2>7 DEF History
<1>6. CASE Decided(r)
  <2> DEFINE New == A!Events(r, u, seen[r], t)
  <2>1. A!Observe(r, u, seen[r], t)
    BY <1>1, <1>6, CommitEffect DEF History
  <2>2. outbox' = outbox \cup New
    BY <2>1 DEF A!Observe
  <2>3. \A e \in New : e.request = r
    BY <1>1, ObservedEvents DEF TypeInv, TypeOK
  <2>4. New = OutboxInputs(r, cmd[r], transitions[r])
    <3>1. transitions[r]
            = computeTransitions(Inside(userAreaState[cmd[r].userId]), seen[r])
      BY <1>1, <1>6 DEF ReadsStayValid, ReadsValid
    <3>2. A!Events(r, cmd[r].userId, seen[r], cmd[r].timestamp)
            = OutboxInputs(r, cmd[r], computeTransitions(
                             Inside(userAreaState[cmd[r].userId]), seen[r]))
      BY <1>1, SameEvents
    <3> QED
      BY <3>1, <3>2
  <2>5. /\ EventsAreTaken' /\ EventsExplainRows'
        /\ EventsAlternate' /\ OneRequestPerTimestamp'
    BY <1>1, <1>2, <2>1, ObserveHistory
  <2>6. EventsOfRequest'
    <3> HIDE DEF New
    <3> SUFFICES ASSUME NEW q \in Requests
                 PROVE  LET recorded == {e \in outbox' : e.request = q}
                        IN /\ pc'[q] = "done" => recorded =
                                OutboxInputs(q, cmd'[q], transitions'[q])
                           /\ pc'[q] \notin {"done", "failed"}
                                => recorded = {}
      BY DEF EventsOfRequest
    <3>1. CASE q = r
      <4>1. {e \in outbox' : e.request = q} = New
        BY <1>4, <2>2, <2>3, <3>1
      <4> QED
        BY <1>1, <1>3, <2>4, <3>1, <4>1
    <3>2. CASE q # r
      <4>1. {e \in outbox' : e.request = q} = {e \in outbox : e.request = q}
        BY <2>2, <2>3, <3>2
      <4> QED
        BY <1>1, <1>3, <3>2, <4>1 DEF History, EventsOfRequest
    <3> QED
      BY <3>1, <3>2
  <2>7. AnsweredIsAccountedFor'
    <3>1. /\ \A a \in Areas : userAreaState[u][a] < t
          /\ watermark[u] < t
          /\ watermark' = [watermark EXCEPT ![u] = t]
      BY <2>1 DEF A!Observe, A!Newer
    <3>2. userAreaState' = [userAreaState EXCEPT
                              ![u] = A!Membership(u, seen[r], t)]
      BY <2>1 DEF A!Observe
    <3> SUFFICES ASSUME NEW q \in Requests, pc'[q] = "done"
                 PROVE  \/ watermark'[cmd[q].userId] >= cmd[q].timestamp
                        \/ HasNewerRow(userAreaState'[cmd[q].userId],
                                       cmd[q].timestamp)
      BY <1>1 DEF AnsweredIsAccountedFor
    <3>3. watermark'[u] = t
      BY <1>1, <3>1 DEF TypeInv, TypeOK
    <3>4. CASE q = r
      BY <1>1, <3>3, <3>4
    <3>5. CASE q # r
      <4>1. /\ cmd[q] \in Command /\ cmd[q].userId \in Users
            /\ cmd[q].timestamp \in Nat /\ pc[q] = "done"
        BY <1>3, <3>5, StateTypes DEF TypeInv, CommandKnown, Command
      <4>2. \/ watermark[cmd[q].userId] >= cmd[q].timestamp
            \/ HasNewerRow(userAreaState[cmd[q].userId], cmd[q].timestamp)
        BY <4>1 DEF History, AnsweredIsAccountedFor
      <4>3. CASE cmd[q].userId # u
        <5>1. /\ watermark'[cmd[q].userId] = watermark[cmd[q].userId]
              /\ userAreaState'[cmd[q].userId] = userAreaState[cmd[q].userId]
          BY <1>1, <3>1, <3>2, <4>1, <4>3 DEF TypeInv, TypeOK
        <5> QED
          BY <4>2, <5>1
      <4>4. CASE cmd[q].userId = u
        <5>1. t >= cmd[q].timestamp
          <6>1. CASE watermark[u] >= cmd[q].timestamp
            <7>1. watermark[u] \in Nat
              BY <1>1, StateTypes DEF TypeInv
            <7> HIDE DEF t
            <7> QED
              BY <1>1, <3>1, <4>1, <6>1, <7>1
          <6>2. CASE HasNewerRow(userAreaState[u], cmd[q].timestamp)
            <7>1. userAreaState[u] \in [Areas -> Nat]
              BY <1>1, StateTypes DEF TypeInv
            <7>2. PICK a \in Areas : userAreaState[u][a] >= cmd[q].timestamp
              BY <6>2, <7>1 DEF HasNewerRow, Inside
            <7> HIDE DEF t
            <7> QED
              BY <1>1, <3>1, <4>1, <7>1, <7>2
          <6> QED
            BY <4>2, <4>4, <6>1, <6>2
        <5> QED
          BY <3>3, <4>4, <5>1
      <4> QED
        BY <4>3, <4>4
    <3> QED
      BY <3>4, <3>5
  <2> QED
    BY <2>5, <2>6, <2>7 DEF History
<1> QED
  BY <1>5, <1>6

-----------------------------------------------------------------------------
(***************************************************************************)
(* What a transaction has read stays valid: its own steps establish it,    *)
(* and a commit of another request concerns another user.                  *)
(***************************************************************************)
\* A request whose control, reads and tables are untouched stays valid.
LEMMA UntouchedReads ==
    ASSUME NEW q \in Requests, ReadsValid(q),
           pc'[q] = pc[q], cmd'[q] = cmd[q], seen'[q] = seen[q],
           transitions'[q] = transitions[q], writes'[q] = writes[q],
           pc[q] \in Holding =>
             /\ watermark'[cmd[q].userId] = watermark[cmd[q].userId]
             /\ userAreaState'[cmd[q].userId] = userAreaState[cmd[q].userId]
    PROVE  ReadsValid(q)'
<1>1. CASE pc[q] \in Holding
  BY <1>1 DEF ReadsValid, Decided, HasNewerRow, Inside
<1>2. CASE pc[q] \notin Holding
  BY <1>2 DEF ReadsValid, Decided, Holding
<1> QED
  BY <1>1, <1>2

LEMMA NextReadsStayValid ==
    ASSUME TypeInv, LockOwned, WritesFollowControl, ReadsStayValid, History,
           [Next]_vars
    PROVE  ReadsStayValid'
<1> SUFFICES ASSUME NEW q \in Requests PROVE ReadsValid(q)'
    BY DEF ReadsStayValid
<1> USE DEF Goto, tables, requests
<1>1. ReadsValid(q)
  BY DEF ReadsStayValid
<1>2. ASSUME NEW a \in Areas, CreateArea(a) PROVE ReadsValid(q)'
  BY <1>1, <1>2, UntouchedReads DEF CreateArea
<1>3. ASSUME NEW r \in Requests,
             \/ Receive(r) \/ Reject(r) \/ findContainingAreaIds(r)
             \/ BeginTransaction(r) \/ AcquireLock(r)
      PROVE  ReadsValid(q)'
  <2>1. CASE q = r
    BY <1>3, <2>1 DEF Receive, Reject, findContainingAreaIds, BeginTransaction,
         AcquireLock, TypeInv, TypeOK, ReadsValid, Decided
  <2>2. CASE q # r
    BY <1>1, <1>3, <2>2, UntouchedReads
       DEF Receive, Reject, findContainingAreaIds, BeginTransaction,
           AcquireLock, TypeInv, TypeOK
  <2> QED
    BY <2>1, <2>2
<1>4. ASSUME NEW r \in Requests, CheckWatermark(r) PROVE ReadsValid(q)'
  <2>1. CASE q = r
    <3> DEFINE u == cmd[r].userId
               t == cmd[r].timestamp
    <3>1. /\ pc[r] = "locked" /\ writes[r] = {}
          /\ UNCHANGED <<watermark, cmd, writes>>
      BY <1>4 DEF CheckWatermark, WritesFollowControl, Decided
    <3>2. u \in Users /\ t \in Nat /\ t # NoRow /\ watermark[u] \in Nat
      BY <3>1, StateTypes, StampAssumption
         DEF TypeInv, CommandKnown, InFlight, InTransaction, Holding, Command
    <3>3. CASE IsStale(watermark[u], t)
      <4>1. pc'[r] = "committing" /\ ~Decided(r)'
        BY <1>4, <3>1, <3>3 DEF CheckWatermark, TypeInv, TypeOK, Decided
      <4>2. watermark'[cmd'[r].userId] >= cmd'[r].timestamp
        BY <3>1, <3>3 DEF IsStale
      <4> QED
        BY <2>1, <4>1, <4>2 DEF ReadsValid
    <3>4. CASE ~IsStale(watermark[u], t)
      <4>1. pc'[r] = "loading" /\ ~Decided(r)'
        BY <1>4, <3>1, <3>4 DEF CheckWatermark, TypeInv, TypeOK, Decided
      <4>2. watermark[u] < t
        BY <3>2, <3>4 DEF IsStale, NoRow
      <4> QED
        BY <2>1, <3>1, <4>1, <4>2 DEF ReadsValid
    <3> QED
      BY <3>3, <3>4
  <2>2. CASE q # r
    BY <1>1, <1>4, <2>2, UntouchedReads DEF CheckWatermark, TypeInv, TypeOK
  <2> QED
    BY <2>1, <2>2
<1>5. ASSUME NEW r \in Requests, LoadInsideAreas(r) PROVE ReadsValid(q)'
  <2>1. CASE q = r
    <3> DEFINE u == cmd[r].userId
               t == cmd[r].timestamp
               rows == userAreaState[u]
               computed == computeTransitions(Inside(rows), seen[r])
    <3>1. /\ pc[r] = "loading" /\ writes[r] = {} /\ watermark[u] < t
          /\ UNCHANGED <<userAreaState, watermark, cmd, seen, writes>>
      BY <1>1, <1>5, <2>1
         DEF LoadInsideAreas, WritesFollowControl, Decided, ReadsValid
    <3>2. u \in Users /\ t \in Nat /\ t # NoRow /\ rows \in [Areas -> Nat]
      BY <3>1, StateTypes, StampAssumption
         DEF TypeInv, CommandKnown, InFlight, InTransaction, Holding, Command
    <3>3. CASE HasNewerRow(rows, t)
      <4>1. pc'[r] = "committing" /\ ~Decided(r)'
        BY <1>5, <3>1, <3>3 DEF LoadInsideAreas, TypeInv, TypeOK, Decided
      <4>2. HasNewerRow(userAreaState'[cmd'[r].userId], cmd'[r].timestamp)
        BY <3>1, <3>3
      <4> QED
        BY <2>1, <4>1, <4>2 DEF ReadsValid
    <3>4. CASE ~HasNewerRow(rows, t)
      <4>1. pc'[r] \in {"applying", "advancing"}
        BY <1>5, <3>4 DEF LoadInsideAreas, TypeInv, TypeOK
      <4>2. transitions'[r] = computed
        <5> HIDE DEF computed
        <5>1. transitions' = [transitions EXCEPT ![r] = computed]
          BY <1>5, <3>4 DEF LoadInsideAreas, computed
        <5> QED
          BY <5>1 DEF TypeInv, TypeOK
      <4>3. \A a \in Areas : rows[a] < t
        <5> HIDE DEF t, rows
        <5> QED
          BY <3>2, <3>4 DEF HasNewerRow, Inside, NoRow
      <4> QED
        BY <2>1, <3>1, <4>1, <4>2, <4>3 DEF ReadsValid, Decided
    <3> QED
      BY <3>3, <3>4
  <2>2. CASE q # r
    <3>1. PICK l \in {"committing", "applying", "advancing"} :
            pc' = [pc EXCEPT ![r] = l]
      BY <1>5 DEF LoadInsideAreas
    <3>2. transitions'[q] = transitions[q]
      BY <1>5, <2>2 DEF LoadInsideAreas, TypeInv, TypeOK
    <3>3. UNCHANGED <<userAreaState, watermark, cmd, seen, writes>>
      BY <1>5 DEF LoadInsideAreas
    <3> QED
      BY <1>1, <2>2, <3>1, <3>2, <3>3, UntouchedReads DEF TypeInv, TypeOK
  <2> QED
    BY <2>1, <2>2
<1>6. ASSUME NEW r \in Requests,
             ApplyState(r) \/ InsertBatch(r) \/ AdvanceWatermark(r)
      PROVE  ReadsValid(q)'
  <2>1. CASE q = r
    <3>1. PICK table \in {"state", "outbox", "watermark"} :
            writes' = [writes EXCEPT ![r] = @ \cup {table}]
      BY <1>6 DEF ApplyState, InsertBatch, AdvanceWatermark
    <3>2. /\ pc[r] \in {"applying", "inserting", "advancing"}
          /\ pc'[r] \in {"inserting", "advancing", "committing"}
          /\ UNCHANGED <<userAreaState, watermark, cmd, seen, transitions>>
      BY <1>6 DEF ApplyState, InsertBatch, AdvanceWatermark, TypeInv, TypeOK
    <3>3. Decided(r) /\ Decided(r)'
      BY <3>1, <3>2 DEF TypeInv, TypeOK, Decided
    <3> QED
      BY <1>1, <2>1, <3>2, <3>3 DEF ReadsValid
  <2>2. CASE q # r
    BY <1>1, <1>6, <2>2, UntouchedReads
       DEF ApplyState, InsertBatch, AdvanceWatermark, TypeInv, TypeOK
  <2> QED
    BY <2>1, <2>2
<1>7. ASSUME NEW r \in Requests, Commit(r) \/ CommitUnacked(r)
      PROVE  ReadsValid(q)'
  <2>1. CASE q = r
    BY <1>7, <2>1 DEF Commit, CommitUnacked, TypeInv, TypeOK, ReadsValid,
                      Decided
  <2>2. CASE q # r
    <3>1. /\ pc[r] = "committing" /\ ApplyWrites(r) /\ cmd' = cmd
          /\ pc'[q] = pc[q] /\ transitions'[q] = transitions[q]
      BY <1>7, <2>2 DEF Commit, CommitUnacked, ApplyWrites, TypeInv, TypeOK
    <3>2. seen'[q] = seen[q] /\ writes'[q] = writes[q]
      BY <2>2, <3>1 DEF ApplyWrites, TypeInv, TypeOK
    <3>3. ASSUME pc[q] \in Holding
          PROVE  /\ watermark'[cmd[q].userId] = watermark[cmd[q].userId]
                 /\ userAreaState'[cmd[q].userId]
                      = userAreaState[cmd[q].userId]
      <4>1. cmd[q].userId # cmd[r].userId /\ cmd[q].userId \in Users
        BY <2>2, <3>1, <3>3, OneTransactionPerUser
           DEF Holding, TypeInv, CommandKnown, InFlight, InTransaction,
               Command
      <4> QED
        BY <3>1, <4>1 DEF ApplyWrites, TypeInv, TypeOK
    <3> QED
      BY <1>1, <3>1, <3>2, <3>3, UntouchedReads
  <2> QED
    BY <2>1, <2>2
<1>8. ASSUME NEW r \in Requests, Fail(r) PROVE ReadsValid(q)'
  <2>1. CASE q = r
    BY <1>8, <2>1 DEF Fail, TypeInv, TypeOK, ReadsValid, Decided
  <2>2. CASE q # r
    BY <1>1, <1>8, <2>2, UntouchedReads DEF Fail, TypeInv, TypeOK
  <2> QED
    BY <2>1, <2>2
<1>9. CASE UNCHANGED vars
  BY <1>1, <1>9, UntouchedReads DEF vars
<1> QED
  BY <1>2, <1>3, <1>4, <1>5, <1>6, <1>7, <1>8, <1>9 DEF Next, Handle

-----------------------------------------------------------------------------
(***************************************************************************)
(* The inductive invariant.                                                *)
(***************************************************************************)
LEMMA InitIInv == Init => IInv
<1> SUFFICES ASSUME Init PROVE IInv
    OBVIOUS
<1>1. TypeOK /\ CommandKnown
  BY InitTypeInv DEF TypeInv
<1>2. LockOwned
  BY DEF Init, LockOwned, Holding
<1>3. WritesFollowControl
  BY DEF Init, WritesFollowControl, Decided
<1>4. ReadsStayValid
  BY DEF Init, ReadsStayValid, ReadsValid, Decided
<1>5. /\ EventsAreTaken /\ EventsExplainRows /\ EventsAlternate
      /\ OneRequestPerTimestamp
  BY DEF Init, EventsAreTaken, EventsExplainRows, EventsAlternate,
         OneRequestPerTimestamp
<1>6. EventsOfRequest /\ AnsweredIsAccountedFor
  BY DEF Init, EventsOfRequest, AnsweredIsAccountedFor
<1> QED
  BY <1>1, <1>2, <1>3, <1>4, <1>5, <1>6 DEF IInv

LEMMA NextIInv == IInv /\ [Next]_vars => IInv'
<1> SUFFICES ASSUME IInv, [Next]_vars PROVE IInv'
    OBVIOUS
<1>1. /\ TypeInv /\ LockOwned /\ WritesFollowControl
      /\ ReadsStayValid /\ History
  BY DEF IInv, TypeInv, History
<1>2. TypeInv'
  BY <1>1, NextTypeInv
<1>3. LockOwned'
  BY <1>1, NextLockOwned
<1>4. WritesFollowControl'
  BY <1>1, NextWritesFollowControl
<1>5. ReadsStayValid'
  BY <1>1, NextReadsStayValid
<1>6. History'
  BY <1>1, StepKinds, QuietHistory, CommitHistory
<1> QED
  BY <1>2, <1>3, <1>4, <1>5, <1>6 DEF IInv, TypeInv, History

(***************************************************************************)
(* The control of the handler, the lock and the history always agree.      *)
(***************************************************************************)
THEOREM Invariance == Spec => []IInv
BY InitIInv, NextIInv, PTL DEF Spec

(***************************************************************************)
(* No duplicate ENTER or EXIT, however the requests of a user interleave.  *)
(***************************************************************************)
THEOREM NoDuplicateTransition == Spec => []EventsAlternate
<1>1. IInv => EventsAlternate
  BY DEF IInv
<1> QED
  BY <1>1, Invariance, PTL

(***************************************************************************)
(* A replayed timestamp records no transition a second time.               *)
(***************************************************************************)
THEOREM ReplaysAreInert == Spec => []OneRequestPerTimestamp
<1>1. IInv => OneRequestPerTimestamp
  BY DEF IInv
<1> QED
  BY <1>1, Invariance, PTL

\* The areas of the outbox rows of a command are those of its transitions.
LEMMA OutboxAreas ==
    ASSUME NEW r, NEW c, NEW tr
    PROVE  LET recorded == OutboxInputs(r, c, tr)
           IN  /\ {e.areaId : e \in {f \in recorded : f.type = UserEnteredArea}}
                    = tr.enteredAreaIds
               /\ {e.areaId : e \in {f \in recorded : f.type = UserExitedArea}}
                    = tr.exitedAreaIds
<1> DEFINE recorded == OutboxInputs(r, c, tr)
           areasOf(type) ==
               {e.areaId : e \in {f \in recorded : f.type = type}}
<1>1. \A a, type : /\ DomainEvent(r, c, a, type).areaId = a
                   /\ DomainEvent(r, c, a, type).type = type
  BY DEF DomainEvent
<1>2. UserEnteredArea # UserExitedArea
  BY DEF UserEnteredArea, UserExitedArea
<1>3. \A e \in recorded :
         \/ \E a \in tr.enteredAreaIds : e = DomainEvent(r, c, a, UserEnteredArea)
         \/ \E a \in tr.exitedAreaIds : e = DomainEvent(r, c, a, UserExitedArea)
  BY DEF OutboxInputs
<1>4. /\ \A a \in tr.enteredAreaIds : DomainEvent(r, c, a, UserEnteredArea) \in recorded
      /\ \A a \in tr.exitedAreaIds : DomainEvent(r, c, a, UserExitedArea) \in recorded
  BY DEF OutboxInputs
<1> HIDE DEF recorded
<1>5. areasOf(UserEnteredArea) = tr.enteredAreaIds
  BY <1>1, <1>2, <1>3, <1>4
<1>6. areasOf(UserExitedArea) = tr.exitedAreaIds
  BY <1>1, <1>2, <1>3, <1>4
<1> QED
  BY <1>5, <1>6 DEF recorded

(***************************************************************************)
(* A response reports what was recorded; an unfinished request records     *)
(* nothing.                                                                *)
(***************************************************************************)
THEOREM ResponsesAreTrue == Spec => []ResponseMatchesOutbox
<1>1. ASSUME IInv PROVE ResponseMatchesOutbox
  <2> SUFFICES ASSUME NEW r \in Requests
               PROVE  /\ pc[r] = "done" =>
                           /\ Recorded(r, UserEnteredArea)
                                = transitions[r].enteredAreaIds
                           /\ Recorded(r, UserExitedArea)
                                = transitions[r].exitedAreaIds
                      /\ pc[r] \notin {"done", "failed"} =>
                           Recorded(r, UserEnteredArea)
                             \cup Recorded(r, UserExitedArea) = {}
    BY DEF ResponseMatchesOutbox
  <2> DEFINE recorded == {e \in outbox : e.request = r}
  <2>1. \A type : Recorded(r, type)
                     = {e.areaId : e \in {f \in recorded : f.type = type}}
    BY DEF Recorded
  <2>2. CASE pc[r] = "done"
    <3>1. recorded = OutboxInputs(r, cmd[r], transitions[r])
      BY <1>1, <2>2 DEF IInv, EventsOfRequest
    <3> HIDE DEF recorded
    <3>2. /\ {e.areaId : e \in {f \in recorded : f.type = UserEnteredArea}}
               = transitions[r].enteredAreaIds
          /\ {e.areaId : e \in {f \in recorded : f.type = UserExitedArea}}
               = transitions[r].exitedAreaIds
      BY <3>1, OutboxAreas
    <3> QED
      BY <2>1, <2>2, <3>2
  <2>3. CASE pc[r] \notin {"done", "failed"}
    <3>1. recorded = {}
      BY <1>1, <2>3 DEF IInv, EventsOfRequest
    <3> QED
      BY <2>1, <2>3, <3>1
  <2> QED
    BY <2>2, <2>3
<1> QED
  BY <1>1, Invariance, PTL

(***************************************************************************)
(* A location answered with 200 is never forgotten by the watermark.       *)
(***************************************************************************)
THEOREM NoAnswerForgotten == Spec => []AnsweredIsAccountedFor
<1>1. IInv => AnsweredIsAccountedFor
  BY DEF IInv
<1> QED
  BY <1>1, Invariance, PTL

(***************************************************************************)
(* The newest event of a user and an area tells whether the row exists.    *)
(***************************************************************************)
THEOREM OutboxTellsState == Spec => []MembershipMatchesEvents
<1>1. ASSUME IInv PROVE MembershipMatchesEvents
  <2> SUFFICES ASSUME NEW e \in outbox,
                      \A f \in outbox : About(f, e.userId, e.areaId)
                                           => f.timestamp <= e.timestamp
               PROVE  e.type = UserEnteredArea
                        <=> e.areaId \in Inside(userAreaState[e.userId])
    BY DEF MembershipMatchesEvents
  <2>1. \A f \in outbox : f.timestamp \in Nat
    BY <1>1, StateTypes DEF IInv, TypeOK, OutboxEvent
  <2>2. ~UndoneByLater(e)
    BY <2>1 DEF UndoneByLater
  <2>3. e.type = UserEnteredArea
          <=> userAreaState[e.userId][e.areaId] # NoRow
    BY <1>1, <2>2 DEF IInv, EventsExplainRows
  <2>4. e.areaId \in DOMAIN userAreaState[e.userId]
    BY <1>1 DEF IInv, TypeOK, OutboxEvent
  <2> QED
    BY <2>3, <2>4 DEF Inside
<1> QED
  BY <1>1, Invariance, PTL

-----------------------------------------------------------------------------
(***************************************************************************)
(* Refinement: every step changes no table or is one observation.          *)
(***************************************************************************)
LEMMA StepIsObservation ==
    ASSUME IInv, [Next]_vars
    PROVE  \/ TablesUnchanged
           \/ \E r \in Requests :
                /\ cmd[r] \in Command
                /\ seen[r] \in SUBSET Areas
                /\ A!Observe(r, cmd[r].userId, seen[r], cmd[r].timestamp)
<1>1. /\ TypeInv /\ WritesFollowControl /\ ReadsStayValid /\ EventsAreTaken
  BY DEF IInv, TypeInv
<1>2. CASE QuietStep
  BY <1>2 DEF QuietStep
<1>3. ASSUME NEW r \in Requests, Commit(r) \/ CommitUnacked(r)
      PROVE  \/ TablesUnchanged
             \/ /\ cmd[r] \in Command
                /\ seen[r] \in SUBSET Areas
                /\ A!Observe(r, cmd[r].userId, seen[r], cmd[r].timestamp)
  <2>1. pc[r] = "committing" /\ ApplyWrites(r)
    BY <1>3 DEF Commit, CommitUnacked
  <2>2. cmd[r] \in Command /\ seen[r] \in SUBSET Areas
    BY <1>1, <2>1 DEF TypeInv, TypeOK, CommandKnown, InFlight, InTransaction,
                      Holding
  <2> QED
    BY <1>1, <2>1, <2>2, CommitEffect
<1> QED
  BY <1>1, <1>2, <1>3, StepKinds

(***************************************************************************)
(* The service implements AreaTransitions: with all the interleavings,     *)
(* rollbacks and lost acknowledgements, its tables change as if the        *)
(* locations had been taken one at a time in timestamp order.              *)
(***************************************************************************)
THEOREM Refinement == Spec => ImplementsTransitions
<1>1. Init => A!Init
  BY DEF Init, A!Init, A!NoRow, NoRow
<1>2. IInv /\ [Next]_vars => [A!Next]_(A!vars)
  <2> SUFFICES ASSUME IInv, [Next]_vars PROVE [A!Next]_(A!vars)
      OBVIOUS
  <2>1. CASE TablesUnchanged
    BY <2>1 DEF TablesUnchanged, A!vars
  <2>2. ASSUME NEW r \in Requests, cmd[r] \in Command,
               seen[r] \in SUBSET Areas,
               A!Observe(r, cmd[r].userId, seen[r], cmd[r].timestamp)
        PROVE  A!Next
    <3>1. cmd[r].userId \in Users /\ cmd[r].timestamp \in Timestamps
      BY <2>2 DEF Command
    <3> QED
      BY <2>2, <3>1 DEF A!Next
  <2> QED
    BY <2>1, <2>2, StepIsObservation
<1> QED
  BY <1>1, <1>2, Invariance, PTL DEF Spec, A!Spec, ImplementsTransitions

(***************************************************************************)
(* Membership and outbox change together, in one step, and no event goes.  *)
(***************************************************************************)
THEOREM MembershipAndIntentTogether == Spec => DualWriteAtomic
<1>1. ASSUME IInv, [Next]_vars PROVE AtomicDualWrite \/ UNCHANGED vars
  <2>1. CASE TablesUnchanged
    <3>1. \A u, a : Added(u, a) = {}
      BY <2>1 DEF TablesUnchanged, Added
    <3>2. \A u, a : userAreaState'[u][a] = userAreaState[u][a]
      BY <2>1 DEF TablesUnchanged
    <3>3. outbox \subseteq outbox'
      BY <2>1 DEF TablesUnchanged
    <3> QED
      BY <3>1, <3>2, <3>3 DEF AtomicDualWrite
  <2>2. ASSUME NEW r \in Requests, cmd[r] \in Command,
               seen[r] \in SUBSET Areas,
               A!Observe(r, cmd[r].userId, seen[r], cmd[r].timestamp)
        PROVE  AtomicDualWrite
    <3> DEFINE v == cmd[r].userId
               t == cmd[r].timestamp
               current == seen[r]
               New == A!Events(r, v, current, t)
    <3>1. v \in Users /\ TypeOK /\ t # NoRow
      BY <1>1, <2>2, StampAssumption DEF Command, IInv
    <3>2. outbox' = outbox \cup New
      BY <2>2 DEF A!Observe
    <3>3. \A e \in New : e.request = r
      BY <2>2, <3>1, ObservedEvents
    <3>4. New \cap outbox = {}
      BY <2>2, <3>3 DEF A!Observe
    <3>5. userAreaState' = [userAreaState EXCEPT
                              ![v] = A!Membership(v, current, t)]
      BY <2>2 DEF A!Observe
    <3>6. \A a \in Areas : userAreaState'[v][a] # NoRow <=> a \in current
      <4>1. userAreaState'[v] = A!Membership(v, current, t)
        BY <3>1, <3>5 DEF TypeOK
      <4> QED
        BY <3>1, <4>1 DEF A!Membership, A!NoRow, NoRow
    <3>7. \A u \in Users, a \in Areas :
            Added(u, a) = {e \in New : About(e, u, a)}
      BY <3>2, <3>4 DEF Added
    <3> SUFFICES ASSUME NEW u \in Users, NEW a \in Areas
                 PROVE  LET before == userAreaState[u][a] # NoRow
                            after  == userAreaState'[u][a] # NoRow
                        IN  CASE ~before /\ after ->
                                   {e.type : e \in Added(u, a)}
                                     = {UserEnteredArea}
                              [] before /\ ~after ->
                                   {e.type : e \in Added(u, a)}
                                     = {UserExitedArea}
                              [] OTHER -> Added(u, a) = {}
      BY <3>2 DEF AtomicDualWrite
    <3> HIDE DEF New, v, t, current
    <3>8. \A e \in New :
            /\ e.userId = v
            /\ \/ /\ e.type = UserEnteredArea
                  /\ e.areaId \in current
                  /\ userAreaState[v][e.areaId] = NoRow
               \/ /\ e.type = UserExitedArea
                  /\ e.areaId \notin current
                  /\ userAreaState[v][e.areaId] # NoRow
      BY <2>2, <3>1, ObservedEvents DEF New, v, t, current
    <3>9. CASE u # v
      <4>1. Added(u, a) = {}
        BY <3>7, <3>8, <3>9 DEF About
      <4>2. userAreaState'[u][a] = userAreaState[u][a]
        BY <3>1, <3>5, <3>9 DEF TypeOK
      <4> QED
        BY <4>1, <4>2
    <3>10. CASE u = v /\ (a \in current) # (userAreaState[u][a] # NoRow)
      <4>1. PICK g \in New :
              /\ About(g, u, a)
              /\ g.type = IF a \in current THEN UserEnteredArea
                                           ELSE UserExitedArea
        BY <2>2, <3>1, <3>10, ChangedRowHasEvent DEF New, v, t, current
      <4>2. g \in Added(u, a)
        BY <3>7, <4>1
      <4>3. \A e \in Added(u, a) : e.type = g.type
        BY <3>7, <3>8, <3>10, <4>1 DEF About
      <4>4. {e.type : e \in Added(u, a)} = {g.type}
        BY <4>2, <4>3
      <4>5. userAreaState'[u][a] # NoRow <=> a \in current
        BY <3>6, <3>10
      <4>6. CASE a \in current
        BY <3>10, <4>1, <4>4, <4>5, <4>6
      <4>7. CASE a \notin current
        BY <3>10, <4>1, <4>4, <4>5, <4>7
      <4> QED
        BY <4>6, <4>7
    <3>11. CASE u = v /\ (a \in current) = (userAreaState[u][a] # NoRow)
      <4>1. Added(u, a) = {}
        BY <3>7, <3>8, <3>11 DEF About
      <4>2. userAreaState'[u][a] # NoRow <=> userAreaState[u][a] # NoRow
        BY <3>6, <3>11
      <4> QED
        BY <4>1, <4>2
    <3> QED
      BY <3>9, <3>10, <3>11
  <2> QED
    BY <1>1, <2>1, <2>2, StepIsObservation
<1>2. IInv /\ [Next]_vars => [AtomicDualWrite]_vars
  BY <1>1
<1> QED
  BY <1>2, Invariance, PTL DEF Spec, DualWriteAtomic
=============================================================================
