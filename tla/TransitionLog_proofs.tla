------------------------- MODULE TransitionLog_proofs -------------------------
(***************************************************************************)
(* Proofs about what a reader of the log learns in GeofencePipeline, for   *)
(* any number of users, areas, requests and timestamps.  Only the steps    *)
(* that take a location matter; how the events got to the log does not,    *)
(* because the log is read in the order of their timestamps.               *)
(***************************************************************************)
EXTENDS GeofencePipeline, FiniteSetTheorems, TLAPS

-----------------------------------------------------------------------------
(***************************************************************************)
(* The invariant: what the recorded events say of the past and of the      *)
(* membership rows.                                                        *)
(***************************************************************************)
Types ==
    /\ userAreaState \in [Users -> [Areas -> Nat]]
    /\ watermark \in [Users -> Nat]

Row(e) == userAreaState[e.userId][e.areaId]

\* An event is about a user and an area, and not newer than the watermark.
EventsAreTaken ==
    \A e \in outbox :
        /\ e.request \in Requests /\ e.userId \in Users /\ e.areaId \in Areas
        /\ e.type \in {L!UserEnteredArea, L!UserExitedArea}
        /\ e.timestamp \in Nat /\ e.timestamp <= watermark[e.userId]

EventIdsUnique ==
    \A e, f \in outbox : EventId(e) = EventId(f) => e = f

\* One location makes one event per area, and no two have one timestamp.
TimesDiffer ==
    \A e, f \in outbox :
        SameSubject(e, f) /\ e.timestamp = f.timestamp => e = f

\* An event that the membership row contradicts was undone by a later one.
EventsExplainRows ==
    \A e \in outbox :
        (e.type = L!UserEnteredArea <=> Row(e) = 0)
        => \E g \in outbox : /\ SameSubject(e, g) /\ g.type # e.type
                             /\ e.timestamp < g.timestamp

\* Between two events of one type there is one of the other type.
EventsAlternate ==
    \A e, f \in outbox :
        SameSubject(e, f) /\ e.type = f.type /\ e.timestamp < f.timestamp
        => \E g \in outbox : /\ SameSubject(e, g) /\ g.type # e.type
                             /\ e.timestamp < g.timestamp
                             /\ g.timestamp < f.timestamp

\* An event newer than all others says whether there is a row.
History ==
    /\ Types
    /\ EventsAreTaken
    /\ EventIdsUnique
    /\ TimesDiffer
    /\ EventsExplainRows
    /\ EventsAlternate

LEMMA InitHistory == Init => History
<1> SUFFICES ASSUME Init PROVE History
    OBVIOUS
<1>1. L!Init
  BY DEF Init
<1>2. Types
  <2>1. userAreaState \in [Users -> [Areas -> LegacyStamps \cup {0}]]
    BY <1>1 DEF L!Init, L!NoRow
  <2>2. LegacyStamps \cup {0} \subseteq Nat
    BY StampAssumption
  <2>3. [Areas -> LegacyStamps \cup {0}] \subseteq [Areas -> Nat]
    BY <2>2
  <2>4. watermark \in [Users -> Nat]
    BY <1>1 DEF L!Init, L!NoRow
  <2> QED
    BY <2>1, <2>3, <2>4 DEF Types
<1>3. outbox = {}
  BY <1>1 DEF L!Init
<1> QED
  BY <1>2, <1>3 DEF History, EventsAreTaken, EventIdsUnique, TimesDiffer,
                    EventsExplainRows, EventsAlternate

-----------------------------------------------------------------------------
(***************************************************************************)
(* The events of one location.                                             *)
(***************************************************************************)
LEMMA ObservedEvents ==
    ASSUME Types, NEW r \in Requests, NEW u \in Users, NEW t,
           NEW inside \in SUBSET Areas, NEW e \in L!Events(r, u, inside, t)
    PROVE  /\ e = L!DomainEvent(r, [userId |-> u, timestamp |-> t],
                                e.areaId, e.type)
           /\ e.request = r /\ e.userId = u /\ e.timestamp = t
           /\ e.areaId \in Areas
           /\ \/ /\ e.type = L!UserEnteredArea
                 /\ e.areaId \in inside /\ userAreaState[u][e.areaId] = 0
              \/ /\ e.type = L!UserExitedArea
                 /\ e.areaId \notin inside /\ userAreaState[u][e.areaId] # 0
BY DEF Types, L!Events, L!OutboxInputs, L!DomainEvent, L!computeTransitions,
       L!Inside, L!NoRow

\* A row that the location changes has its event.
LEMMA ChangedRowHasEvent ==
    ASSUME Types, NEW r \in Requests, NEW u \in Users, NEW t,
           NEW inside \in SUBSET Areas, NEW a \in Areas,
           (a \in inside) # (userAreaState[u][a] # 0)
    PROVE  \E g \in L!Events(r, u, inside, t) :
              g.areaId = a /\ g.userId = u /\ g.timestamp = t
<1> DEFINE event(type) ==
             L!DomainEvent(r, [userId |-> u, timestamp |-> t], a, type)
<1>1. userAreaState[u] \in [Areas -> Nat]
  BY DEF Types
<1>2. \/ event(L!UserEnteredArea) \in L!Events(r, u, inside, t)
      \/ event(L!UserExitedArea) \in L!Events(r, u, inside, t)
  BY <1>1 DEF L!Events, L!OutboxInputs, L!computeTransitions, L!Inside, L!NoRow
<1>3. \A type : /\ event(type).areaId = a
                /\ event(type).userId = u
                /\ event(type).timestamp = t
  BY DEF L!DomainEvent
<1> HIDE DEF event
<1> QED
  BY <1>2, <1>3

(***************************************************************************)
(* Taking a location keeps the invariant: its timestamp is above those of  *)
(* all the user's events, and its events are about the rows it changes.    *)
(***************************************************************************)
LEMMA ObserveKeepsHistory ==
    ASSUME History, NEW r \in Requests, NEW inside \in SUBSET Areas,
           NEW t \in Timestamps, L!Observe(r, sender[r], inside, t)
    PROVE  History'
<1> DEFINE u == sender[r]
           New == L!Events(r, u, inside, t)
<1>1. u \in Users /\ t \in Nat /\ t # 0
  BY RequestAssumption, StampAssumption
<1>2. /\ Types /\ EventsAreTaken /\ EventIdsUnique /\ TimesDiffer
      /\ EventsExplainRows /\ EventsAlternate
  BY DEF History
<1>3. /\ watermark[u] < t
      /\ \A e \in outbox : e.request # r
      /\ userAreaState' =
           [userAreaState EXCEPT ![u] = L!Membership(u, inside, t)]
      /\ watermark' = [watermark EXCEPT ![u] = t]
      /\ outbox' = outbox \cup New
  BY DEF L!Observe, L!Newer
<1>4. \A a \in Areas :
        L!Membership(u, inside, t)[a] =
          IF a \notin inside THEN 0
          ELSE IF userAreaState[u][a] = 0 THEN t ELSE userAreaState[u][a]
  BY DEF L!Membership, L!NoRow
<1>5. L!Membership(u, inside, t) \in [Areas -> Nat]
  BY <1>1, <1>2 DEF L!Membership, L!NoRow, Types
<1>6. Types'
  BY <1>1, <1>2, <1>3, <1>5 DEF Types
<1>7. /\ watermark'[u] = t
      /\ \A v \in Users : watermark[v] <= watermark'[v]
      /\ \A v \in Users : watermark[v] \in Nat /\ watermark'[v] \in Nat
  BY <1>1, <1>2, <1>3 DEF Types
<1>8. /\ \A v \in Users \ {u} : userAreaState'[v] = userAreaState[v]
      /\ \A a \in Areas : userAreaState'[u][a] # 0 <=> a \in inside
  BY <1>1, <1>2, <1>3, <1>4 DEF Types
<1>9. \A e \in New :
        /\ e = L!DomainEvent(r, [userId |-> u, timestamp |-> t],
                             e.areaId, e.type)
        /\ e.request = r /\ e.userId = u /\ e.timestamp = t
        /\ e.areaId \in Areas
        /\ \/ /\ e.type = L!UserEnteredArea
              /\ e.areaId \in inside /\ userAreaState[u][e.areaId] = 0
           \/ /\ e.type = L!UserExitedArea
              /\ e.areaId \notin inside /\ userAreaState[u][e.areaId] # 0
  BY <1>1, <1>2, ObservedEvents
<1>10. \A a \in Areas :
         (a \in inside) # (userAreaState[u][a] # 0)
           => \E g \in New : g.areaId = a /\ g.userId = u /\ g.timestamp = t
  BY <1>1, <1>2, ChangedRowHasEvent
<1>11. L!UserEnteredArea # L!UserExitedArea
  BY DEF L!UserEnteredArea, L!UserExitedArea
<1> HIDE DEF New, u
<1>12. \A e, f \in New : e.areaId = f.areaId => e = f
  BY <1>9, <1>11
<1>13. \A e \in outbox : e.userId = u => e.timestamp < t
  BY <1>1, <1>2, <1>3, <1>7 DEF EventsAreTaken
<1>14. EventsAreTaken'
  <2>1. \A e \in New : e.timestamp <= watermark'[e.userId]
    BY <1>1, <1>7, <1>9
  <2>2. \A e \in outbox : e.timestamp <= watermark'[e.userId]
    BY <1>2, <1>7 DEF EventsAreTaken
  <2> QED
    BY <1>1, <1>2, <1>3, <1>9, <2>1, <2>2 DEF EventsAreTaken
<1>15. EventIdsUnique'
  <2>1. \A e \in New, f \in outbox : EventId(e) # EventId(f)
    BY <1>3, <1>9 DEF EventId
  <2>2. \A e, f \in New : EventId(e) = EventId(f) => e = f
    BY <1>12 DEF EventId
  <2> QED
    BY <1>2, <1>3, <2>1, <2>2 DEF EventIdsUnique, EventId
<1>16. TimesDiffer'
  <2>1. \A e \in New, f \in outbox : e.userId = f.userId => f.timestamp < e.timestamp
    BY <1>9, <1>13
  <2>2. \A f \in outbox : f.timestamp \in Nat
    BY <1>2 DEF EventsAreTaken
  <2>3. \A e \in New, f \in outbox : SameSubject(e, f) => e.timestamp # f.timestamp
    BY <1>1, <1>9, <2>1, <2>2 DEF SameSubject
  <2> QED
    BY <1>2, <1>3, <1>12, <2>3 DEF TimesDiffer, SameSubject
<1>17. EventsExplainRows'
  <2> SUFFICES ASSUME NEW e \in outbox',
                      e.type = L!UserEnteredArea <=> Row(e)' = 0
               PROVE  \E g \in outbox' : /\ SameSubject(e, g) /\ g.type # e.type
                                         /\ e.timestamp < g.timestamp
    BY DEF EventsExplainRows, SameSubject
  <2>1. e \in outbox
    <3>1. CASE e \in New
      BY <1>8, <1>9, <1>11, <3>1 DEF Row
    <3> QED
      BY <1>3, <3>1
  <2>2. e.userId \in Users /\ e.areaId \in Areas
    BY <1>2, <2>1 DEF EventsAreTaken
  <2>3. CASE Row(e)' = 0 <=> Row(e) = 0
    BY <1>2, <1>3, <2>1, <2>3 DEF EventsExplainRows
  <2>4. CASE ~(Row(e)' = 0 <=> Row(e) = 0)
    <3>1. e.userId = u
      BY <1>8, <2>2, <2>4 DEF Row
    <3>2. (e.areaId \in inside) # (userAreaState[u][e.areaId] # 0)
      BY <1>8, <2>2, <2>4, <3>1 DEF Row
    <3>3. PICK g \in New : g.areaId = e.areaId /\ g.userId = u /\ g.timestamp = t
      BY <1>10, <2>2, <3>2
    <3>4. Row(e)' # 0 <=> e.areaId \in inside
      BY <1>8, <2>2, <3>1 DEF Row
    <3>5. g.type # e.type
      BY <1>9, <1>11, <3>3, <3>4
    <3> QED
      BY <1>3, <1>13, <2>1, <3>1, <3>3, <3>5 DEF SameSubject
  <2> QED
    BY <2>3, <2>4
<1>18. EventsAlternate'
  <2> SUFFICES ASSUME NEW e \in outbox', NEW f \in outbox',
                      SameSubject(e, f), e.type = f.type,
                      e.timestamp < f.timestamp
               PROVE  \E g \in outbox' : /\ SameSubject(e, g) /\ g.type # e.type
                                         /\ e.timestamp < g.timestamp
                                         /\ g.timestamp < f.timestamp
    BY DEF EventsAlternate, SameSubject
  <2>1. CASE e \in outbox /\ f \in outbox
    BY <1>2, <1>3, <2>1 DEF EventsAlternate
  <2>2. CASE e \in New
    <3>1. f \in New => f.timestamp = e.timestamp
      BY <1>9, <2>2
    <3>2. f \in outbox => f.timestamp < e.timestamp
      BY <1>9, <1>13, <2>2 DEF SameSubject
    <3>3. e.timestamp \in Nat /\ f.timestamp \in Nat
      BY <1>14 DEF EventsAreTaken
    <3> QED
      BY <1>3, <3>1, <3>2, <3>3
  <2>3. CASE e \in outbox /\ f \in New
    \* The row that f changes contradicts e, so e was undone already.
    <3>1. f.userId = u /\ e.userId = u /\ e.areaId = f.areaId /\ f.timestamp = t
      BY <1>9, <2>3 DEF SameSubject
    <3>2. e.type = L!UserEnteredArea <=> Row(e) = 0
      BY <1>9, <1>11, <2>3, <3>1 DEF Row
    <3>3. PICK g \in outbox : /\ SameSubject(e, g) /\ g.type # e.type
                             /\ e.timestamp < g.timestamp
      BY <1>2, <2>3, <3>2 DEF EventsExplainRows
    <3>4. g.timestamp < f.timestamp
      BY <1>13, <3>1, <3>3 DEF SameSubject
    <3> QED
      BY <1>3, <3>3, <3>4
  <2> QED
    BY <1>3, <2>1, <2>2, <2>3
<1> QED
  BY <1>6, <1>14, <1>15, <1>16, <1>17, <1>18 DEF History

LEMMA NextHistory == History /\ [Next]_vars => History'
<1> SUFFICES ASSUME History, [Next]_vars PROVE History'
    OBVIOUS
<1>1. CASE UNCHANGED locationVars
  BY <1>1 DEF locationVars, History, Types, EventsAreTaken, EventIdsUnique,
              TimesDiffer, EventsExplainRows, EventsAlternate, Row
<1>2. ASSUME NEW r \in Requests, NEW inside \in SUBSET Areas,
             NEW timestamp \in Timestamps, TakeLocation(r, inside, timestamp)
      PROVE  History'
  BY <1>2, ObserveKeepsHistory DEF TakeLocation
<1> QED
  BY <1>1, <1>2 DEF Next, Begin, IgnoreLocation, Dispatch, Consume, vars

-----------------------------------------------------------------------------
(***************************************************************************)
(* Reading the log.                                                        *)
(***************************************************************************)
LEMMA OutboxIsFinite ==
    ASSUME EventsAreTaken, EventIdsUnique
    PROVE  IsFiniteSet(outbox)
<1> DEFINE id == [e \in outbox |-> EventId(e)]
<1>1. IsFiniteSet(EventIds)
  BY RequestAssumption, FS_Product DEF EventIds
<1>2. id \in [outbox -> EventIds]
  BY DEF EventsAreTaken, EventId, EventIds
<1>3. id \in Injection(outbox, EventIds)
  BY <1>2 DEF EventIdsUnique, Injection, IsInjective
<1> QED
  BY <1>1, <1>3, FS_Injection

\* A sequence of the elements of a finite set, each once, has all of them.
LEMMA SequenceHasAll ==
    ASSUME NEW S, IsFiniteSet(S), NEW s \in SetToSeqs(S)
    PROVE  /\ DOMAIN s = 1 .. Cardinality(S) /\ Cardinality(S) \in Nat
           /\ \A i \in DOMAIN s : s[i] \in S
           /\ \A i, j \in DOMAIN s : i # j => s[i] # s[j]
           /\ \A x \in S : \E i \in DOMAIN s : s[i] = x
<1> DEFINE n == Cardinality(S)
<1>1. n \in Nat
  BY FS_CardinalityType
<1>2. /\ s \in [1 .. n -> S]
      /\ \A i, j \in 1 .. n : i # j => s[i] # s[j]
  BY DEF SetToSeqs
<1>3. s \in Injection(1 .. n, S)
  BY <1>2 DEF Injection, IsInjective
<1>4. Cardinality(1 .. n) = n
  BY <1>1, FS_Interval
<1>5. s \in Surjection(1 .. n, S)
  BY <1>3, <1>4, FS_Injection
<1>6. \A x \in S : \E i \in 1 .. n : s[i] = x
  BY <1>5 DEF Surjection
<1> QED
  BY <1>1, <1>2, <1>6

LEMMA HistoryTellsMembership == History => LogTellsMembership
<1> SUFFICES ASSUME History, Logged = outbox, NEW s \in findAll,
                    NEW i \in DOMAIN s
             PROVE  LET above == {j \in 1 .. i - 1 : SameSubject(s[j], s[i])}
                    IN  /\ above = {} =>
                             (s[i].type = L!UserEnteredArea
                                <=> s[i].areaId \in L!Inside(userAreaState[s[i].userId]))
                        /\ \A j \in above :
                             (\A k \in above : k <= j) => s[j].type # s[i].type
    BY DEF LogTellsMembership
<1> DEFINE e == s[i]
           above == {j \in 1 .. i - 1 : SameSubject(s[j], e)}
<1>1. /\ Types /\ EventsAreTaken /\ EventIdsUnique /\ TimesDiffer
      /\ EventsExplainRows /\ EventsAlternate
  BY DEF History
<1>2. /\ s \in SetToSeqs(outbox)
      /\ \A k, l \in DOMAIN s : k < l => s[k].timestamp >= s[l].timestamp
  BY DEF findAll
<1>3. /\ DOMAIN s = 1 .. Cardinality(outbox) /\ Cardinality(outbox) \in Nat
      /\ \A k \in DOMAIN s : s[k] \in outbox
      /\ \A k, l \in DOMAIN s : k # l => s[k] # s[l]
      /\ \A x \in outbox : \E k \in DOMAIN s : s[k] = x
  BY <1>1, <1>2, OutboxIsFinite, SequenceHasAll
<1>4. i \in Nat /\ \A j \in above : j \in DOMAIN s /\ j \in Nat /\ j < i
  BY <1>3
<1>5. e \in outbox /\ \A k \in DOMAIN s : s[k].timestamp \in Nat /\ k \in Nat
  BY <1>1, <1>3 DEF EventsAreTaken
\* A newer event about the same subject stands above e.
<1>6. ASSUME NEW g \in outbox, SameSubject(e, g), e.timestamp < g.timestamp
      PROVE  \E j \in above : s[j] = g
  <2>1. PICK j \in DOMAIN s : s[j] = g
    BY <1>3
  <2>2. ~(i <= j)
    BY <1>2, <1>5, <1>6, <2>1
  <2>3. j \in 1 .. i - 1
    BY <1>3, <2>2
  <2> QED
    BY <1>6, <2>1, <2>3 DEF SameSubject
<1>7. ASSUME above = {}
      PROVE  e.type = L!UserEnteredArea
               <=> e.areaId \in L!Inside(userAreaState[e.userId])
  <2>1. ~(e.type = L!UserEnteredArea <=> Row(e) = 0)
    BY <1>1, <1>5, <1>6, <1>7 DEF EventsExplainRows
  <2>2. e.userId \in Users /\ e.areaId \in Areas
    BY <1>1, <1>5 DEF EventsAreTaken
  <2>3. e.areaId \in L!Inside(userAreaState[e.userId]) <=> Row(e) # 0
    BY <1>1, <2>2 DEF Types, L!Inside, L!NoRow, Row
  <2> QED
    BY <2>1, <2>3
<1>8. ASSUME NEW j \in above, \A k \in above : k <= j, s[j].type = e.type
      PROVE  FALSE
  <2>1. /\ j \in DOMAIN s /\ j < i /\ s[j] \in outbox
        /\ SameSubject(e, s[j]) /\ s[j] # e
    BY <1>3, <1>4 DEF SameSubject
  <2>2. s[j].timestamp >= e.timestamp /\ s[j].timestamp # e.timestamp
    BY <1>1, <1>2, <1>5, <2>1 DEF TimesDiffer
  <2>3. e.timestamp < s[j].timestamp
    BY <1>5, <2>1, <2>2
  <2>4. PICK g \in outbox : /\ SameSubject(e, g)
                           /\ e.timestamp < g.timestamp
                           /\ g.timestamp < s[j].timestamp
    BY <1>1, <1>5, <1>8, <2>1, <2>3 DEF EventsAlternate
  <2>5. PICK k \in above : s[k] = g
    BY <1>6, <2>4
  <2>6. k <= j /\ k \in DOMAIN s
    BY <1>4, <1>8, <2>5
  <2>7. s[k].timestamp >= s[j].timestamp
    BY <1>2, <1>5, <2>1, <2>6
  <2> QED
    BY <1>5, <2>1, <2>4, <2>5, <2>6, <2>7
<1> QED
  BY <1>7, <1>8

(***************************************************************************)
(* Once all events are logged, GET /logs shows the membership of every     *)
(* user on top and alternating transitions below, in whatever order the    *)
(* outbox and Kafka delivered them.                                        *)
(***************************************************************************)
THEOREM LogTellsTheTruth == Spec => []LogTellsMembership
<1>1. Spec => []History
  BY InitHistory, NextHistory, PTL DEF Spec
<1> QED
  BY <1>1, HistoryTellsMembership, PTL
=============================================================================
