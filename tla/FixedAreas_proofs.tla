--------------------------- MODULE FixedAreas_proofs ---------------------------
(***************************************************************************)
(* Proofs about location processing while no area is created: then what a  *)
(* request found before it took the lock is still true when it commits.    *)
(***************************************************************************)
EXTENDS LocationProcessing_proofs

LEMMA FixedTypes ==
    FixedAreasInv => TypeInv /\ WritesFollowControl /\ ReadsStayValid
                             /\ EventsAreTaken
BY DEF FixedAreasInv, IInv, TypeInv

LEMMA InitFixed == FixedAreasInit => FixedAreasInv
<1> SUFFICES ASSUME FixedAreasInit PROVE FixedAreasInv
    OBVIOUS
<1>1. IInv
  BY InitIInv DEF FixedAreasInit
<1> QED
  BY <1>1 DEF FixedAreasInit, FixedAreasInv, Init, SeenIsCurrent,
              InTransaction, Holding, MembershipIsNewestLocation,
              ExitMeansOutside

\* All areas exist already, so none is created.
LEMMA NoCreation ==
    ASSUME FixedAreasInv, [Next]_vars
    PROVE  areas' = areas
BY DEF FixedAreasInv, Next, Handle, vars, tables, CreateArea, Receive, Reject,
       findContainingAreaIds, BeginTransaction, AcquireLock, CheckWatermark,
       LoadInsideAreas, ApplyState, InsertBatch, AdvanceWatermark, Commit,
       CommitUnacked, ApplyWrites, Fail

(***************************************************************************)
(* The answer of the spatial query does not grow stale.                    *)
(***************************************************************************)
LEMMA NextSeenIsCurrent ==
    ASSUME FixedAreasInv, [Next]_vars
    PROVE  SeenIsCurrent'
<1> USE DEF SeenIsCurrent, InTransaction, Holding
<1>1. /\ TypeOK /\ SeenIsCurrent /\ areas = Areas
  BY DEF FixedAreasInv, IInv
<1>2. ASSUME NEW a \in Areas, CreateArea(a) PROVE SeenIsCurrent'
  BY <1>1, <1>2 DEF CreateArea
<1>3. ASSUME NEW r \in Requests, Receive(r) \/ Reject(r)
      PROVE  SeenIsCurrent'
  BY <1>1, <1>3 DEF Receive, Reject, Goto, TypeOK
<1>4. ASSUME NEW r \in Requests, findContainingAreaIds(r)
      PROVE  SeenIsCurrent'
  BY <1>1, <1>4 DEF findContainingAreaIds, Goto, TypeOK
<1>5. ASSUME NEW r \in Requests,
             \/ BeginTransaction(r) \/ AcquireLock(r) \/ CheckWatermark(r)
             \/ ApplyState(r) \/ InsertBatch(r) \/ AdvanceWatermark(r)
      PROVE  SeenIsCurrent'
  BY <1>1, <1>5 DEF BeginTransaction, AcquireLock, CheckWatermark, ApplyState,
                    InsertBatch, AdvanceWatermark, Goto, TypeOK
<1>6. ASSUME NEW r \in Requests, LoadInsideAreas(r) PROVE SeenIsCurrent'
  <2>1. PICK l : pc' = [pc EXCEPT ![r] = l]
    BY <1>6 DEF LoadInsideAreas, Goto
  <2>2. pc[r] = "loading" /\ seen' = seen /\ cmd' = cmd
    BY <1>6 DEF LoadInsideAreas
  <2> QED
    BY <1>1, <2>1, <2>2 DEF TypeOK
<1>7. ASSUME NEW r \in Requests, Commit(r) \/ CommitUnacked(r) \/ Fail(r)
      PROVE  SeenIsCurrent'
  BY <1>1, <1>7 DEF Commit, CommitUnacked, ApplyWrites, Fail, Goto, TypeOK
<1>8. CASE UNCHANGED vars
  BY <1>1, <1>8 DEF vars
<1> QED
  BY <1>2, <1>3, <1>4, <1>5, <1>6, <1>7, <1>8 DEF Next, Handle

(***************************************************************************)
(* A step that changes no table keeps both properties.                     *)
(***************************************************************************)
LEMMA QuietKeepsBoth ==
    ASSUME FixedAreasInv, areas' = areas, TablesUnchanged,
           \A q \in Requests :
               pc[q] \in {"done", "failed"} =>
                   pc'[q] \in {"done", "failed"} /\ cmd'[q] = cmd[q]
    PROVE  MembershipIsNewestLocation' /\ ExitMeansOutside'
<1>1. MembershipIsNewestLocation'
  BY DEF FixedAreasInv, MembershipIsNewestLocation, TablesUnchanged
<1>2. ASSUME NEW e \in outbox', e.type = UserExitedArea
      PROVE  e.areaId \notin Covers[cmd'[e.request].point]
  <2>1. e \in outbox /\ e.request \in Requests
    BY <1>2 DEF FixedAreasInv, IInv, TypeOK, OutboxEvent, TablesUnchanged
  <2>2. pc[e.request] \in {"done", "failed"}
    BY <2>1 DEF FixedAreasInv, IInv, EventsAreTaken
  <2> QED
    BY <1>2, <2>1, <2>2 DEF FixedAreasInv, ExitMeansOutside
<1> QED
  BY <1>1, <1>2 DEF ExitMeansOutside

(***************************************************************************)
(* A commit that takes a location makes the membership the areas around    *)
(* its point.                                                              *)
(***************************************************************************)
LEMMA ObserveKeepsBoth ==
    ASSUME FixedAreasInv, areas' = areas, NEW r \in Requests,
           pc[r] = "committing", cmd' = cmd,
           NEW l \in {"done", "failed"}, Goto(r, l),
           A!Observe(r, cmd[r].userId, seen[r], cmd[r].timestamp)
    PROVE  MembershipIsNewestLocation' /\ ExitMeansOutside'
<1> DEFINE u == cmd[r].userId
           t == cmd[r].timestamp
<1>1. TypeOK /\ cmd[r] \in Command /\ u \in Users
  BY DEF FixedAreasInv, IInv, CommandKnown, InFlight, InTransaction, Holding,
         Command
<1>2. t # NoRow
  BY <1>1, StampAssumption DEF Command
<1>3. seen[r] = Areas \cap Covers[cmd[r].point]
  BY DEF FixedAreasInv, SeenIsCurrent, InTransaction, Holding
<1>4. pc'[r] = l /\ \A q \in Requests \ {r} : pc'[q] = pc[q]
  BY <1>1 DEF Goto, TypeOK
<1>5. MembershipIsNewestLocation'
  <2>1. userAreaState'[u] = A!Membership(u, seen[r], t)
    BY <1>1 DEF A!Observe, TypeOK
  <2>2. Inside(userAreaState'[u]) = seen[r]
    BY <1>2, <1>3, <2>1 DEF A!Membership, A!NoRow, NoRow, Inside
  <2>3. watermark'[u] = t
    BY <1>1 DEF A!Observe, TypeOK
  <2>4. \A v \in Users \ {u} : /\ watermark'[v] = watermark[v]
                               /\ userAreaState'[v] = userAreaState[v]
    BY <1>1 DEF A!Observe, TypeOK
  <2>5. ASSUME NEW v \in Users, watermark'[v] # NoRow
        PROVE  \E q \in Requests :
                 /\ pc'[q] \in {"done", "failed"}
                 /\ cmd'[q] # NoCommand
                 /\ cmd'[q].userId = v
                 /\ cmd'[q].timestamp = watermark'[v]
                 /\ Inside(userAreaState'[v]) = areas' \cap Covers[cmd'[q].point]
    <3>1. CASE v = u
      <4>1. cmd[r] # NoCommand
        BY <1>1, CommandAssumption DEF Command
      <4> QED
        BY <1>3, <1>4, <2>2, <2>3, <3>1, <4>1 DEF FixedAreasInv
    <3>2. CASE v # u
      <4>1. PICK q \in Requests :
                 /\ pc[q] \in {"done", "failed"}
                 /\ cmd[q] # NoCommand
                 /\ cmd[q].userId = v
                 /\ cmd[q].timestamp = watermark[v]
                 /\ Inside(userAreaState[v]) = areas \cap Covers[cmd[q].point]
        BY <2>4, <2>5, <3>2 DEF FixedAreasInv, MembershipIsNewestLocation
      <4>2. pc'[q] \in {"done", "failed"}
        BY <1>4, <4>1
      <4> QED
        BY <2>4, <3>2, <4>1, <4>2
    <3> QED
      BY <3>1, <3>2
  <2> QED
    BY <2>5 DEF MembershipIsNewestLocation
<1>6. ExitMeansOutside'
  <2> SUFFICES ASSUME NEW e \in outbox', e.type = UserExitedArea
               PROVE  e.areaId \notin Covers[cmd[e.request].point]
    BY DEF ExitMeansOutside
  <2>1. CASE e \in outbox
    BY <2>1 DEF FixedAreasInv, ExitMeansOutside
  <2>2. CASE e \in A!Events(r, u, seen[r], t)
    <3>1. /\ e.request = r /\ e.areaId \in Areas
          /\ e.type = UserEnteredArea \/ e.areaId \notin seen[r]
      BY <1>1, <1>3, <2>2, ObservedEvents
    <3> QED
      BY <1>3, <3>1 DEF UserEnteredArea, UserExitedArea
  <2> QED
    BY <2>1, <2>2 DEF A!Observe
<1> QED
  BY <1>5, <1>6

LEMMA NextFixed == FixedAreasInv /\ [Next]_vars => FixedAreasInv'
<1> SUFFICES ASSUME FixedAreasInv, [Next]_vars PROVE FixedAreasInv'
    OBVIOUS
<1>1. IInv'
  BY NextIInv DEF FixedAreasInv
<1>2. areas' = areas
  BY NoCreation
<1>3. MembershipIsNewestLocation' /\ ExitMeansOutside'
  <2>1. CASE QuietStep
    BY <1>2, <2>1, QuietKeepsBoth DEF QuietStep
  <2>2. ASSUME NEW r \in Requests, Commit(r) \/ CommitUnacked(r)
        PROVE  MembershipIsNewestLocation' /\ ExitMeansOutside'
    <3>1. pc[r] = "committing" /\ ApplyWrites(r) /\ cmd' = cmd
      BY <2>2 DEF Commit, CommitUnacked, ApplyWrites
    <3>2. PICK l \in {"done", "failed"} : Goto(r, l)
      BY <2>2 DEF Commit, CommitUnacked
    <3>3. \A q \in Requests :
            pc[q] \in {"done", "failed"} => pc'[q] \in {"done", "failed"}
      BY <3>2 DEF Goto, FixedAreasInv, IInv, TypeOK
    <3>4. CASE TablesUnchanged
      BY <1>2, <3>1, <3>3, <3>4, QuietKeepsBoth
    <3>5. CASE A!Observe(r, cmd[r].userId, seen[r], cmd[r].timestamp)
      BY <1>2, <3>1, <3>2, <3>5, ObserveKeepsBoth
    <3> QED
      BY <3>1, <3>4, <3>5, FixedTypes, CommitEffect
  <2> QED
    BY <2>1, <2>2, FixedTypes, StepKinds
<1> QED
  BY <1>1, <1>2, <1>3, NextSeenIsCurrent DEF FixedAreasInv

THEOREM FixedInvariance == FixedAreasSpec => []FixedAreasInv
<1> QED
  BY InitFixed, NextFixed, PTL DEF FixedAreasSpec

(***************************************************************************)
(* While no area is created, a user's membership is what PostGIS says of   *)
(* the newest location taken, in whatever order the requests arrived, got  *)
(* the lock and failed.                                                    *)
(***************************************************************************)
THEOREM NewestLocationCounts == FixedAreasSpec => []MembershipIsNewestLocation
<1>1. FixedAreasInv => MembershipIsNewestLocation
  BY DEF FixedAreasInv
<1> QED
  BY <1>1, FixedInvariance, PTL

(***************************************************************************)
(* And no EXIT is recorded from an area that contains the reported point:  *)
(* only an area that is created meanwhile makes that possible.             *)
(***************************************************************************)
THEOREM ExitsAreTrue == FixedAreasSpec => []ExitMeansOutside
<1>1. FixedAreasInv => ExitMeansOutside
  BY DEF FixedAreasInv
<1> QED
  BY <1>1, FixedInvariance, PTL
=============================================================================
