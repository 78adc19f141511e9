------------------------ MODULE GeofenceSystem_proofs ------------------------
(***************************************************************************)
(* Proofs about GeofenceSystem, for any number of requests, areas, users,  *)
(* pollers and consumers.  The proofs of LocationProcessing and of         *)
(* GeofencePipeline are used as they are: a step of the system is a step   *)
(* of the handlers or leaves them alone, and it is a step of the pipeline  *)
(* or leaves that alone.                                                   *)
(***************************************************************************)
EXTENDS GeofenceSystem, GeofencePipeline_proofs, TransitionLog_proofs

HP == INSTANCE LocationProcessing_proofs

\* What LocationProcessing assumes of its constants holds.
LEMMA HandlerAssumptions ==
    /\ Covers \in [Points -> SUBSET Areas]
    /\ hashtext \in [Users -> LockKeys]
    /\ NoRequest \notin Requests
    /\ NoCommand \notin [userId : Users, point : Points, timestamp : Timestamps]
    /\ Timestamps \subseteq Nat \ {HP!NoRow}
    /\ LegacyStamps \subseteq Nat \ {HP!NoRow}
    /\ PoolSize \in Nat \ {0}
BY HandlerAssumption, StampAssumption DEF HP!NoRow

-----------------------------------------------------------------------------
(***************************************************************************)
(* The definitions of LocationProcessing and of its proof module are the   *)
(* same.                                                                   *)
(***************************************************************************)
LEMMA SameOperators ==
    /\ H!NoRow = HP!NoRow
    /\ H!NoTransitions = HP!NoTransitions
    /\ \A rows : H!Inside(rows) = HP!Inside(rows)
    /\ \A S, T : H!computeTransitions(S, T) = HP!computeTransitions(S, T)
    /\ \A tr : H!hasTransitions(tr) <=> HP!hasTransitions(tr)
    /\ \A rows, t : H!HasNewerRow(rows, t) <=> HP!HasNewerRow(rows, t)
    /\ \A r, c, tr : H!OutboxInputs(r, c, tr) = HP!OutboxInputs(r, c, tr)
BY DEF H!NoRow, HP!NoRow, H!NoTransitions, HP!NoTransitions, H!Inside,
       HP!Inside, H!computeTransitions, HP!computeTransitions,
       H!hasTransitions, HP!hasTransitions, H!HasNewerRow, HP!HasNewerRow,
       H!OutboxInputs, HP!OutboxInputs, H!DomainEvent, HP!DomainEvent,
       H!UserEnteredArea, HP!UserEnteredArea, H!UserExitedArea,
       HP!UserExitedArea

LEMMA SameControl ==
    /\ H!Command = HP!Command
    /\ H!Holding = HP!Holding
    /\ H!InTransaction = HP!InTransaction
    /\ H!InFlight = HP!InFlight
    /\ \A r : H!Key(r) = HP!Key(r)
    /\ \A r : H!Decided(r) <=> HP!Decided(r)
    /\ \A r : H!StatementsOf(r) = HP!StatementsOf(r)
BY SameOperators
   DEF H!Command, HP!Command, H!Holding, HP!Holding, H!InTransaction,
       HP!InTransaction, H!InFlight, HP!InFlight, H!Key, HP!Key, H!Decided,
       HP!Decided, H!StatementsOf, HP!StatementsOf

LEMMA SameHandlerState ==
    /\ H!Init <=> HP!Init
    /\ H!IInv <=> HP!IInv
<1>1. H!Init <=> HP!Init
  BY SameOperators DEF H!Init, HP!Init
<1>2. H!TypeOK <=> HP!TypeOK
  BY SameOperators, SameControl
     DEF H!TypeOK, HP!TypeOK, H!Transitions, HP!Transitions, H!OutboxEvent,
         HP!OutboxEvent, H!UserEnteredArea, HP!UserEnteredArea,
         H!UserExitedArea, HP!UserExitedArea
<1>3. /\ H!CommandKnown <=> HP!CommandKnown
      /\ H!LockOwned <=> HP!LockOwned
  BY SameControl DEF H!CommandKnown, HP!CommandKnown, H!LockOwned, HP!LockOwned
<1>4. H!WritesFollowControl <=> HP!WritesFollowControl
  BY SameOperators, SameControl DEF H!WritesFollowControl, HP!WritesFollowControl
<1>5. H!ReadsStayValid <=> HP!ReadsStayValid
  BY SameOperators, SameControl
     DEF H!ReadsStayValid, HP!ReadsStayValid, H!ReadsValid, HP!ReadsValid
<1>6. /\ H!EventsAreTaken <=> HP!EventsAreTaken
      /\ H!OneRequestPerTimestamp <=> HP!OneRequestPerTimestamp
  BY SameControl DEF H!EventsAreTaken, HP!EventsAreTaken,
                     H!OneRequestPerTimestamp, HP!OneRequestPerTimestamp
<1>7. /\ H!EventsExplainRows <=> HP!EventsExplainRows
      /\ H!EventsAlternate <=> HP!EventsAlternate
  BY SameOperators
     DEF H!EventsExplainRows, HP!EventsExplainRows, H!UndoneByLater,
         HP!UndoneByLater, H!EventsAlternate, HP!EventsAlternate, H!About,
         HP!About, H!UserEnteredArea, HP!UserEnteredArea
<1>8. /\ H!EventsOfRequest <=> HP!EventsOfRequest
      /\ H!AnsweredIsAccountedFor <=> HP!AnsweredIsAccountedFor
  BY SameOperators
     DEF H!EventsOfRequest, HP!EventsOfRequest, H!AnsweredIsAccountedFor,
         HP!AnsweredIsAccountedFor
<1> QED
  BY <1>1, <1>2, <1>3, <1>4, <1>5, <1>6, <1>7, <1>8 DEF H!IInv, HP!IInv

LEMMA SameFreeConnection == H!FreeConnection <=> HP!FreeConnection
<1>1. \A S : H!Cardinality(S) = HP!Cardinality(S)
  BY DEF H!Cardinality, HP!Cardinality
<1> QED
  BY <1>1, SameControl DEF H!FreeConnection, HP!FreeConnection

LEMMA SameCommit ==
    ASSUME NEW r \in Requests, H!Commit(r) \/ H!CommitUnacked(r)
    PROVE  /\ HP!Commit(r) \/ HP!CommitUnacked(r)
           /\ HP!ApplyWrites(r)
<1>1. \A w, t : H!upsertWatermark(w, t) = HP!upsertWatermark(w, t)
  BY DEF H!upsertWatermark, HP!upsertWatermark
<1>2. \A rows, tr, t : H!applyStateChanges(rows, tr, t)
                         = HP!applyStateChanges(rows, tr, t)
  BY SameOperators
     DEF H!applyStateChanges, HP!applyStateChanges, H!UpsertEntered,
         HP!UpsertEntered, H!DeleteExited, HP!DeleteExited
<1>3. H!ApplyWrites(r) => HP!ApplyWrites(r)
  BY <1>1, <1>2, SameOperators
     DEF H!ApplyWrites, HP!ApplyWrites, H!Release, HP!Release
<1> QED
  BY <1>3, SameOperators
     DEF H!Commit, HP!Commit, H!CommitUnacked, HP!CommitUnacked, H!Goto,
         HP!Goto

LEMMA SameHandlerSteps ==
    ASSUME NEW r \in Requests
    PROVE  /\ H!Receive(r) => HP!Receive(r)
           /\ H!Reject(r) => HP!Reject(r)
           /\ H!findContainingAreaIds(r) => HP!findContainingAreaIds(r)
           /\ H!BeginTransaction(r) => HP!BeginTransaction(r)
           /\ H!AcquireLock(r) => HP!AcquireLock(r)
           /\ H!CheckWatermark(r) => HP!CheckWatermark(r)
           /\ H!LoadInsideAreas(r) => HP!LoadInsideAreas(r)
           /\ H!ApplyState(r) => HP!ApplyState(r)
           /\ H!InsertBatch(r) => HP!InsertBatch(r)
           /\ H!AdvanceWatermark(r) => HP!AdvanceWatermark(r)
           /\ H!Fail(r) => HP!Fail(r)
<1> USE DEF H!Goto, HP!Goto, H!tables, HP!tables
<1>1. /\ H!Receive(r) => HP!Receive(r)
      /\ H!Reject(r) => HP!Reject(r)
  BY SameControl DEF H!Receive, HP!Receive, H!Reject, HP!Reject
<1>2. /\ H!findContainingAreaIds(r) => HP!findContainingAreaIds(r)
      /\ H!BeginTransaction(r) => HP!BeginTransaction(r)
  BY SameFreeConnection
     DEF H!findContainingAreaIds, HP!findContainingAreaIds,
         H!BeginTransaction, HP!BeginTransaction
<1>3. H!AcquireLock(r) => HP!AcquireLock(r)
  BY SameControl DEF H!AcquireLock, HP!AcquireLock, H!LockAvailable,
                     HP!LockAvailable
<1>4. H!CheckWatermark(r) => HP!CheckWatermark(r)
  BY SameOperators DEF H!CheckWatermark, HP!CheckWatermark, H!IsStale,
                       HP!IsStale
<1>5. H!LoadInsideAreas(r) => HP!LoadInsideAreas(r)
  BY SameOperators DEF H!LoadInsideAreas, HP!LoadInsideAreas
<1>6. /\ H!ApplyState(r) => HP!ApplyState(r)
      /\ H!InsertBatch(r) => HP!InsertBatch(r)
      /\ H!AdvanceWatermark(r) => HP!AdvanceWatermark(r)
  BY DEF H!ApplyState, HP!ApplyState, H!InsertBatch, HP!InsertBatch,
         H!AdvanceWatermark, HP!AdvanceWatermark
<1>7. H!Fail(r) => HP!Fail(r)
  BY SameOperators, SameControl DEF H!Fail, HP!Fail, H!Release, HP!Release
<1> QED
  BY <1>1, <1>2, <1>3, <1>4, <1>5, <1>6, <1>7

LEMMA SameCreateArea ==
    ASSUME NEW a \in Areas, H!CreateArea(a)
    PROVE  HP!CreateArea(a)
BY DEF H!CreateArea, HP!CreateArea, H!requests, HP!requests

-----------------------------------------------------------------------------
(***************************************************************************)
(* Every step of the system is a step of the handlers, or leaves them      *)
(* alone.                                                                  *)
(***************************************************************************)
LEMMA HandlerSteps ==
    ASSUME [SystemNext]_systemVars
    PROVE  [HP!Next]_HP!vars
<1>1. ASSUME NEW a \in Areas, CreateArea(a) PROVE HP!Next
  BY <1>1, SameCreateArea DEF CreateArea, HP!Next
<1>2. ASSUME NEW r \in Requests,
             Receive(r) \/ HandlerStep(r) \/ BeginTransaction(r)
      PROVE  HP!Next
  <2>1. \/ HP!Receive(r) \/ HP!Reject(r) \/ HP!findContainingAreaIds(r)
        \/ HP!BeginTransaction(r) \/ HP!AcquireLock(r) \/ HP!CheckWatermark(r)
        \/ HP!LoadInsideAreas(r) \/ HP!ApplyState(r) \/ HP!InsertBatch(r)
        \/ HP!AdvanceWatermark(r) \/ HP!Fail(r)
    BY <1>2, SameHandlerSteps DEF Receive, HandlerStep, BeginTransaction
  <2> QED
    BY <2>1 DEF HP!Next, HP!Handle
<1>3. ASSUME NEW r \in Requests, CommitTransaction(r) PROVE HP!Next
  BY <1>3, SameCommit DEF CommitTransaction, HP!Next, HP!Handle
<1>4. ASSUME UNCHANGED locationVars, UNCHANGED handlerVars
      PROVE  UNCHANGED HP!vars
  BY <1>4 DEF locationVars, handlerVars, HP!vars
<1>5. ASSUME NEW p \in Pollers, SystemDispatch(p) PROVE UNCHANGED HP!vars
  BY <1>4, <1>5 DEF SystemDispatch, Dispatch
<1>6. ASSUME NEW c \in Consumers, SystemConsume(c) PROVE UNCHANGED HP!vars
  BY <1>4, <1>6 DEF SystemConsume, Consume
<1>7. CASE UNCHANGED systemVars
  BY <1>4, <1>7 DEF systemVars, vars
<1> QED
  BY <1>1, <1>2, <1>3, <1>5, <1>6, <1>7 DEF SystemNext

LEMMA InitHandlers == SystemInit => HP!IInv
BY HP!InitIInv, SameHandlerState, HandlerAssumptions DEF SystemInit

LEMMA NextHandlers == HP!IInv /\ [SystemNext]_systemVars => HP!IInv'
BY HP!NextIInv, HandlerSteps, HandlerAssumptions

-----------------------------------------------------------------------------
(***************************************************************************)
(* Every step of the system is a step of the pipeline, or leaves it alone. *)
(***************************************************************************)
LEMMA SameLocation ==
    /\ L!NoRow = HP!NoRow
    /\ \A rows : L!Inside(rows) = HP!Inside(rows)
    /\ \A S, T : L!computeTransitions(S, T) = HP!computeTransitions(S, T)
    /\ \A r, u, S, t : HP!A!Observe(r, u, S, t) => L!Observe(r, u, S, t)
<1> QED
  BY DEF L!NoRow, HP!NoRow, L!Inside, HP!Inside, L!computeTransitions,
         HP!computeTransitions, HP!A!Observe, L!Observe, HP!A!Newer, L!Newer,
         HP!A!Membership, L!Membership, HP!A!Events, L!Events,
         HP!A!OutboxInputs, L!OutboxInputs, HP!A!DomainEvent, L!DomainEvent,
         HP!A!computeTransitions, HP!A!Inside, HP!A!NoRow,
         HP!A!UserEnteredArea, L!UserEnteredArea, HP!A!UserExitedArea,
         L!UserExitedArea

\* A step that is no commit leaves the tables of the location service alone.
LEMMA QuietHandlers ==
    ASSUME NEW r \in Requests,
           \/ HP!Receive(r) \/ HP!Reject(r) \/ HP!findContainingAreaIds(r)
           \/ HP!BeginTransaction(r) \/ HP!AcquireLock(r)
           \/ HP!CheckWatermark(r) \/ HP!LoadInsideAreas(r)
           \/ HP!ApplyState(r) \/ HP!InsertBatch(r) \/ HP!AdvanceWatermark(r)
           \/ HP!Fail(r)
    PROVE  UNCHANGED locationVars
BY DEF HP!Receive, HP!Reject, HP!findContainingAreaIds, HP!BeginTransaction,
       HP!AcquireLock, HP!CheckWatermark, HP!LoadInsideAreas, HP!ApplyState,
       HP!InsertBatch, HP!AdvanceWatermark, HP!Fail, HP!tables, locationVars

\* The command of a request in its transaction, and what it has observed.
LEMMA CommittingTypes ==
    ASSUME HP!IInv, CommandsOfSender, NEW r \in Requests,
           pc[r] = "committing"
    PROVE  /\ cmd[r] \in HP!Command
           /\ cmd[r].userId = sender[r]
           /\ cmd[r].timestamp \in Timestamps
           /\ seen[r] \in SUBSET Areas
<1>1. cmd[r] \in HP!Command /\ seen[r] \in SUBSET Areas
  BY DEF HP!IInv, HP!TypeOK, HP!CommandKnown, HP!InFlight, HP!InTransaction,
         HP!Holding
<1>2. cmd[r] # NoCommand
  BY <1>1, HandlerAssumption DEF HP!Command
<1> QED
  BY <1>1, <1>2 DEF HP!Command, CommandsOfSender

\* A commit of a handler takes the location, or ignores a stale one.
LEMMA CommitIsTaken ==
    ASSUME HP!IInv, CommandsOfSender, NEW r \in Requests, CommitTransaction(r)
    PROVE  Next
<1> DEFINE u == sender[r]
           t == cmd[r].timestamp
<1>1. /\ HP!TypeInv /\ HP!WritesFollowControl /\ HP!ReadsStayValid
      /\ HP!EventsAreTaken
  BY DEF HP!IInv, HP!TypeInv
<1>2. /\ pc[r] = "committing" /\ HP!ApplyWrites(r)
      /\ D!CommitTransaction(r, Inserted(r))
      /\ UNCHANGED consumerVars
  BY SameCommit DEF CommitTransaction, HP!Commit, HP!CommitUnacked
<1>3. /\ cmd[r].userId = u /\ t \in Timestamps /\ seen[r] \in SUBSET Areas
  BY <1>2, CommittingTypes
<1>4. HP!ReadsValid(r)
  BY <1>1 DEF HP!ReadsStayValid
<1>5. CASE ~HP!Decided(r) /\ HP!TablesUnchanged
  <2>1. Inserted(r) = {}
    BY <1>1, <1>5 DEF HP!WritesFollowControl, Inserted
  <2>2. watermark[u] >= t \/ HP!HasNewerRow(userAreaState[u], t)
    BY <1>2, <1>3, <1>4, <1>5 DEF HP!ReadsValid
  <2>3. ~L!Newer(u, t)
    <3>1. /\ userAreaState \in [Users -> [Areas -> Nat]]
          /\ watermark \in [Users -> Nat] /\ Timestamps \subseteq Nat
      BY <1>1, HP!StateTypes, HandlerAssumptions DEF HP!TypeInv
    <3>2. u \in Users
      BY RequestAssumption
    <3> QED
      BY <1>3, <2>2, <3>1, <3>2 DEF L!Newer, HP!HasNewerRow, HP!Inside
  <2>4. UNCHANGED locationVars
    BY <1>5 DEF HP!TablesUnchanged, locationVars
  <2>5. IgnoreLocation(r, t)
    BY <1>2, <2>1, <2>3, <2>4 DEF IgnoreLocation
  <2> QED
    BY <1>3, <2>5 DEF Next
<1>6. CASE HP!Decided(r) /\ HP!A!Observe(r, cmd[r].userId, seen[r], t)
  <2>1. L!Observe(r, u, seen[r], t)
    BY <1>3, <1>6, SameLocation
  <2>2. transitions[r] = L!computeTransitions(L!Inside(userAreaState[u]), seen[r])
    BY <1>3, <1>4, <1>6, SameLocation DEF HP!ReadsValid
  <2>3. Reported(r) = Changed(r, seen[r])
    BY <2>2 DEF Reported, Changed
  <2>4. writes[r] = HP!StatementsOf(r) \cup {"watermark"}
    BY <1>1, <1>2, <1>6 DEF HP!WritesFollowControl
  <2>5. Inserted(r) = {r} \X Reported(r)
    BY <2>4 DEF Inserted, HP!StatementsOf, HP!hasTransitions, Reported
  <2>6. TakeLocation(r, seen[r], t)
    BY <1>2, <2>1, <2>3, <2>5 DEF TakeLocation
  <2> QED
    BY <1>3, <2>6 DEF Next
<1> QED
  BY <1>1, <1>2, <1>5, <1>6, HP!CommitEffect, HandlerAssumptions

LEMMA PipelineSteps ==
    ASSUME HP!IInv, CommandsOfSender, [SystemNext]_systemVars
    PROVE  [Next]_vars
<1>1. ASSUME UNCHANGED locationVars, RestUnchanged PROVE UNCHANGED vars
  BY <1>1 DEF vars, RestUnchanged
<1>2. ASSUME NEW a \in Areas, CreateArea(a) PROVE UNCHANGED vars
  BY <1>1, <1>2 DEF CreateArea, H!CreateArea, locationVars
<1>3. ASSUME NEW r \in Requests, Receive(r) \/ HandlerStep(r)
      PROVE  UNCHANGED vars
  BY <1>1, <1>3, SameHandlerSteps, QuietHandlers DEF Receive, HandlerStep
<1>4. ASSUME NEW r \in Requests, BeginTransaction(r) PROVE Next
  <2>1. Begin(r)
    BY <1>4, SameHandlerSteps, QuietHandlers DEF BeginTransaction, Begin
  <2> QED
    BY <2>1 DEF Next
<1>5. ASSUME NEW p \in Pollers, SystemDispatch(p) PROVE Next
  BY <1>5 DEF SystemDispatch, Next
<1>6. ASSUME NEW c \in Consumers, SystemConsume(c) PROVE Next
  BY <1>6 DEF SystemConsume, Next
<1>7. CASE UNCHANGED systemVars
  BY <1>7 DEF systemVars
<1> QED
  BY <1>2, <1>3, <1>4, <1>5, <1>6, <1>7, CommitIsTaken DEF SystemNext

LEMMA InitPipeline == SystemInit => Init
BY DEF SystemInit, H!Init, Init, L!Init, H!NoRow, L!NoRow

\* A command is chosen once, and for the user of the request.
LEMMA NextCommands ==
    ASSUME HP!IInv, CommandsOfSender, [SystemNext]_systemVars
    PROVE  CommandsOfSender'
<1>1. ASSUME cmd' = cmd PROVE CommandsOfSender'
  BY <1>1 DEF CommandsOfSender
<1>2. ASSUME NEW a \in Areas, CreateArea(a) PROVE cmd' = cmd
  BY <1>2 DEF CreateArea, H!CreateArea, H!requests
<1>3. ASSUME NEW r \in Requests, HandlerStep(r) \/ BeginTransaction(r)
      PROVE  cmd' = cmd
  BY <1>3 DEF HandlerStep, BeginTransaction, H!Reject,
              H!findContainingAreaIds, H!BeginTransaction, H!AcquireLock,
              H!CheckWatermark, H!LoadInsideAreas, H!ApplyState,
              H!InsertBatch, H!AdvanceWatermark, H!Fail
<1>4. ASSUME NEW r \in Requests, CommitTransaction(r) PROVE cmd' = cmd
  BY <1>4 DEF CommitTransaction, H!Commit, H!CommitUnacked, H!ApplyWrites
<1>5. ASSUME NEW r \in Requests, Receive(r) PROVE CommandsOfSender'
  <2>1. PICK c : cmd' = [cmd EXCEPT ![r] = c]
    BY <1>5 DEF Receive, H!Receive
  <2>2. cmd \in [Requests -> HP!Command \cup {NoCommand}]
    BY DEF HP!IInv, HP!TypeOK
  <2>3. \A q \in Requests \ {r} : cmd'[q] = cmd[q]
    BY <2>1, <2>2
  <2>4. cmd'[r].userId = sender[r]
    BY <1>5 DEF Receive
  <2> QED
    BY <2>3, <2>4 DEF CommandsOfSender
<1>6. ASSUME UNCHANGED handlerVars PROVE cmd' = cmd
  BY <1>6 DEF handlerVars
<1>7. CASE UNCHANGED systemVars
  BY <1>1, <1>6, <1>7 DEF systemVars
<1> QED
  BY <1>1, <1>2, <1>3, <1>4, <1>5, <1>6, <1>7
     DEF SystemNext, SystemDispatch, SystemConsume

-----------------------------------------------------------------------------
(***************************************************************************)
(* The invariants that the handlers and the pipeline bring with them.      *)
(***************************************************************************)
CoreInv == HP!IInv /\ CommandsOfSender /\ PartsInv /\ OutboxIsTable

LEMMA InitCore == SystemInit => CoreInv
<1>1. SystemInit => CommandsOfSender
  BY DEF SystemInit, H!Init, CommandsOfSender
<1> QED
  BY <1>1, InitHandlers, InitPipeline, InitIInv DEF CoreInv

LEMMA NextCore == CoreInv /\ [SystemNext]_systemVars => CoreInv'
BY NextHandlers, NextCommands, PipelineSteps, NextIInv DEF CoreInv

(***************************************************************************)
(* The system implements the pipeline: in the composition with pollers and *)
(* consumers, too, concurrent handlers are as good as locations taken one  *)
(* at a time.                                                              *)
(***************************************************************************)
THEOREM HandlersMakeThePipeline == SystemSpec => ImplementsPipeline
<1>1. CoreInv /\ [SystemNext]_systemVars => [Next]_vars
  BY PipelineSteps DEF CoreInv
<1> QED
  BY <1>1, InitCore, NextCore, InitPipeline, PTL
     DEF SystemSpec, ImplementsPipeline, Spec

(***************************************************************************)
(* Every behaviour of the system is one of LocationProcessing: what is     *)
(* proved of the handlers alone holds of them in the system.               *)
(***************************************************************************)
THEOREM HandlersAreThemselves == SystemSpec => HP!Spec
<1>1. SystemInit => HP!Init
  BY SameHandlerState DEF SystemInit
<1> QED
  BY <1>1, HandlerSteps, PTL DEF SystemSpec, HP!Spec

(***************************************************************************)
(* From the request handlers to the log: with all the concurrency and all  *)
(* the failures of the three services, only recorded transitions are       *)
(* logged, and none twice.                                                 *)
(***************************************************************************)
THEOREM EndToEnd == SystemSpec => Delivery!Spec
BY HandlersMakeThePipeline, ExactlyOnceAtMost, PTL DEF ImplementsPipeline

-----------------------------------------------------------------------------
(***************************************************************************)
(* A transaction is begun and committed for the handlers when it is for    *)
(* the outbox.                                                             *)
(***************************************************************************)
\* The numbers that Begin and CommitTransaction give are positive.
LEMMA NumberedIsNat ==
    ASSUME NEW f
    PROVE  D!Numbered(f) \in Nat
<1> DEFINE T == {t \in Requests : f[t] # 0}
<1>1. IsFiniteSet(T)
  BY RequestAssumption, FS_Subset
<1>2. Cardinality(T) \in Nat
  BY <1>1, FS_CardinalityType
<1>3. D!Cardinality(T) = Cardinality(T)
  BY DEF D!Cardinality, Cardinality
<1> QED
  BY <1>2, <1>3 DEF D!Numbered

\* The requests whose handler stands where it stood, or moved within a phase.
SamePhase(q) ==
    /\ pc'[q] \in {"new", "received", "queried"}
         => pc[q] \in {"new", "received", "queried"}
    /\ pc'[q] \in HP!InTransaction => pc[q] \in HP!InTransaction
    /\ pc[q] \in {"done", "failed"} => pc'[q] \in {"done", "failed"}

Agree(q) ==
    /\ pc[q] \in {"new", "received", "queried"} => createdAt[q] = 0
    /\ pc[q] \in HP!InTransaction => createdAt[q] # 0
    /\ pc[q] \notin {"done", "failed"} =>
         /\ committedAt[q] = 0
         /\ \A a \in Areas : status[<<q, a>>] = "none"

LEMMA PhaseKeepsAgreement ==
    ASSUME NEW q, Agree(q), SamePhase(q),
           createdAt'[q] = createdAt[q], committedAt'[q] = committedAt[q],
           \A a \in Areas : status'[<<q, a>>] = "none" <=> status[<<q, a>>] = "none"
    PROVE  Agree(q)'
BY DEF Agree, SamePhase, HP!InTransaction, HP!Holding

\* Every step but a begin keeps each handler in its phase, or ends it.
LEMMA HandlerPhases ==
    ASSUME HP!IInv, NEW r \in Requests, Receive(r) \/ HandlerStep(r),
           NEW q \in Requests
    PROVE  SamePhase(q)
<1> USE DEF HP!Goto, SamePhase, HP!InTransaction, HP!Holding, HP!InFlight
<1>1. pc \in [Requests -> HP!InFlight \cup {"new", "done", "failed"}]
  BY DEF HP!IInv, HP!TypeOK
<1>2. CASE HP!Receive(r) \/ HP!Reject(r) \/ HP!findContainingAreaIds(r)
  BY <1>1, <1>2 DEF HP!Receive, HP!Reject, HP!findContainingAreaIds
<1>3. CASE HP!AcquireLock(r) \/ HP!CheckWatermark(r) \/ HP!LoadInsideAreas(r)
  BY <1>1, <1>3 DEF HP!AcquireLock, HP!CheckWatermark, HP!LoadInsideAreas
<1>4. CASE HP!ApplyState(r) \/ HP!InsertBatch(r) \/ HP!AdvanceWatermark(r)
  BY <1>1, <1>4 DEF HP!ApplyState, HP!InsertBatch, HP!AdvanceWatermark
<1>5. CASE HP!Fail(r)
  BY <1>1, <1>5 DEF HP!Fail
<1> QED
  BY <1>2, <1>3, <1>4, <1>5, SameHandlerSteps DEF Receive, HandlerStep

LEMMA BeginAgrees ==
    ASSUME HP!IInv, DP!TypeOK, NEW r \in Requests, BeginTransaction(r),
           NEW q \in Requests, Agree(q)
    PROVE  Agree(q)'
<1>1. pc \in [Requests -> HP!InFlight \cup {"new", "done", "failed"}]
  BY DEF HP!IInv, HP!TypeOK
<1>2. pc[r] = "queried" /\ pc' = [pc EXCEPT ![r] = "waiting"]
  BY SameHandlerSteps DEF BeginTransaction, HP!BeginTransaction, HP!Goto
<1>3. /\ createdAt' = [createdAt EXCEPT ![r] = D!Numbered(createdAt) + 1]
      /\ UNCHANGED <<status, committedAt>>
  BY DEF BeginTransaction, D!Begin
<1>4. createdAt \in [Requests -> Nat]
  BY DEF DP!TypeOK
<1>5. D!Numbered(createdAt) + 1 # 0
  BY NumberedIsNat
<1>6. CASE q = r
  BY <1>1, <1>2, <1>3, <1>4, <1>5, <1>6
     DEF Agree, HP!InTransaction, HP!Holding
<1>7. CASE q # r
  BY <1>1, <1>2, <1>3, <1>4, <1>7 DEF Agree, HP!InTransaction, HP!Holding
<1> QED
  BY <1>6, <1>7

LEMMA CommitAgrees ==
    ASSUME HP!IInv, DP!TypeOK, NEW r \in Requests, CommitTransaction(r),
           NEW q \in Requests, Agree(q)
    PROVE  Agree(q)'
<1>1. pc \in [Requests -> HP!InFlight \cup {"new", "done", "failed"}]
  BY DEF HP!IInv, HP!TypeOK
<1>2. PICK l \in {"done", "failed"} : pc' = [pc EXCEPT ![r] = l]
  BY SameCommit
     DEF CommitTransaction, HP!Commit, HP!CommitUnacked, HP!Goto
<1>3. CASE q = r
  BY <1>1, <1>2, <1>3 DEF Agree, HP!InTransaction, HP!Holding
<1>4. CASE q # r
  <2>1. SamePhase(q)
    BY <1>1, <1>2, <1>4 DEF SamePhase
  <2>2. createdAt'[q] = createdAt[q] /\ committedAt'[q] = committedAt[q]
    BY <1>4 DEF CommitTransaction, D!CommitTransaction, DP!TypeOK
  <2>3. \A a \in Areas : status'[<<q, a>>] = status[<<q, a>>]
    <3>1. \A a \in Areas : <<q, a>> \in EventIds /\ <<q, a>> \notin Inserted(r)
      BY <1>4 DEF EventIds, Inserted
    <3> QED
      BY <3>1 DEF CommitTransaction, D!CommitTransaction, D!SetStatus
  <2> QED
    BY <2>1, <2>2, <2>3, PhaseKeepsAgreement
<1> QED
  BY <1>3, <1>4

\* A poller does not touch what a transaction is known by.
LEMMA PollerKeepsTransactions ==
    ASSUME NEW p \in Pollers, Dispatch(p)
    PROVE  UNCHANGED <<createdAt, committedAt>>
BY DEF Dispatch, D!PollerStep, D!RunCycle, D!claimPendingBatch, D!publish,
       D!markPublished, D!resetToRetryable, D!ClaimUnanswered,
       D!AckLost, D!PublishFails, D!MarkFails, D!ResetFails, D!Crash,
       D!table

LEMMA NextTransactionsAgree ==
    ASSUME CoreInv, TransactionsAgree, [SystemNext]_systemVars
    PROVE  TransactionsAgree'
<1> SUFFICES ASSUME NEW q \in Requests, Agree(q) PROVE Agree(q)'
  BY SameControl DEF TransactionsAgree, Agree
<1>1. HP!IInv /\ DP!IInv /\ DP!TypeOK
  BY DEF CoreInv, PartsInv, DP!IInv
<1>2. ASSUME RestUnchanged, SamePhase(q) PROVE Agree(q)'
  BY <1>2, PhaseKeepsAgreement DEF RestUnchanged, dispatchVars
<1>3. ASSUME UNCHANGED pc PROVE SamePhase(q)
  BY <1>3 DEF SamePhase
<1>4. ASSUME NEW a \in Areas, CreateArea(a) PROVE Agree(q)'
  BY <1>2, <1>3, <1>4 DEF CreateArea, H!CreateArea, H!requests
<1>5. ASSUME NEW r \in Requests, Receive(r) \/ HandlerStep(r) PROVE Agree(q)'
  BY <1>1, <1>2, <1>5, HandlerPhases DEF Receive, HandlerStep
<1>6. ASSUME NEW p \in Pollers, SystemDispatch(p) PROVE Agree(q)'
  <2>1. \A x \in EventIds : status'[x] = "none" <=> status[x] = "none"
    BY <1>1, <1>6, PollerEffect DEF SystemDispatch
  <2>2. UNCHANGED <<createdAt, committedAt>>
    BY <1>6, PollerKeepsTransactions DEF SystemDispatch
  <2>3. \A a \in Areas : <<q, a>> \in EventIds
    BY DEF EventIds
  <2>4. SamePhase(q)
    BY <1>3, <1>6 DEF SystemDispatch, handlerVars
  <2> QED
    BY <2>1, <2>2, <2>3, <2>4, PhaseKeepsAgreement
<1>7. ASSUME NEW c \in Consumers, SystemConsume(c) PROVE Agree(q)'
  BY <1>3, <1>7, PhaseKeepsAgreement
     DEF SystemConsume, Consume, dispatchVars, handlerVars
<1>8. CASE UNCHANGED systemVars
  BY <1>3, <1>8, PhaseKeepsAgreement
     DEF systemVars, vars, dispatchVars, handlerVars
<1> QED
  BY <1>1, <1>4, <1>5, <1>6, <1>7, <1>8, BeginAgrees, CommitAgrees
     DEF SystemNext

-----------------------------------------------------------------------------
(***************************************************************************)
(* The log has recorded transitions only.                                  *)
(***************************************************************************)
LEMMA NextLoggedIsRecorded ==
    ASSUME CoreInv, LoggedIsRecorded, [SystemNext]_systemVars
    PROVE  LoggedIsRecorded'
<1> SUFFICES ASSUME NEW x \in EventIds, logRows'[x] > 0
             PROVE  \E e \in outbox' : EventId(e) = x
  BY DEF LoggedIsRecorded
<1>1. [Delivery!Next]_Delivery!vars
  BY PipelineSteps, StepDelivers DEF CoreInv
<1>2. logRows \in [EventIds -> Nat]
  BY DEF CoreInv, PartsInv, CP!IInv, CP!TypeOK
<1>3. logRows[x] > 0 \/ x \in Recorded
  BY <1>1, <1>2 DEF Delivery!Next, Delivery!Record, Delivery!Log,
                    Delivery!vars, Recorded
<1>4. x \in Recorded
  BY <1>3 DEF LoggedIsRecorded, Recorded
<1>5. Recorded \subseteq Recorded'
  BY <1>1 DEF Delivery!Next, Delivery!Record, Delivery!Log, Delivery!vars,
              Recorded
<1> QED
  BY <1>4, <1>5 DEF Recorded

LEMMA InitSystemInv ==
    SystemInit => CoreInv /\ TransactionsAgree /\ LoggedIsRecorded
<1>1. SystemInit => TransactionsAgree
  BY DEF SystemInit, H!Init, D!Init, TransactionsAgree, H!InTransaction,
         H!Holding, EventIds
<1>2. SystemInit => LoggedIsRecorded
  BY DEF SystemInit, C!Init, LoggedIsRecorded
<1> QED
  BY <1>1, <1>2, InitCore

LEMMA NextSystemInv ==
    CoreInv /\ TransactionsAgree /\ LoggedIsRecorded /\ [SystemNext]_systemVars
        => (CoreInv /\ TransactionsAgree /\ LoggedIsRecorded)'
BY NextCore, NextTransactionsAgree, NextLoggedIsRecorded

LEMMA CoreIsSystemInv ==
    CoreInv /\ TransactionsAgree /\ LoggedIsRecorded <=> SystemInv
BY SameHandlerState, PartsInvIsIInv DEF CoreInv, SystemInv

(***************************************************************************)
(* The invariants of the handlers, of the pollers and of the consumers     *)
(* hold in the system, and the three agree on what has begun, what has     *)
(* committed and what is recorded.                                         *)
(***************************************************************************)
THEOREM SystemInvariance == SystemSpec => []SystemInv
<1>1. SystemSpec => [](CoreInv /\ TransactionsAgree /\ LoggedIsRecorded)
  BY InitSystemInv, NextSystemInv, PTL DEF SystemSpec
<1> QED
  BY <1>1, CoreIsSystemInv, PTL

-----------------------------------------------------------------------------
(***************************************************************************)
(* What a client is told and what the log says.                            *)
(***************************************************************************)
\* The events of an answered request are those that it reported.
LEMMA ReportedIsRecorded ==
    ASSUME HP!IInv, NEW r \in Requests, pc[r] = "done", NEW a
    PROVE  a \in Reported(r)
             <=> \E e \in outbox : e.request = r /\ e.areaId = a
<1> DEFINE recorded == {e \in outbox : e.request = r}
           event(type) == HP!DomainEvent(r, cmd[r], a, type)
<1>1. recorded = HP!OutboxInputs(r, cmd[r], transitions[r])
  BY DEF HP!IInv, HP!EventsOfRequest
<1> HIDE DEF recorded
<1>2. ASSUME a \in Reported(r) PROVE \E e \in recorded : e.areaId = a
  <2>1. event(HP!UserEnteredArea) \in recorded
          \/ event(HP!UserExitedArea) \in recorded
    BY <1>1, <1>2 DEF Reported, HP!OutboxInputs
  <2>2. \A type : event(type).areaId = a
    BY DEF HP!DomainEvent
  <2> QED
    BY <2>1, <2>2
<1>3. ASSUME NEW e \in recorded, e.areaId = a PROVE a \in Reported(r)
  BY <1>1, <1>3 DEF Reported, HP!OutboxInputs, HP!DomainEvent
<1> QED
  BY <1>2, <1>3 DEF recorded

\* So what an answered request reported is recorded under its event id.
LEMMA ReportedEvent ==
    ASSUME CoreInv, NEW r \in Requests, pc[r] = "done", NEW a \in Reported(r)
    PROVE  \E e \in outbox : EventId(e) = <<r, a>>
BY ReportedIsRecorded DEF CoreInv, EventId

(***************************************************************************)
(* A transition that was reported to a client is in the log or on its way  *)
(* there, as long as no claim goes unanswered, no reset fails and no       *)
(* location service dies in a cycle: those strand rows.                    *)
(***************************************************************************)
THEOREM AnswersAreNotLost ==
    ASSUME Established, DispatchFaults \cap D!Stranding = {}
    PROVE  SystemSpec => []AnsweredIsNotLost
<1>1. CoreInv => NothingLost
  BY LostIsStranded, StrandedWithin
     DEF CoreInv, D!StrandedBounded, Lost, NothingLost
<1>2. CoreInv /\ NothingLost => AnsweredIsNotLost
  BY ReportedEvent DEF AnsweredIsNotLost, NothingLost
<1> QED
  BY <1>1, <1>2, InitCore, NextCore, PTL DEF SystemSpec

(***************************************************************************)
(* Nothing that was not committed, and nothing that an answered request    *)
(* did not report, is ever in the log.                                     *)
(***************************************************************************)
THEOREM OnlyReportedIsLogged == SystemSpec => []NothingElseIsLogged
<1>1. ASSUME CoreInv, LoggedIsRecorded PROVE NothingElseIsLogged
  <2> SUFFICES ASSUME NEW r \in Requests, NEW a \in Areas,
                      logRows[<<r, a>>] > 0
               PROVE  /\ pc[r] \in {"done", "failed"}
                      /\ pc[r] = "done" => a \in Reported(r)
    BY DEF NothingElseIsLogged
  <2>1. PICK e \in outbox : EventId(e) = <<r, a>>
    BY <1>1 DEF LoggedIsRecorded, EventIds
  <2>2. e.request = r /\ e.areaId = a
    BY <2>1 DEF EventId
  <2>3. pc[r] \in {"done", "failed"}
    BY <1>1, <2>2 DEF CoreInv, HP!IInv, HP!EventsAreTaken
  <2> QED
    BY <1>1, <2>2, <2>3, ReportedIsRecorded DEF CoreInv
<1> QED
  BY <1>1, InitSystemInv, NextSystemInv, PTL DEF SystemSpec

(***************************************************************************)
(* Once all events are logged, GET /logs tells the membership of every     *)
(* user, with all the handlers, pollers and consumers at work.             *)
(***************************************************************************)
THEOREM SystemLogTellsTheTruth == SystemSpec => []LogTellsMembership
BY HandlersMakeThePipeline, LogTellsTheTruth, PTL DEF ImplementsPipeline

(***************************************************************************)
(* When the pollers and the consumers have caught up, the log says of      *)
(* every answered request what its answer said: a line for each area that  *)
(* it reported entered or left, and none for another.                      *)
(***************************************************************************)
LogIsWhatWasReported ==
    CaughtUp =>
        \A r \in Requests : pc[r] = "done" =>
            \A a \in Areas : logRows[<<r, a>>] > 0 <=> a \in Reported(r)

THEOREM CaughtUpTellsReports ==
    ASSUME Established
    PROVE  SystemSpec => []LogIsWhatWasReported
<1>1. CoreInv /\ NothingElseIsLogged => LogIsWhatWasReported
  <2> SUFFICES ASSUME CoreInv, CaughtUp, NothingElseIsLogged,
                      NEW r \in Requests, pc[r] = "done", NEW a \in Areas
               PROVE  logRows[<<r, a>>] > 0 <=> a \in Reported(r)
    BY DEF LogIsWhatWasReported
  <2>1. logRows[<<r, a>>] > 0 => a \in Reported(r)
    BY DEF NothingElseIsLogged
  <2>2. ASSUME a \in Reported(r) PROVE logRows[<<r, a>>] > 0
    <3>1. PICK e \in outbox : EventId(e) = <<r, a>>
      BY <2>2, ReportedEvent
    <3> QED
      BY <3>1, CaughtUpIsLogged DEF CoreInv
  <2> QED
    BY <2>1, <2>2
<1>2. SystemSpec => []CoreInv
  BY InitCore, NextCore, PTL DEF SystemSpec
<1> QED
  BY <1>1, <1>2, OnlyReportedIsLogged, PTL

(***************************************************************************)
(* The order of a user's messages, with the handlers at work.              *)
(***************************************************************************)
THEOREM SystemSerialOrder == SystemSpec => []OrderedWhenSerial
BY HandlersMakeThePipeline, PipelineSerialOrder, PTL DEF ImplementsPipeline
=============================================================================
