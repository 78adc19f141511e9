---------------------------- MODULE GeofenceSystem ----------------------------
(***************************************************************************)
(* The three services at work together, each with all its concurrency.     *)
(*                                                                         *)
(* GeofencePipeline takes the location service as AreaTransitions, one     *)
(* location at a time.  Here its place is taken by the request handlers of *)
(* LocationProcessing: they overlap, wait for locks, fail, lose answers,   *)
(* while the pollers and the consumers of the pipeline run.  A handler     *)
(* meets the pollers twice: its BEGIN gives its rows their created_at, and *)
(* its COMMIT makes the rows it has inserted visible.                      *)
(*                                                                         *)
(* GeofenceSystem implements GeofencePipeline.                             *)
(***************************************************************************)
EXTENDS GeofencePipeline

CONSTANTS       \* as in LocationProcessing
    Points, Covers, LockKeys, hashtext, NoRequest, NoCommand, PoolSize

ASSUME HandlerAssumption ==
    /\ Covers \in [Points -> SUBSET Areas]
    /\ hashtext \in [Users -> LockKeys]
    /\ NoRequest \notin Requests
    /\ NoCommand \notin [userId : Users, point : Points, timestamp : Timestamps]
    /\ PoolSize \in Nat \ {0}

VARIABLES       \* of LocationProcessing
    areas, pc, cmd, seen, transitions, writes, lock

handlerVars == <<areas, pc, cmd, seen, transitions, writes, lock>>
systemVars  == <<vars, handlerVars>>

H == INSTANCE LocationProcessing

SystemInit == H!Init /\ D!Init /\ C!Init

-----------------------------------------------------------------------------
\* The tables of the outbox, Kafka and the log stay as they are.
RestUnchanged == UNCHANGED <<dispatchVars, topic, consumerVars>>

\* The geofence service inserts an area.
CreateArea(a) == H!CreateArea(a) /\ RestUnchanged

\* Request r arrives; it reports a location of its user.
Receive(r) ==
    /\ H!Receive(r)
    /\ cmd'[r].userId = sender[r]
    /\ RestUnchanged

\* What the handler of r does before, in and instead of its transaction.
HandlerStep(r) ==
    /\ \/ H!Reject(r)
       \/ H!findContainingAreaIds(r)
       \/ H!AcquireLock(r)
       \/ H!CheckWatermark(r)
       \/ H!LoadInsideAreas(r)
       \/ H!ApplyState(r)
       \/ H!InsertBatch(r)
       \/ H!AdvanceWatermark(r)
       \/ H!Fail(r)
    /\ RestUnchanged

\* The areas that the transitions of request r are about.
Reported(r) == transitions[r].enteredAreaIds \cup transitions[r].exitedAreaIds

\* The transaction begins: NOW() is the created_at of the rows of r.
BeginTransaction(r) ==
    /\ H!BeginTransaction(r)
    /\ D!Begin(r)
    /\ UNCHANGED consumerVars

\* A mutated form: only the entered areas get outbox rows.
InsertedEntered(r) ==
    IF "outbox" \in writes[r] THEN {r} \X transitions[r].enteredAreaIds ELSE {}

\* A mutated form: a row for every area that contains the point.
InsertedSeen(r) == IF "watermark" \in writes[r] THEN {r} \X seen[r] ELSE {}

\* The outbox rows that the open transaction of r has inserted.
Inserted(r) == IF "outbox" \in writes[r] THEN {r} \X Reported(r) ELSE {}

\* The transaction commits, and the answer arrives or is lost.
CommitTransaction(r) ==
    /\ H!Commit(r) \/ H!CommitUnacked(r)
    /\ D!CommitTransaction(r, Inserted(r))
    /\ UNCHANGED consumerVars

\* The pollers and the consumers, as in GeofencePipeline.
SystemDispatch(p) == Dispatch(p) /\ UNCHANGED handlerVars
SystemConsume(c)  == Consume(c) /\ UNCHANGED handlerVars

SystemNext ==
    \/ \E a \in Areas : CreateArea(a)
    \/ \E r \in Requests :
         \/ Receive(r)
         \/ HandlerStep(r)
         \/ BeginTransaction(r)
         \/ CommitTransaction(r)
    \/ \E p \in Pollers : SystemDispatch(p)
    \/ \E c \in Consumers : SystemConsume(c)

SystemSpec == SystemInit /\ [][SystemNext]_systemVars

\* Pollers and consumers keep running; nothing is assumed of the requests.
SystemFairSpec ==
    /\ SystemSpec
    /\ \A p \in Pollers : WF_systemVars(D!RunCycle(p) /\ SystemDispatch(p))
    /\ \A c \in Consumers : WF_systemVars(C!Consume(c) /\ SystemConsume(c))

-----------------------------------------------------------------------------
(***************************************************************************)
(* The handlers may be taken for AreaTransitions: whatever they do at the  *)
(* same time, the pipeline sees a begin, one location taken or ignored in  *)
(* a single step, or nothing.                                              *)
(***************************************************************************)
ImplementsPipeline == Spec

(***************************************************************************)
(* A transition that a client was told of is not lost: as long as it is    *)
(* not in the log, its row is pending or in the hands of a poller, or it   *)
(* has a message that the consumers have yet to come to.  As NothingLost,  *)
(* this takes pollers that strand no row.                                  *)
(***************************************************************************)
AnsweredIsNotLost ==
    \A r \in Requests :
        pc[r] = "done" =>
            \A a \in Reported(r) : OnItsWay(<<r, a>>) \/ logRows[<<r, a>>] > 0

(***************************************************************************)
(* The log says nothing else: no transition of a request that is still in  *)
(* flight, of one that failed before its commit, or one that an answered   *)
(* request did not report.                                                 *)
(***************************************************************************)
NothingElseIsLogged ==
    \A r \in Requests, a \in Areas :
        logRows[<<r, a>>] > 0 =>
            /\ pc[r] \in {"done", "failed"}
            /\ pc[r] = "done" => a \in Reported(r)

(***************************************************************************)
(* Liveness: what a client was told is in the log in the end.              *)
(***************************************************************************)
AnsweredIsLogged ==
    \A r \in Requests, a \in Areas :
        pc[r] = "done" /\ a \in Reported(r) ~> logRows[<<r, a>>] > 0

-----------------------------------------------------------------------------
(***************************************************************************)
(* The parts agree on what a transaction is: one that the handlers have    *)
(* not begun, or not committed, is so for the outbox.  The two guards that *)
(* a step must meet at once are therefore one.                             *)
(***************************************************************************)
TransactionsAgree ==
    \A r \in Requests :
        /\ pc[r] \in {"new", "received", "queried"} => createdAt[r] = 0
        /\ pc[r] \in H!InTransaction => createdAt[r] # 0
        /\ pc[r] \notin {"done", "failed"} =>
             /\ committedAt[r] = 0
             /\ \A a \in Areas : status[<<r, a>>] = "none"

\* A command is about the user of its request.
CommandsOfSender ==
    \A r \in Requests : cmd[r] # NoCommand => cmd[r].userId = sender[r]

\* Only what was recorded is in the log.
LoggedIsRecorded ==
    \A x \in EventIds : logRows[x] > 0 => \E e \in outbox : EventId(e) = x

SystemInv ==
    /\ H!IInv
    /\ IInv
    /\ TransactionsAgree
    /\ CommandsOfSender
    /\ LoggedIsRecorded
=============================================================================
