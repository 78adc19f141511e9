-------------------------- MODULE MCLoggingConsumer --------------------------
(***************************************************************************)
(* Instances of LoggingConsumer for TLC.  What the handler makes of a      *)
(* message follows from its content by the rules of InputValidation.       *)
(***************************************************************************)
EXTENDS LoggingConsumer, InputValidation, TLC

CONSTANTS e1, e2, bad

\* The message of an event that the location service recorded.
Published(area) ==
    Payload(DomainEvent("r1", [userId    |-> UuidText("u1"),
                               timestamp |-> Text("iso", "t1", "plain")],
                        area, UserEnteredArea))

\* A message without an event id, and the JSON value null.
Nameless == [Published("a1") EXCEPT !.eventId = Text("absent", "", "plain")]
Null     == [Nameless EXCEPT !.json = "null"]

\* Two events and an invalid message.
MCContent == (e1 :> Published("a1")) @@ (e2 :> Published("a2")) @@ (bad :> Nameless)

MCKind == [m \in Messages |-> KindOf(MCContent[m])]

\* An event and a poison message.
MCContentPoison == (e1 :> Published("a1")) @@ (bad :> Null)

MCKindPoison == [m \in Messages |-> KindOf(MCContentPoison[m])]

\* A partition that is assigned before its first message.
JoinedInit ==
    /\ topic = << >>
    /\ committed = IF Established THEN 1 ELSE NoOffset
    /\ owner \in Consumers
    /\ pc = [c \in Consumers |-> "idle"]
    /\ position = [c \in Consumers |-> IF c = owner THEN 1 ELSE NoOffset]
    /\ rows = [m \in Messages |-> 0]
    /\ faults = 0

JoinedSpec == JoinedInit /\ [][Next]_vars
=============================================================================
