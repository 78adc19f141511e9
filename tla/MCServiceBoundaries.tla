------------------------- MODULE MCServiceBoundaries -------------------------
(***************************************************************************)
(* Inputs of every shape for ServiceBoundaries: each field at, next to and *)
(* beyond its limits, in every form a client or a producer may give it.    *)
(***************************************************************************)
EXTENDS ServiceBoundaries

Number(value) == [form |-> "number", value |-> value]

\* A numeric text, a blank one, another one, a missing field, 1e999.
OddNumbers ==
    {[form |-> "numericText", value |-> 1],
     [form |-> "blankText",   value |-> 0],
     [form |-> "text",        value |-> 0],
     [form |-> "absent",      value |-> 0],
     [form |-> "infinite",    value |-> 0]}

Latitudes  == {Number(n) : n \in {-91, -90, 90, 91}} \cup OddNumbers
Longitudes == {Number(n) : n \in {-181, -180, 180, 181}} \cup OddNumbers
Radii      == {Number(n) : n \in {0, 1, 100000, 100001}} \cup OddNumbers

\* A name with U+0000 in it has a character, and trim leaves it there.
Names ==
    [form : {"string"}, length : {0, 1, 119, 120, 121}, padding : {0, 1},
     nul : {FALSE}]
    \cup [form : {"string"}, length : {1, 120, 121}, padding : {0, 1}, nul : {TRUE}]
    \cup [form : {"absent", "notString"}, length : {0}, padding : {0}, nul : {FALSE}]

\* The name and one number vary at a time; the others are in range.
MCAreaBodies ==
    [name : Names, centerLat : Latitudes, centerLon : {Number(180)},
     radiusM : {Number(1)}]
    \cup
    [name : Names, centerLat : {Number(90)}, centerLon : Longitudes,
     radiusM : Radii]

Nonsense == {Text(form, "", "plain") : form \in {"absent", "notString", "blank", "word"}}

\* Two ids; one of them also in capitals and between blanks.
Uuids == {UuidText("id1"), UuidText("id2"),
          Text("uuid", "id1", "upper"), Text("uuid", "id1", "padded")}

Times == {Text("iso", "t1", "plain"), Text("iso", "t2", "plain"),
          Text("week", "t1", "plain"), Text("dateText", "t1", "plain")}

MCLocationBodies ==
    [userId : Uuids \cup Nonsense, lat : Latitudes, lon : {Number(-180)},
     timestamp : Times \cup Nonsense]
    \cup
    [userId : {UuidText("id1")}, lat : {Number(-90)}, lon : Longitudes,
     timestamp : {Text("iso", "t1", "plain")}]

Types ==
    {Text("word", type, style) :
        type \in {UserEnteredArea, UserExitedArea, "UserMovedArea"},
        style \in Styles}
    \cup {Text("absent", "", "plain"), Text("blank", "", "plain")}

MCMessages ==
    [json : {"object"}, eventId : Uuids \cup Nonsense, type : Types,
     userId : {UuidText("id1"), Text("word", "", "plain"), Text("absent", "", "plain")},
     areaId : {UuidText("a1"), Text("uuid", "a1", "upper")} \cup Nonsense,
     timestamp : Times \cup {Text("blank", "", "plain")}]
    \cup
    [json : {"none", "null"}, eventId : {Text("absent", "", "plain")},
     type : {Text("absent", "", "plain")}, userId : {Text("absent", "", "plain")},
     areaId : {Text("absent", "", "plain")}, timestamp : {Text("absent", "", "plain")}]

\* Enter one, leave one, both, neither.
MCTransitionSets ==
    {computeTransitions(previous, current) :
        previous \in {{}, {"a1"}}, current \in {{}, {"a2"}}}
=============================================================================
