--------------------------- MODULE MCGeofenceSystem ---------------------------
(***************************************************************************)
(* Instances of GeofenceSystem for TLC.                                    *)
(***************************************************************************)
EXTENDS GeofenceSystem, TLC

CONSTANTS u1, a1, k1, outside, in1

\* All requests are about one user.
MCsender   == [r \in Requests |-> u1]
MChashtext == [u \in Users |-> k1]

\* One area.
MCCovers == (outside :> {}) @@ (in1 :> {a1})
=============================================================================
