-------------------------- MODULE MCGeofencePipeline --------------------------
(***************************************************************************)
(* Instances of GeofencePipeline for TLC.                                  *)
(***************************************************************************)
EXTENDS GeofencePipeline, TLC

CONSTANT u1

\* All requests are about one user.
MCsender == [r \in Requests |-> u1]
=============================================================================
