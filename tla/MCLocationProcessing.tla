------------------------- MODULE MCLocationProcessing -------------------------
(***************************************************************************)
(* Instances of LocationProcessing for TLC.                                *)
(***************************************************************************)
EXTENDS LocationProcessing, TLC

CONSTANTS a1, a2, u1, u2, k1, outside, in1, in2, both

\* Two overlapping areas.
MCCoversOverlap ==
    (outside :> {}) @@ (in1 :> {a1}) @@ (both :> {a1, a2})

\* One area.
MCCoversOne == (outside :> {}) @@ (in1 :> {a1})

\* One area and only locations inside it.
MCCoversOneIn == in1 :> {a1}

\* Two users whose ids hash to the same advisory lock key.
MChashtext == [u \in Users |-> k1]

\* Requests are interchangeable in every safety property.
MCSymmetry == Permutations(Requests)
=============================================================================
