--------------------------- MODULE MCLightClient ---------------------------
(***************************************************************************)
(* The chaining verifier over the keys and committees of MCEpochChange,   *)
(* on the chain A, B, A, C or on a chain of distinct committees.          *)
(***************************************************************************)
EXTENDS LightClient, TLC

CONSTANTS k1, k2, k3, k4

MCKeys == {k1, k2, k3, k4}
MCFaulty == {k4}

CommitteeA == (k1 :> 1) @@ (k2 :> 1) @@ (k3 :> 1) @@ (k4 :> 1)
CommitteeB == (k1 :> 1) @@ (k2 :> 1) @@ (k3 :> 1)
CommitteeC == (k1 :> 1) @@ (k2 :> 2) @@ (k4 :> 1)
CommitteeD == (k4 :> 1)

MCCommittees == {CommitteeA, CommitteeB, CommitteeC, CommitteeD}
MCChainCommittee ==
  (0 :> CommitteeA) @@ (1 :> CommitteeB) @@ (2 :> CommitteeA) @@ (3 :> CommitteeC)

\* A chain of three distinct committees, B, C, A, whose members overlap.
MCDistinctChain == (0 :> CommitteeB) @@ (1 :> CommitteeC) @@ (2 :> CommitteeA)
=============================================================================
