--------------------------- MODULE MCEpochChange ---------------------------
(***************************************************************************)
(* A small instance of EpochChange: four keys, one of them faulty, five    *)
(* epochs whose committees are A, B, A, E, C (committee A comes back, so   *)
(* an old entry signed by A can be replayed in epoch 2; in E the faulty    *)
(* key holds exactly two thirds of the power, the most the fault           *)
(* assumption allows), and a made-up committee D that only the faulty key  *)
(* belongs to.                                                             *)
(***************************************************************************)
EXTENDS EpochChange, TLC

CONSTANTS k1, k2, k3, k4

MCKeys == {k1, k2, k3, k4}
MCFaulty == {k4}

CommitteeA == (k1 :> 1) @@ (k2 :> 1) @@ (k3 :> 1) @@ (k4 :> 1)
CommitteeB == (k1 :> 1) @@ (k2 :> 1) @@ (k3 :> 1)
CommitteeC == (k1 :> 1) @@ (k2 :> 2) @@ (k4 :> 1)
CommitteeD == (k4 :> 1)
CommitteeE == (k1 :> 1) @@ (k4 :> 2)

MCCommittees == {CommitteeA, CommitteeB, CommitteeC, CommitteeD, CommitteeE}
MCChainCommittee ==
  (0 :> CommitteeA) @@ (1 :> CommitteeB) @@ (2 :> CommitteeA) @@
  (3 :> CommitteeE) @@ (4 :> CommitteeC)
=============================================================================
