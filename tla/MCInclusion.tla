---------------------------- MODULE MCInclusion ----------------------------
(***************************************************************************)
(* A small instance of Inclusion: four keys, k4 faulty; epoch 0 governed   *)
(* by A, epoch 1 by C; a made-up committee D of the faulty key alone.      *)
(* Block b1 (epoch 0) holds T1, T2; block b2 (epoch 1) holds T1, T2, T3.   *)
(* T2 has no state checkpoint.  A prover may also build an accumulator of  *)
(* its own list, holding T4.  Indices reach past every list.              *)
(***************************************************************************)
EXTENDS Inclusion, TLC

CONSTANTS k1, k2, k3, k4, q1, q2, w1, w2, x1, x2, b1, b2

MCKeys == {k1, k2, k3, k4}
MCFaulty == {k4}

CommitteeA == (k1 :> 1) @@ (k2 :> 1) @@ (k3 :> 1) @@ (k4 :> 1)
CommitteeC == (k1 :> 1) @@ (k2 :> 2) @@ (k4 :> 1)
CommitteeD == (k4 :> 1)

MCCommittees == {CommitteeA, CommitteeC, CommitteeD}
MCChainCommittee == (0 :> CommitteeA) @@ (1 :> CommitteeC)

MCStateKeys == {q1, q2}
MCStateValues == {w1, w2}
MCTxIds == {x1, x2}
MCBlockIds == {b1, b2}

S1 == (q1 :> w1) @@ (q2 :> w2)
S2 == (q1 :> w2) @@ (q2 :> w2)

T1 == [id |-> x1, checkpoint |-> S1]
T2 == [id |-> x2, checkpoint |-> None]
T3 == [id |-> x1, checkpoint |-> S2]
T4 == [id |-> x2, checkpoint |-> S2]

MCChainBlock ==
  (b1 :> [epoch |-> 0, txns |-> <<T1, T2>>]) @@
  (b2 :> [epoch |-> 1, txns |-> <<T1, T2, T3>>])

MCTxnLists == {<<T1, T2>>, <<T1, T2, T3>>, <<T4>>}
=============================================================================
