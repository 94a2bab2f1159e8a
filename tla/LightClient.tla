---------------------------- MODULE LightClient ----------------------------
(***************************************************************************)
(* The external verifier that chains the outputs of successive runs of the *)
(* epoch-change program (spec 4.2, "Public commitment"): it keeps the hash *)
(* of the committee it trusts, and accepts a run's output (prev, new) when *)
(* prev is that hash, trusting new from then on.  Nothing of this verifier *)
(* is in the repository; it is the consumer the program's commitments are  *)
(* made for.  Every run is a full execution of the EpochChange model, with *)
(* inputs chosen by the prover.                                            *)
(*                                                                         *)
(* lcEpoch is a ghost: the epoch at which the accepted run's ratchet ended, *)
(* the epoch of the committee the verifier trusts.                         *)
(***************************************************************************)
EXTENDS EpochChange

CONSTANT MaxRuns   \* the most runs of the program the verifier receives

ASSUME RunsAssumption == MaxRuns \in Nat

VARIABLES
  lcTrusted,  \* the committee hash the verifier trusts
  lcEpoch,    \* ghost: the epoch of the trusted committee
  runs        \* the runs received so far

lcVars == <<lcTrusted, lcEpoch, runs>>
allVars == <<vars, lcVars>>

\* The verifier starts from the genesis committee, trusted by social consensus.
LCInit ==
  /\ Init
  /\ lcTrusted = VerifierHash(ChainCommittee[0])
  /\ lcEpoch = 0
  /\ runs = 0

\* A step of the current run of the program.
RunStep == Next /\ UNCHANGED lcVars

(***************************************************************************)
(* A run has ended: an aborted run commits nothing and gives no proof; a   *)
(* run that committed (prev, new) with prev the trusted hash moves the      *)
(* verifier to new.  The prover then starts another run.                    *)
(***************************************************************************)
Deliver ==
  /\ pc \in {"done", "aborted"}
  /\ runs < MaxRuns
  /\ IF pc = "done" /\ committed[1] = lcTrusted
       THEN /\ lcTrusted' = committed[2]
            /\ lcEpoch' = cur.epoch
       ELSE UNCHANGED <<lcTrusted, lcEpoch>>
  /\ runs' = runs + 1
  /\ pc' = "start" /\ trusted' = None /\ proofLen' = 0 /\ idx' = 0
  /\ cur' = None /\ latest' = None /\ committed' = << >> /\ err' = None

LCNext == RunStep \/ Deliver

LCSpec == LCInit /\ [][LCNext]_allVars

-----------------------------------------------------------------------------
(***************************************************************************)
(* TrustsChainCommittee: whatever trusted states and proofs the prover     *)
(* feeds the program, the verifier only ever trusts a committee of the     *)
(* real chain.                                                              *)
(***************************************************************************)
TrustsChainCommittee ==
  /\ lcEpoch \in Epochs
  /\ lcTrusted = VerifierHash(ChainCommittee[lcEpoch])

(***************************************************************************)
(* NoRollback: trust only moves forward (spec 4.2 and the glossary: the    *)
(* ratchet is a forward-only advancement): an accepted run never moves the *)
(* verifier to the committee of an earlier epoch.                           *)
(***************************************************************************)
NoRollback == [][lcEpoch' >= lcEpoch]_allVars
-----------------------------------------------------------------------------
(***************************************************************************)
(* The inductive invariant behind TrustsChainCommittee: the              *)
(* current run satisfies the program's inductive invariant, and the       *)
(* verifier trusts a committee of the chain.                               *)
(***************************************************************************)
LCInv ==
  /\ IInv
  /\ runs \in 0..MaxRuns
  /\ TrustsChainCommittee
=============================================================================
