------------------------- MODULE LightClientProofs -------------------------
(***************************************************************************)
(* Proofs about the verifier that chains the epoch-change program's       *)
(* outputs, for every chain, fault set and bound that satisfy the         *)
(* assumptions: whatever runs the prover submits, the verifier only       *)
(* trusts committees of the real chain.                                    *)
(***************************************************************************)
EXTENDS LightClient, EpochChangeProofs

\* The verifier starts in a state of LCInv.
LEMMA LCInitLCInv == LCInit => LCInv
<1> SUFFICES ASSUME LCInit PROVE LCInv
  OBVIOUS
<1>1. IInv
  BY InitIInv DEF LCInit
<1>2. runs \in 0..MaxRuns /\ TrustsChainCommittee
  BY RunsAssumption, ChainAssumption DEF LCInit, TrustsChainCommittee, Epochs
<1>3. QED
  BY <1>1, <1>2 DEF LCInv

(***************************************************************************)
(* Delivering a run resets the program to its initial state, which         *)
(* satisfies IInv.                                                         *)
(***************************************************************************)
LEMMA DeliverIInv == Deliver => IInv'
BY ProofLenAssumption DEF Deliver, IInv, TypeOK, RatchetProgress,
   RatchetOnChain, AdoptedOnChain

(***************************************************************************)
(* A run the verifier accepts started from the committee it trusts, a     *)
(* committee of the chain (of some epoch, perhaps not the trusted state's *)
(* own); so the committee it commits last is the real one of the epoch    *)
(* its ratchet reached, which the verifier trusts from then on.           *)
(***************************************************************************)
LEMMA DeliverTrusts ==
  ASSUME IInv, TrustsChainCommittee, Deliver
  PROVE  TrustsChainCommittee'
<1>1. CASE pc = "done" /\ committed[1] = lcTrusted
  <2>1. /\ idx = proofLen /\ 0 < proofLen
        /\ latest.next = cur.verifier
        /\ committed = << VerifierHash(trusted.verifier),
                          VerifierHash(latest.next) >>
    BY <1>1 DEF IInv, RatchetProgress
  <2>2. trusted.verifier = ChainCommittee[lcEpoch]
    BY <1>1, <2>1, VerifierHashInjective DEF TrustsChainCommittee
  <2>3. IsChainCommittee(trusted.verifier)
    BY <2>2 DEF IsChainCommittee, TrustsChainCommittee
  <2>4. cur.epoch \in Epochs /\ cur.verifier = ChainCommittee[cur.epoch]
    BY <1>1, <2>1, <2>3 DEF IInv, AdoptedOnChain
  <2>5. lcTrusted' = VerifierHash(latest.next) /\ lcEpoch' = cur.epoch
    BY <1>1, <2>1 DEF Deliver
  <2>6. QED
    BY <2>1, <2>4, <2>5 DEF TrustsChainCommittee
<1>2. CASE ~(pc = "done" /\ committed[1] = lcTrusted)
  BY <1>2 DEF Deliver, TrustsChainCommittee
<1>3. QED
  BY <1>1, <1>2

\* Every step of the verifier or of the current run keeps LCInv.
LEMMA NextLCInv == LCInv /\ [LCNext]_allVars => LCInv'
<1> SUFFICES ASSUME LCInv, [LCNext]_allVars PROVE LCInv'
  OBVIOUS
<1>1. CASE RunStep
  BY <1>1, NextIInv DEF RunStep, LCInv, lcVars, TrustsChainCommittee
<1>2. CASE Deliver
  <2>1. IInv'
    BY <1>2, DeliverIInv
  <2>2. runs' \in 0..MaxRuns
    BY <1>2, RunsAssumption DEF Deliver, LCInv
  <2>3. TrustsChainCommittee'
    BY <1>2, DeliverTrusts DEF LCInv
  <2>4. QED
    BY <2>1, <2>2, <2>3 DEF LCInv
<1>3. CASE UNCHANGED allVars
  BY <1>3, NextIInv DEF allVars, lcVars, LCInv, TrustsChainCommittee
<1>4. QED
  BY <1>1, <1>2, <1>3 DEF LCNext

(***************************************************************************)
(* LCInv holds in every state of every behaviour of the verifier.          *)
(***************************************************************************)
THEOREM LCInvariant == LCSpec => []LCInv
BY LCInitLCInv, NextLCInv, PTL DEF LCSpec

(***************************************************************************)
(* TrustsChainCommittee for every instance: a prover who feeds the program *)
(* made-up trusted states, forged or replayed entries and who has the     *)
(* faulty keys sign what it likes never makes the verifier trust a        *)
(* committee that governs no epoch of the chain.                          *)
(***************************************************************************)
THEOREM ChainCommitteeTrusted == LCSpec => []TrustsChainCommittee
BY LCInvariant, PTL DEF LCInv
=============================================================================
