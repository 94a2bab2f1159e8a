---------------------------- MODULE ChainProofs ----------------------------
(***************************************************************************)
(* Facts about signature verification against the chain, used by the      *)
(* proofs about both programs.                                             *)
(***************************************************************************)
EXTENDS Chain, TLAPS

\* The outcomes of verify_signatures.
LEMMA VerifySignaturesResult ==
  ASSUME NEW s, NEW c
  PROVE  VerifySignatures(s, c) \in {"Ok", "UnknownSigner", "DuplicateSigner",
                                     "InvalidQuorum"}
BY DEF VerifySignatures

(***************************************************************************)
(* A ledger info whose signatures pass verify_signatures against a         *)
(* committee of the chain carries the signature of a key that is not      *)
(* faulty, so its header is one the honest keys signed (g holds): the     *)
(* faulty members alone hold no quorum.                                    *)
(***************************************************************************)
LEMMA QuorumNeedsHonestSigner ==
  ASSUME NEW g \in BOOLEAN, NEW e0,
         NEW sigs \in SignerLists(CanSign(g, e0)),
         NEW e \in Epochs,
         VerifySignatures(sigs, ChainCommittee[e]) = "Ok"
  PROVE  g
<1> DEFINE c == ChainCommittee[e]
<1>1. PICK n \in 0..MaxSigs : sigs \in [1..n -> CanSign(g, e0)]
  BY DEF SignerLists
<1>2. Range(sigs) \subseteq DOMAIN c /\ HasQuorum(c, Range(sigs))
  BY DEF VerifySignatures
<1>3. SUFFICES ASSUME ~g PROVE FALSE
  OBVIOUS
<1>4. CanSign(g, e0) = Faulty
  BY <1>3 DEF CanSign
<1>5. Range(sigs) \in SUBSET (Faulty \cap DOMAIN c)
  BY <1>1, <1>2, <1>4 DEF Range
<1>6. QED
  BY <1>2, <1>5, FaultAssumption

\* A signer list drawn from S is drawn from any superset of S.
LEMMA SignerListsMonotone ==
  ASSUME NEW S, NEW T, S \subseteq T
  PROVE  SignerLists(S) \subseteq SignerLists(T)
BY DEF SignerLists

(***************************************************************************)
(* The signatures the simulated chain puts in a ledger info of committee c *)
(* pass verify_signatures against c, and a prover can hold them when the   *)
(* header is the real chain's.                                             *)
(***************************************************************************)
LEMMA HonestSignersVerify ==
  ASSUME NEW c, NEW s \in HonestSignerLists(c)
  PROVE  VerifySignatures(s, c) = "Ok"
<1>1. s \in SignerLists(DOMAIN c) /\ IsInjective(s) /\ HasQuorum(c, Range(s))
  BY DEF HonestSignerLists
<1>2. Range(s) \subseteq DOMAIN c
  BY <1>1 DEF SignerLists, Range
<1>3. QED
  BY <1>1, <1>2 DEF VerifySignatures

LEMMA HonestSignersCanSign ==
  ASSUME NEW e, NEW s \in HonestSignerLists(ChainCommittee[e])
  PROVE  s \in SignerLists(CanSign(TRUE, e))
<1>1. DOMAIN ChainCommittee[e] \subseteq CanSign(TRUE, e)
  BY DEF CanSign
<1>2. QED
  BY <1>1, SignerListsMonotone DEF HonestSignerLists

\* Equal committee hashes come from the same committee (collision resistance).
LEMMA VerifierHashInjective ==
  ASSUME NEW a, NEW b, VerifierHash(a) = VerifierHash(b)
  PROVE  a = b
BY DEF VerifierHash
=============================================================================
