------------------------------- MODULE Chain -------------------------------
(***************************************************************************)
(* The real chain and the adversary the zkVM programs face: the committee  *)
(* of every epoch, the keys of dishonest validators, and which signatures   *)
(* a prover can put in a ledger info.  Shared by EpochChange and           *)
(* Inclusion.                                                               *)
(***************************************************************************)
EXTENDS ValidatorVerifier

CONSTANTS
  Faulty,          \* keys whose owner signs whatever the prover asks
  MaxEpoch,        \* the epochs of the real chain are 0..MaxEpoch
  ChainCommittee,  \* ChainCommittee[e]: the committee governing epoch e
  Committees,      \* the committees an input may carry (real and made up)
  MaxSigs,         \* the most signatures a ledger info carries
  None,            \* an absent optional value
  Malformed        \* an input whose bytes do not decode

Epochs == 0..MaxEpoch

ASSUME ChainAssumption ==
  /\ Faulty \subseteq Keys
  /\ MaxEpoch \in Nat
  /\ Committees \subseteq Committee
  /\ ChainCommittee \in [Epochs -> Committees]
  /\ MaxSigs \in Nat
  /\ None \notin Committee

(***************************************************************************)
(* The fault assumption: no set of faulty members of a committee of the   *)
(* chain holds a quorum of it.  It follows from "faulty power < 1/3".     *)
(***************************************************************************)
ASSUME FaultAssumption ==
  \A e \in Epochs :
    \A S \in SUBSET (Faulty \cap DOMAIN ChainCommittee[e]) :
      ~HasQuorum(ChainCommittee[e], S)

(***************************************************************************)
(* The keys whose signature over a header of epoch e the prover can put in *)
(* a ledger info: a faulty key signs anything; any other key signs only    *)
(* the real chain's headers of an epoch whose committee it belongs to      *)
(* (the prover may copy those signatures).                                 *)
(***************************************************************************)
CanSign(genuine, e) ==
  Faulty \cup (IF genuine THEN DOMAIN ChainCommittee[e] ELSE {})

\* The signer lists of a ledger info whose signers are drawn from S.
SignerLists(S) == UNION {[1..n -> S] : n \in 0..MaxSigs}

(***************************************************************************)
(* The signer lists the hosts' simulated chain (AptosWrapper, not under    *)
(* src/) puts in a ledger info of committee c: distinct members of c that  *)
(* hold a quorum of it (95 of 130 equal-power validators sign).            *)
(***************************************************************************)
HonestSignerLists(c) ==
  {s \in SignerLists(DOMAIN c) : IsInjective(s) /\ HasQuorum(c, Range(s))}
=============================================================================
