------------------------- MODULE ValidatorVerifier -------------------------
(***************************************************************************)
(* The validator committee ("ValidatorVerifier") and the check of a ledger *)
(* header's signatures against it (spec 4.1).  The committee type and      *)
(* verify_signatures live in aptos_lc_core, which is not under src/: these *)
(* definitions follow the spec.                                            *)
(*                                                                         *)
(* A committee is a function from the public keys of its members to their *)
(* voting power.  The code keeps the members in an ordered list and hashes *)
(* that list; the order is not modelled, and the hash of a committee is an *)
(* injective tag on the committee value (collision resistance).            *)
(***************************************************************************)
EXTENDS Naturals, Sequences, Functions

CONSTANTS
  Keys,       \* every public key that can sign: members of some committee or not
  MaxPower    \* the largest voting power a member can have

ASSUME PowerAssumption == MaxPower \in Nat \ {0}

\* All committees: a non-empty set of members, each with positive power.
Committee == UNION {[S -> 1..MaxPower] : S \in (SUBSET Keys) \ {{}}}

\* hash(committee): a 32-byte digest, injective on committees.
VerifierHash(c) == <<"ValidatorVerifierHash", c>>

TotalVotingPower(c) == SumFunction(c)

\* The voting power of the distinct members in S.
SignedVotingPower(c, S) == SumFunctionOnSet(c, S)

\* More than two thirds of the committee's power (spec 4.1).
HasQuorum(c, S) == 3 * SignedVotingPower(c, S) > 2 * TotalVotingPower(c)

\* A plausible bug of the quorum check: two thirds of the power is enough.
VerifySignaturesAtTwoThirds(sigs, c) ==
  IF ~(Range(sigs) \subseteq DOMAIN c) THEN "UnknownSigner"
  ELSE IF ~IsInjective(sigs) THEN "DuplicateSigner"
  ELSE IF 3 * SignedVotingPower(c, Range(sigs)) >= 2 * TotalVotingPower(c)
       THEN "Ok"
  ELSE "InvalidQuorum"

(***************************************************************************)
(* verify_signatures(ledger_info, committee): sigs is the list of signer  *)
(* keys of the signatures the ledger info carries.  A signer outside the  *)
(* committee is UnknownSigner, a signer listed twice DuplicateSigner, and *)
(* the distinct signers must hold more than 2/3 of the power.  The code   *)
(* walks the list and reports the first bad signature it meets; which of *)
(* the two errors is reported when both occur is not modelled.            *)
(***************************************************************************)
VerifySignatures(sigs, c) ==
  IF ~(Range(sigs) \subseteq DOMAIN c) THEN "UnknownSigner"
  ELSE IF ~IsInjective(sigs) THEN "DuplicateSigner"
  ELSE IF HasQuorum(c, Range(sigs)) THEN "Ok"
  ELSE "InvalidQuorum"
=============================================================================
