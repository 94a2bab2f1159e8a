-------------------------- MODULE InclusionProofs --------------------------
(***************************************************************************)
(* Proofs about one execution of the inclusion program, for every chain,   *)
(* committee set, fault set, state space and bound that satisfy the        *)
(* module's assumptions.                                                   *)
(***************************************************************************)
EXTENDS Inclusion, ChainProofs

LEMMA SignedLedgerInfoHeader ==
  ASSUME NEW l \in SignedLedgerInfos
  PROVE  l.header \in LedgerHeader
BY DEF SignedLedgerInfos

\* A ledger info holding a quorum of a chain committee is the chain's.
LEMMA QuorumLedgerInfoIsGenuine ==
  ASSUME NEW l \in SignedLedgerInfos, NEW e \in Epochs,
         VerifySignatures(l.sigs, ChainCommittee[e]) = "Ok"
  PROVE  GenuineHeader(l.header)
<1>1. PICK h \in LedgerHeader :
        /\ l.header = h
        /\ l.sigs \in SignerLists(CanSign(GenuineHeader(h), h.epoch))
  BY DEF SignedLedgerInfos
<1>2. GenuineHeader(h) \in BOOLEAN
  BY DEF GenuineHeader
<1>3. QED
  BY <1>1, <1>2, QuorumNeedsHonestSigner

\* A verified accumulator proof puts the leaf at the index of the root's list.
LEMMA AccVerifyPosition ==
  ASSUME NEW acc \in TxnLists, NEW t, NEW i, NEW p \in AccProofs,
         AccVerify(acc, t, i, p)
  PROVE  i \in Nat /\ i < Len(acc) /\ acc[i + 1] = t
<1> USE InclusionAssumption
<1>1. PICK L \in TxnLists : p.txns = L /\ p.index \in 0..(Len(L) - 1)
  BY DEF AccProofs
<1>2. L \in Seq(TxInfos) /\ acc \in Seq(TxInfos)
  OBVIOUS
<1>3. i = p.index /\ acc = [L EXCEPT ![i + 1] = t]
  BY <1>1 DEF AccVerify
<1>4. DOMAIN acc = 1..Len(L)
  BY <1>1, <1>2, <1>3
<1>5. QED
  BY <1>1, <1>2, <1>3, <1>4

\* Every root the sparse proof reconstructs is a root of the model.
LEMMA ReconstructInRoots ==
  ASSUME NEW p \in SparseProofs, NEW k \in Bytes32, NEW v \in Bytes32
  PROVE  Reconstruct(p, k, v) \in Roots
<1>1. CASE k = p.key
  <2>1. [p.tree EXCEPT ![k] = v] \in [StateKeys -> Bytes32]
    BY DEF SparseProofs, StateMaps, Bytes32
  <2>2. QED
    BY <1>1, <2>1 DEF Reconstruct, Roots
<1>2. CASE k # p.key
  BY <1>2 DEF Reconstruct, Roots
<1>3. QED
  BY <1>1, <1>2

(***************************************************************************)
(* The collision-resistance argument of verify_by_hash: a reconstructed   *)
(* root that is the root of a state tree s comes from a leaf (k, v) that  *)
(* s holds.                                                                *)
(***************************************************************************)
LEMMA ReconstructSound ==
  ASSUME NEW p \in SparseProofs, NEW k, NEW v, NEW s,
         Reconstruct(p, k, v) = SmtRoot(s)
  PROVE  k \in StateKeys /\ s[k] = v
<1>1. CASE k = p.key
  <2>1. [p.tree EXCEPT ![k] = v] = s
    BY <1>1 DEF Reconstruct, SmtRoot
  <2>2. k \in DOMAIN p.tree
    BY <1>1 DEF SparseProofs, StateMaps
  <2>3. QED
    BY <1>1, <2>1, <2>2 DEF SparseProofs
<1>2. CASE k # p.key
  BY <1>2 DEF Reconstruct, SmtRoot
<1>3. QED
  BY <1>1, <1>2

\* An abort before the commit step keeps the invariant.
LEMMA AbortKeepsIInv ==
  ASSUME IInv, pc # "done", NEW e \in Errors, Abort(e)
  PROVE  IInv'
BY DEF IInv, TypeOK, InclusionProgress, Abort

\* The program starts in a state of IInv.
LEMMA InclusionInit == Init => IInv
BY InclusionAssumption DEF Init, IInv, TypeOK, InclusionProgress

(***************************************************************************)
(* Every step of the program, or a stutter, keeps IInv.                   *)
(***************************************************************************)
LEMMA InclusionStep == IInv /\ [Next]_vars => IInv'
<1> USE ChainAssumption, InclusionAssumption
<1>2. IInv /\ [Next]_vars => IInv'
  <2> SUFFICES ASSUME IInv, [Next]_vars PROVE IInv'
    OBVIOUS
  <2>1. ASSUME NEW vv \in Committees \cup {Malformed}, DecodeVerifier(vv)
        PROVE  IInv'
    <3>1. CASE vv = Malformed
      BY <2>1, <3>1, AbortKeepsIInv DEF DecodeVerifier, Errors
    <3>2. CASE vv # Malformed
      BY <2>1, <3>2 DEF DecodeVerifier, IInv, TypeOK, InclusionProgress
    <3>3. QED
      BY <3>1, <3>2
  <2>2. ASSUME NEW t \in TxInfos \cup {Malformed},
               NEW i \in (0..MaxIndex) \cup {Malformed},
               NEW p \in AccProofs \cup {Malformed},
               NEW l \in SignedLedgerInfos \cup {Malformed},
               VerifyTransaction(t, i, p, l)
        PROVE  IInv'
    <3>1. CASE Malformed \in {t, i, p, l}
      BY <2>2, <3>1, AbortKeepsIInv DEF VerifyTransaction, Errors
    <3>2. CASE Malformed \notin {t, i, p, l} /\ ~AccVerify(l.header.txns, t, i, p)
      BY <2>2, <3>2, AbortKeepsIInv DEF VerifyTransaction, Errors
    <3>3. CASE Malformed \notin {t, i, p, l} /\ AccVerify(l.header.txns, t, i, p)
      <4>1. l \in SignedLedgerInfos /\ t \in TxInfos /\ p \in AccProofs
            /\ i \in 0..MaxIndex
        BY <3>3
      <4>2. l.header.txns \in TxnLists
        BY <4>1, SignedLedgerInfoHeader DEF LedgerHeader
      <4>3. index' < Len(li'.header.txns) /\ li'.header.txns[index' + 1] = tx'
        BY <2>2, <3>3, <4>1, <4>2, AccVerifyPosition DEF VerifyTransaction
      <4>4. QED
        BY <2>2, <3>3, <4>1, <4>3 DEF VerifyTransaction, IInv, TypeOK,
           InclusionProgress
    <3>4. QED
      BY <3>1, <3>2, <3>3
  <2>3. CASE VerifyLedger
    <3>1. CASE VerifySignatures(li.sigs, committee) = "Ok"
      BY <2>3, <3>1 DEF VerifyLedger, IInv, TypeOK, InclusionProgress
    <3>2. CASE VerifySignatures(li.sigs, committee) # "Ok"
      BY <2>3, <3>2, AbortKeepsIInv, VerifySignaturesResult
      DEF VerifyLedger, Errors
    <3>3. QED
      BY <3>1, <3>2
  <2>4. ASSUME NEW p \in SparseProofs \cup {Malformed},
               NEW k \in Bytes32 \cup {Malformed},
               NEW v \in Bytes32 \cup {Malformed},
               VerifyState(p, k, v)
        PROVE  IInv'
    <3>1. CASE Malformed \in {p, k, v}
      BY <2>4, <3>1, AbortKeepsIInv DEF VerifyState, Errors
    <3>2. CASE Malformed \notin {p, k, v} /\ tx.checkpoint = None
      BY <2>4, <3>2, AbortKeepsIInv DEF VerifyState, Errors
    <3>3. CASE Malformed \notin {p, k, v} /\ tx.checkpoint # None
      <4>1. p \in SparseProofs /\ k \in Bytes32 /\ v \in Bytes32
        BY <3>3
      <4>2. root' \in Roots
        BY <2>4, <3>3, <4>1, ReconstructInRoots DEF VerifyState
      <4>3. QED
        BY <2>4, <3>3, <4>1, <4>2 DEF VerifyState, IInv, TypeOK,
           InclusionProgress
    <3>4. QED
      BY <3>1, <3>2, <3>3
  <2>5. CASE CommitOutputs
    <3>1. committed = <<>>
      BY <2>5 DEF CommitOutputs, IInv, InclusionProgress
    <3>2. committed' =
            <<VerifierHash(committee), root, li.header.block, key, value>>
      BY <2>5, <3>1 DEF CommitOutputs
    <3>3. li.header \in LedgerHeader
      BY <2>5, SignedLedgerInfoHeader DEF CommitOutputs, IInv,
         InclusionProgress
    <3> DEFINE S == {VerifierHash(c) : c \in Committees} \cup Roots
                    \cup BlockIds \cup Bytes32
    <3>a. VerifierHash(committee) \in S
      BY <2>5 DEF CommitOutputs, IInv, InclusionProgress
    <3>b. root \in S
      <4>1. PICK p \in SparseProofs : root = Reconstruct(p, key, value)
        BY <2>5 DEF CommitOutputs, IInv, InclusionProgress
      <4>2. key \in Bytes32 /\ value \in Bytes32
        BY <2>5 DEF CommitOutputs, IInv, InclusionProgress
      <4>3. QED
        BY <4>1, <4>2, ReconstructInRoots
    <3>c. li.header.block \in S /\ key \in S /\ value \in S
      BY <2>5, <3>3 DEF CommitOutputs, IInv, InclusionProgress, LedgerHeader
    <3>4. committed' \in Seq(S)
      BY <3>2, <3>a, <3>b, <3>c
    <3>5. QED
      BY <2>5, <3>2, <3>4 DEF CommitOutputs, IInv, TypeOK, InclusionProgress
  <2>6. CASE UNCHANGED vars
    BY <2>6 DEF vars, IInv, TypeOK, InclusionProgress
  <2>7. QED
    BY <2>1, <2>2, <2>3, <2>4, <2>5, <2>6 DEF Next
<1>3. QED
  BY <1>2

(***************************************************************************)
(* IInv holds in every state of every execution of the program.           *)
(***************************************************************************)
THEOREM InclusionIInv == Spec => []IInv
BY InclusionInit, InclusionStep, PTL DEF Spec

\* The inclusion program's variables keep their types.
THEOREM InclusionTypeCorrect == Spec => []TypeOK
BY InclusionIInv, PTL DEF IInv

(***************************************************************************)
(* What a committing run of main.rs establishes when its committee is one  *)
(* of the chain's: the block is real, the transaction is the block's at    *)
(* the index, and a committed root that is the transaction's checkpoint    *)
(* holds the committed key and value; for every chain and every bound.     *)
(***************************************************************************)
THEOREM CommitmentSoundness == Spec => []CommitmentSound
<1> USE ChainAssumption, InclusionAssumption
<1>1. IInv => CommitmentSound
  <2> SUFFICES ASSUME IInv, pc = "done", committee \in ChainCommittees
               PROVE  CommitmentSound
    BY DEF CommitmentSound
  <2>1. PICK e \in Epochs : committee = ChainCommittee[e]
    BY DEF ChainCommittees
  <2>2. li \in SignedLedgerInfos /\ VerifySignatures(li.sigs, committee) = "Ok"
    BY DEF IInv, InclusionProgress
  <2>3. GenuineHeader(li.header)
    BY <2>1, <2>2, QuorumLedgerInfoIsGenuine
  <2>4. committed = <<VerifierHash(committee), root, li.header.block, key, value>>
    BY DEF IInv, InclusionProgress
  <2>5. index < Len(ChainBlock[li.header.block].txns)
        /\ tx = ChainBlock[li.header.block].txns[index + 1]
    BY <2>3 DEF IInv, InclusionProgress, GenuineHeader
  <2>6. ASSUME committed[2] = SmtRoot(tx.checkpoint)
        PROVE  committed[4] \in StateKeys /\ tx.checkpoint[committed[4]] = committed[5]
    <3>1. PICK p \in SparseProofs : root = Reconstruct(p, key, value)
      BY DEF IInv, InclusionProgress
    <3>2. Reconstruct(p, key, value) = SmtRoot(tx.checkpoint)
      BY <2>4, <2>6, <3>1
    <3>3. \A k, v, t : Reconstruct(p, k, v) = SmtRoot(t) =>
                        k \in StateKeys /\ t[k] = v
      BY ReconstructSound
    <3>6. key \in StateKeys /\ tx.checkpoint[key] = value
      BY <3>2, <3>3
    <3>4. committed[4] = key /\ committed[5] = value
      BY <2>4
    <3>5. QED
      BY <3>6, <3>4
  <2>7. QED
    BY <2>4, <2>3, <2>5, <2>6 DEF CommitmentSound
<1>2. QED
  BY <1>1, InclusionIInv, PTL
=============================================================================
