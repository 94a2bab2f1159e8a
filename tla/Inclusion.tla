----------------------------- MODULE Inclusion -----------------------------
(***************************************************************************)
(* One execution of the inclusion zkVM program                             *)
(* (src/programs/inclusion/src/main.rs) with the verifiers it calls        *)
(* (spec 4.1, 4.3, 4.4; not under src/).  The prover chooses every input.  *)
(*                                                                         *)
(* Hashes are modelled by what collision resistance lets a proof show:     *)
(* an accumulator root is the list of transactions it authenticates, and a *)
(* state root is the key/value map of the state tree.  A proof, of either  *)
(* kind, is the sibling path of one position in some tree; the root it     *)
(* reconstructs from a leaf is the root of that tree with the leaf put in  *)
(* at that position, if the leaf's index or key selects the same path, and *)
(* a root of no known tree otherwise.                                      *)
(*                                                                         *)
(* Each handler takes the decoded inputs it uses as parameters; Malformed  *)
(* stands for bytes that do not decode.  Spec chooses them for a prover    *)
(* that controls all inputs, each at the step that first uses it (the      *)
(* reads of lines 13-22 come first, but no step depends on an input before *)
(* it uses it); module InclusionHost feeds them from the host's stdin.     *)
(***************************************************************************)
EXTENDS Chain

CONSTANTS
  StateKeys,     \* the keys of the state tree
  StateValues,   \* the value hashes a state leaf may hold
  TxIds,         \* what tells two transactions apart besides their checkpoint
  BlockIds,      \* the block identifiers of the chain
  ChainBlock,    \* ChainBlock[b]: the epoch and transaction list of block b
  TxnLists,      \* the transaction lists a prover can build an accumulator of
  MaxIndex       \* transaction_index ranges over 0..MaxIndex (a u64)

\* A state tree, and the root hash of one.
StateMaps == [StateKeys -> StateValues]
SmtRoot(s) == <<"SmtRoot", s>>

\* TransactionInfo: its content and its optional state-checkpoint hash.
TxInfos == [id : TxIds, checkpoint : StateMaps \cup {None}]

ASSUME InclusionAssumption ==
  /\ TxnLists \subseteq Seq(TxInfos)
  /\ ChainBlock \in [BlockIds -> [epoch : Epochs, txns : TxnLists]]
  /\ MaxIndex \in Nat
  /\ \A L \in TxnLists : Len(L) <= MaxIndex + 1   \* a u64 index reaches every leaf
  /\ Malformed \notin Committee

\* The 32-byte inputs key and leaf_value_hash.
Bytes32 == StateKeys \cup StateValues

\* The ledger header as the inclusion program reads it: epoch, block id and
\* the transaction accumulator root (the list it authenticates).
LedgerHeader == [epoch : Epochs, block : BlockIds, txns : TxnLists]

\* A header of the real chain.
GenuineHeader(h) ==
  /\ h.epoch = ChainBlock[h.block].epoch
  /\ h.txns = ChainBlock[h.block].txns

SignedLedgerInfos ==
  UNION {{[header |-> h, sigs |-> s] :
            s \in SignerLists(CanSign(GenuineHeader(h), h.epoch))} :
           h \in LedgerHeader}

\* A sparse Merkle proof: the sibling path of key in tree.
SparseProofs == [key : StateKeys, tree : StateMaps]

\* A transaction accumulator proof: the sibling path of a position of a list.
AccProofs == UNION {[txns : {L}, index : 0..(Len(L) - 1)] : L \in TxnLists}

\* Bytes that do not decode give none of the program's decoded inputs.
ASSUME InclusionDecodeAssumption ==
  Malformed \notin TxInfos \cup Nat \cup AccProofs \cup SignedLedgerInfos
                    \cup SparseProofs \cup Bytes32

(***************************************************************************)
(* TransactionAccumulatorProof::verify(root, leaf, index) (spec 4.3): the  *)
(* bits of index choose the path, so the leaf goes in at the proof's own   *)
(* position only when index is that position; the reconstructed root must *)
(* equal the expected one.                                                 *)
(***************************************************************************)
AccVerify(root, t, i, p) ==
  /\ i = p.index
  /\ [p.txns EXCEPT ![i + 1] = t] = root

(***************************************************************************)
(* SparseMerkleProof::verify_by_hash(expected, key, value_hash) returns    *)
(* the root it reconstructs and does not compare it with expected          *)
(* (spec 4.4).                                                             *)
(***************************************************************************)
Reconstruct(p, k, v) ==
  IF k = p.key THEN SmtRoot([p.tree EXCEPT ![k] = v])
               ELSE <<"SmtPath", p, k, v>>

\* A leaf may carry any 32 bytes, so a reconstructed tree may hold values
\* outside StateValues.
Roots == {SmtRoot(s) : s \in [StateKeys -> Bytes32]} \cup
         {<<"SmtPath", p, k, v>> : p \in SparseProofs, k \in Bytes32,
                                   v \in Bytes32}

Errors == {"DeserializationError", "AccumulatorError", "UnknownSigner",
           "DuplicateSigner", "InvalidQuorum", "StateCheckpointMissing"}

VARIABLES
  pc,         \* "start", "decoded", "txVerified", "ledgerVerified",
              \* "stateVerified", "done" or "aborted"
  committee,  \* validator_verifier
  tx,         \* transaction
  index,      \* transaction_index
  li,         \* latest_li
  key,        \* key
  value,      \* leaf_value_hash
  root,       \* reconstructed_root_hash
  committed,  \* the public values committed so far
  err         \* the error of an aborted execution

vars == <<pc, committee, tx, index, li, key, value, root, committed, err>>

TypeOK ==
  /\ pc \in {"start", "decoded", "txVerified", "ledgerVerified",
             "stateVerified", "done", "aborted"}
  /\ committee \in Committees \cup {None}
  /\ tx \in TxInfos \cup {None}
  /\ index \in 0..MaxIndex
  /\ li \in SignedLedgerInfos \cup {None}
  /\ key \in Bytes32 \cup {None}
  /\ value \in Bytes32 \cup {None}
  /\ root \in Roots \cup {None}
  /\ committed \in Seq({VerifierHash(c) : c \in Committees} \cup Roots
                       \cup BlockIds \cup Bytes32)
  /\ err \in Errors \cup {None}

Init ==
  /\ pc = "start"
  /\ committee = None /\ tx = None /\ index = 0 /\ li = None
  /\ key = None /\ value = None /\ root = None
  /\ committed = <<>>
  /\ err = None

\* A failed expect: the execution aborts with no further commitment.
Abort(e) ==
  /\ pc' = "aborted"
  /\ err' = e
  /\ UNCHANGED <<committee, tx, index, li, key, value, root, committed>>

(***************************************************************************)
(* Lines 13-25: read the inputs and decode the committee.                  *)
(***************************************************************************)
DecodeVerifier(vv) ==
  /\ pc = "start"
  /\ \/ /\ vv = Malformed
        /\ Abort("DeserializationError")
     \/ /\ vv # Malformed
        /\ committee' = vv
        /\ pc' = "decoded"
        /\ UNCHANGED <<tx, index, li, key, value, root, committed, err>>

\* A plausible bug of lines 37-38: the proof checked against the root it
\* reconstructs itself rather than the ledger header's.
VerifyTransactionAgainstProofRoot(t, i, p, l) ==
  /\ pc = "decoded"
  /\ \/ /\ Malformed \in {t, i, p, l}
        /\ Abort("DeserializationError")
     \/ /\ Malformed \notin {t, i, p, l}
        /\ ~AccVerify(p.txns, t, i, p)
        /\ Abort("AccumulatorError")
     \/ /\ Malformed \notin {t, i, p, l}
        /\ AccVerify(p.txns, t, i, p)
        /\ tx' = t /\ index' = i /\ li' = l
        /\ pc' = "txVerified"
        /\ UNCHANGED <<committee, key, value, root, committed, err>>

(***************************************************************************)
(* Lines 28-39: decode the transaction, its accumulator proof and the      *)
(* ledger info, and verify the transaction at the index under the          *)
(* header's accumulator root.                                              *)
(***************************************************************************)
VerifyTransaction(t, i, p, l) ==
  /\ pc = "decoded"
  /\ \/ /\ Malformed \in {t, i, p, l}
        /\ Abort("DeserializationError")
     \/ /\ Malformed \notin {t, i, p, l}
        /\ ~AccVerify(l.header.txns, t, i, p)
        /\ Abort("AccumulatorError")
     \/ /\ Malformed \notin {t, i, p, l}
        /\ AccVerify(l.header.txns, t, i, p)
        /\ tx' = t /\ index' = i /\ li' = l
        /\ pc' = "txVerified"
        /\ UNCHANGED <<committee, key, value, root, committed, err>>

(***************************************************************************)
(* Lines 40-42: verify the ledger info's signatures against the committee. *)
(***************************************************************************)
VerifyLedger ==
  /\ pc = "txVerified"
  /\ \/ /\ VerifySignatures(li.sigs, committee) = "Ok"
        /\ pc' = "ledgerVerified"
        /\ UNCHANGED <<committee, tx, index, li, key, value, root,
                       committed, err>>
     \/ /\ VerifySignatures(li.sigs, committee) # "Ok"
        /\ Abort(VerifySignatures(li.sigs, committee))

(***************************************************************************)
(* Lines 43-55: decode the sparse proof, take the transaction's state      *)
(* checkpoint and reconstruct the root from the leaf (key, value).  The    *)
(* reconstructed root is kept whether or not it equals the checkpoint.     *)
(* A proof whose sibling count is wrong is one that does not decode here.  *)
(***************************************************************************)
VerifyState(p, k, v) ==
  /\ pc = "ledgerVerified"
  /\ \/ /\ Malformed \in {p, k, v}
        /\ Abort("DeserializationError")
     \/ /\ Malformed \notin {p, k, v}
        /\ tx.checkpoint = None
        /\ Abort("StateCheckpointMissing")
     \/ /\ Malformed \notin {p, k, v}
        /\ tx.checkpoint # None
        /\ key' = k /\ value' = v
        /\ root' = Reconstruct(p, k, v)
        /\ pc' = "stateVerified"
        /\ UNCHANGED <<committee, tx, index, li, committed, err>>

(***************************************************************************)
(* Lines 57-70: commit the committee hash, the reconstructed root, the     *)
(* block id, the key and the value hash, in this order.                    *)
(***************************************************************************)
CommitOutputs ==
  /\ pc = "stateVerified"
  /\ committed' = committed \o
       <<VerifierHash(committee), root, li.header.block, key, value>>
  /\ pc' = "done"
  /\ UNCHANGED <<committee, tx, index, li, key, value, root, err>>

\* The prover's inputs: every value of each type, and bytes that do not decode.
Next ==
  \/ \E vv \in Committees \cup {Malformed} : DecodeVerifier(vv)
  \/ \E t \in TxInfos \cup {Malformed}, i \in (0..MaxIndex) \cup {Malformed},
       p \in AccProofs \cup {Malformed}, l \in SignedLedgerInfos \cup {Malformed} :
       VerifyTransaction(t, i, p, l)
  \/ VerifyLedger
  \/ \E p \in SparseProofs \cup {Malformed}, k, v \in Bytes32 \cup {Malformed} :
       VerifyState(p, k, v)
  \/ CommitOutputs

Spec == Init /\ [][Next]_vars

-----------------------------------------------------------------------------
\* The committees of the real chain.
ChainCommittees == {ChainCommittee[e] : e \in Epochs}

(***************************************************************************)
(* What the public values of a run establish, when the committee they      *)
(* name is one of the chain's: the block is a real block, signed as the    *)
(* chain signed it; the verified transaction is the one at the index in    *)
(* it; and, if the committed root is that transaction's state checkpoint,  *)
(* the committed key holds the committed value in that state.  This is     *)
(* the guarantee of lines 37-55 of main.rs, resting on the fault           *)
(* assumption and on collision resistance.                                 *)
(***************************************************************************)
CommitmentSound ==
  pc = "done" /\ committee \in ChainCommittees =>
    /\ GenuineHeader(li.header)
    /\ committed[3] = li.header.block
    /\ index < Len(ChainBlock[li.header.block].txns)
    /\ tx = ChainBlock[li.header.block].txns[index + 1]
    /\ committed[2] = SmtRoot(tx.checkpoint) =>
         committed[4] \in StateKeys /\ tx.checkpoint[committed[4]] = committed[5]

(***************************************************************************)
(* Spec 8: tampering with the sparse proof, the key or the value hash of   *)
(* an otherwise valid input makes the program abort before any             *)
(* commitment; that is, when the committee is the chain's, a committed     *)
(* root is the state checkpoint of the verified transaction.  main.rs      *)
(* passes the checkpoint to verify_by_hash but never compares the root it  *)
(* returns with it.                                                        *)
(***************************************************************************)
CommittedRootIsCheckpoint ==
  pc = "done" /\ committee \in ChainCommittees =>
    committed[2] = SmtRoot(tx.checkpoint)

-----------------------------------------------------------------------------
(***************************************************************************)
(* The strengthening of CommitmentSound that is inductive: what each stage *)
(* of main has established about the inputs it has decoded so far, and     *)
(* what it commits at the end.                                             *)
(***************************************************************************)
InclusionProgress ==
  /\ pc \in {"decoded", "txVerified", "ledgerVerified", "stateVerified",
            "done"} => committee \in Committees
  /\ pc \in {"txVerified", "ledgerVerified", "stateVerified", "done"} =>
       /\ tx \in TxInfos
       /\ li \in SignedLedgerInfos
       /\ index < Len(li.header.txns)
       /\ li.header.txns[index + 1] = tx
  /\ pc \in {"ledgerVerified", "stateVerified", "done"} =>
       VerifySignatures(li.sigs, committee) = "Ok"
  /\ pc \in {"stateVerified", "done"} =>
       /\ tx.checkpoint # None
       /\ key \in Bytes32 /\ value \in Bytes32
       /\ \E p \in SparseProofs : root = Reconstruct(p, key, value)
  /\ pc = "done" =>
       committed = <<VerifierHash(committee), root, li.header.block, key, value>>
  /\ pc # "done" => committed = <<>>

IInv == TypeOK /\ InclusionProgress
=============================================================================
