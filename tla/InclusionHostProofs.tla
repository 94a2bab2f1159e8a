------------------------ MODULE InclusionHostProofs ------------------------
(***************************************************************************)
(* Proofs about the inclusion host composed with the program, for every    *)
(* chain, committee set, state space and bound that satisfy the            *)
(* assumptions: on the assets the host builds from the chain, the program  *)
(* decodes what the host wrote, passes every check, and commits the values *)
(* the host expects; prove() accepts them and prove_inclusion returns each *)
(* under its own name.                                                     *)
(***************************************************************************)
EXTENDS InclusionHost, InclusionProofs

\* In a list of distinct fields, the first position holding a field is its own.
LEMMA PositionOfDistinct ==
  ASSUME NEW s, Len(s) \in Nat, DOMAIN s = 1..Len(s), IsInjective(s),
         NEW j \in 1..Len(s)
  PROVE  PositionIn(s, s[j]) = j
<1> DEFINE I == {i \in 1..Len(s) : s[i] = s[j]}
<1>1. I = {j}
  BY DEF IsInjective
<1>2. QED
  BY <1>1 DEF PositionIn, SelectInSeq, Min

\* The program reads, and prove_inclusion reads back, distinct fields.
LEMMA ReadsDistinct ==
  /\ Len(ProgramReads) = 8 /\ DOMAIN ProgramReads = 1..8
  /\ IsInjective(ProgramReads)
  /\ Len(LibraryReads) = 5 /\ DOMAIN LibraryReads = 1..5
  /\ IsInjective(LibraryReads)
<1>1. /\ Len(ProgramReads) = 8 /\ DOMAIN ProgramReads = 1..8
      /\ Len(LibraryReads) = 5 /\ DOMAIN LibraryReads = 1..5
  BY DEF ProgramReads, LibraryReads
<1>2. IsInjective(ProgramReads)
  BY DEF ProgramReads, IsInjective
<1>3. IsInjective(LibraryReads)
  BY DEF LibraryReads, IsInjective
<1>4. QED
  BY <1>1, <1>2, <1>3

\* The stdin every writer of the host produces.
HonestStdin ==
  [j \in 1..Len(ProgramReads) |->
     [field |-> ProgramReads[j], val |-> assets[ProgramReads[j]]]]

(***************************************************************************)
(* On the stdin the host writes, the program decodes each field it reads  *)
(* to the asset of that name.                                              *)
(***************************************************************************)
LEMMA HonestIn ==
  ASSUME stdin = HonestStdin, NEW j \in 1..Len(ProgramReads)
  PROVE  In(ProgramReads[j]) = assets[ProgramReads[j]]
<1>1. PositionIn(ProgramReads, ProgramReads[j]) = j
  <2>1. /\ Len(ProgramReads) \in Nat
        /\ DOMAIN ProgramReads = 1..Len(ProgramReads)
        /\ IsInjective(ProgramReads)
    BY ReadsDistinct
  <2>2. QED
    BY <2>1, PositionOfDistinct
<1>2. stdin[j] = [field |-> ProgramReads[j], val |-> assets[ProgramReads[j]]]
  BY DEF HonestStdin
<1>3. QED
  BY <1>1, <1>2 DEF In, Interpret, HonestStdin

\* A genuine header signed by signers that may sign it is a ledger info the
\* prover can supply.
LEMMA GenuineSigned ==
  ASSUME NEW hd \in LedgerHeader, GenuineHeader(hd),
         NEW s \in SignerLists(CanSign(TRUE, hd.epoch))
  PROVE  [header |-> hd, sigs |-> s] \in SignedLedgerInfos
<1>1. [header |-> hd, sigs |-> s]
        \in {[header |-> hd, sigs |-> x] :
               x \in SignerLists(CanSign(GenuineHeader(hd), hd.epoch))}
  OBVIOUS
<1>2. QED
  BY <1>1, Zenon DEF SignedLedgerInfos

\* On the host's stdin the program decodes every input to its asset.
LEMMA HonestInputs ==
  ASSUME stdin = HonestStdin
  PROVE  /\ In("sparse_merkle_proof") = assets.sparse_merkle_proof
         /\ In("key") = assets.key
         /\ In("leaf_value_hash") = assets.leaf_value_hash
         /\ In("transaction") = assets.transaction
         /\ In("transaction_index") = assets.transaction_index
         /\ In("transaction_proof") = assets.transaction_proof
         /\ In("ledger_info") = assets.ledger_info
         /\ In("validator_verifier") = assets.validator_verifier
<1>1. \A j \in 1..8 : In(ProgramReads[j]) = assets[ProgramReads[j]]
  BY HonestIn DEF ProgramReads
<1>2. QED
  BY <1>1 DEF ProgramReads
(***************************************************************************)
(* The assets the host builds from the chain are inputs the program       *)
(* decodes, and they pass each of its checks: the transaction is the       *)
(* block's at the index, under the header's accumulator root; the ledger   *)
(* info carries a quorum of the block's committee; the sparse proof        *)
(* reconstructs the transaction's checkpoint from the key and its value.   *)
(***************************************************************************)
LEMMA AssetsPass ==
  ASSUME ChainAssumption, InclusionAssumption, InclusionDecodeAssumption,
         HonestAssets
  PROVE  LET A == assets
         IN  /\ A.validator_verifier \in Committees
             /\ A.transaction \in TxInfos
             /\ A.transaction.checkpoint # None
             /\ A.transaction_index \in 0..MaxIndex
             /\ A.transaction_proof \in AccProofs
             /\ A.ledger_info \in SignedLedgerInfos
             /\ A.sparse_merkle_proof \in SparseProofs
             /\ A.key \in Bytes32 /\ A.leaf_value_hash \in Bytes32
             /\ Malformed \notin {A.transaction, A.transaction_index,
                                  A.transaction_proof, A.ledger_info}
             /\ Malformed \notin {A.sparse_merkle_proof, A.key,
                                  A.leaf_value_hash}
             /\ A.validator_verifier # Malformed
             /\ AccVerify(A.ledger_info.header.txns, A.transaction,
                          A.transaction_index, A.transaction_proof)
             /\ VerifySignatures(A.ledger_info.sigs, A.validator_verifier) = "Ok"
             /\ Reconstruct(A.sparse_merkle_proof, A.key, A.leaf_value_hash)
                  = A.state_checkpoint_hash
<1>0. PICK b \in BlockIds, k \in StateKeys :
        \E i \in 0..(Len(ChainBlock[b].txns) - 1),
           s \in HonestSignerLists(ChainCommittee[ChainBlock[b].epoch]) :
          /\ ChainBlock[b].txns[i + 1].checkpoint # None
          /\ assets = ProvingAssets(b, k, i, s)
  BY DEF HonestAssets
<1>1. PICK i \in 0..(Len(ChainBlock[b].txns) - 1),
           s \in HonestSignerLists(ChainCommittee[ChainBlock[b].epoch]) :
        /\ ChainBlock[b].txns[i + 1].checkpoint # None
        /\ assets = ProvingAssets(b, k, i, s)
  BY <1>0
<1> DEFINE txns == ChainBlock[b].txns
           e == ChainBlock[b].epoch
           t == txns[i + 1]
           c == ChainCommittee[e]
           hd == [epoch |-> e, block |-> b, txns |-> txns]
<1>2. /\ txns \in TxnLists /\ txns \in Seq(TxInfos) /\ e \in Epochs
      /\ Len(txns) <= MaxIndex + 1
  BY InclusionAssumption, ChainAssumption DEF Epochs
<1>3. t \in TxInfos /\ t.checkpoint \in StateMaps /\ i \in 0..MaxIndex
  <2>1. i + 1 \in 1..Len(txns) /\ i \in 0..MaxIndex
    BY <1>2
  <2>2. t \in TxInfos
    BY <2>1, <1>2
  <2>3. t.checkpoint \in StateMaps \cup {None} /\ t.checkpoint # None
    BY <2>2, <1>1 DEF TxInfos
  <2>4. QED
    BY <2>1, <2>2, <2>3
<1>4. assets = [sparse_merkle_proof |-> [key |-> k, tree |-> t.checkpoint],
                key |-> k,
                leaf_value_hash |-> t.checkpoint[k],
                transaction |-> t,
                transaction_index |-> i,
                transaction_proof |-> [txns |-> txns, index |-> i],
                ledger_info |-> [header |-> hd, sigs |-> s],
                validator_verifier |-> c,
                state_checkpoint_hash |-> SmtRoot(t.checkpoint)]
  BY <1>1 DEF ProvingAssets
<1>5. c \in Committees /\ c # Malformed
  BY <1>2, InclusionAssumption, ChainAssumption
<1>6. [txns |-> txns, index |-> i] \in AccProofs
  BY <1>1, <1>2 DEF AccProofs
<1>7. [header |-> hd, sigs |-> s] \in SignedLedgerInfos
  <2>1. hd \in LedgerHeader /\ GenuineHeader(hd)
    BY <1>2 DEF LedgerHeader, GenuineHeader
  <2>2. s \in SignerLists(CanSign(TRUE, hd.epoch))
    BY HonestSignersCanSign
  <2>3. QED
    BY <2>1, <2>2, GenuineSigned
<1>8. [key |-> k, tree |-> t.checkpoint] \in SparseProofs
      /\ k \in Bytes32 /\ t.checkpoint[k] \in Bytes32
  BY <1>3 DEF SparseProofs, StateMaps, Bytes32
<1>9. AccVerify(txns, t, i, [txns |-> txns, index |-> i])
  BY <1>1, <1>2 DEF AccVerify
<1>10. VerifySignatures(s, c) = "Ok"
  BY HonestSignersVerify
<1>11. Reconstruct([key |-> k, tree |-> t.checkpoint], k, t.checkpoint[k])
         = SmtRoot(t.checkpoint)
  BY <1>3 DEF Reconstruct, StateMaps
<1>12. QED
  BY <1>1, <1>3, <1>4, <1>5, <1>6, <1>7, <1>8, <1>9, <1>10, <1>11

\* The host's own steps leave the program alone, so they keep IInv.
LEMMA StutterIInv ==
  ASSUME IInv, UNCHANGED vars
  PROVE  IInv'
BY InclusionStep

\* Before the program runs, and while it has not started, it is in "start".
LEMMA NotLaunched ==
  ASSUME HostProgress, hpc \notin Launched
  PROVE  pc = "start"
BY DEF HostProgress

\* Parsing the arguments sets a mode or exits, before the program runs.
LEMMA ParseArgsHostProgress ==
  ASSUME HostProgress, ParseArgs
  PROVE  HostProgress'
<1>1. pc = "start" /\ pc' = "start"
  BY NotLaunched DEF ParseArgs, Launched, vars
<1>2. hpc' \in {"exited", "build"}
      /\ (hpc' = "build" => mode' \in {"prove", "execute", "library"})
  BY DEF ParseArgs
<1>3. hread' = hread
  BY DEF ParseArgs
<1>4. QED
  BY <1>1, <1>2, <1>3 DEF HostProgress, Launched

\* A caller of prove_inclusion sets the library mode, before the program runs.
LEMMA LibraryCallHostProgress ==
  ASSUME HostProgress, LibraryCall
  PROVE  HostProgress'
<1>1. pc = "start" /\ pc' = "start"
  BY NotLaunched DEF LibraryCall, Launched, vars
<1>2. QED
  BY <1>1 DEF LibraryCall, HostProgress, Launched

\* from_nbr_leaves either panics or builds assets from the chain.
LEMMA BuildAssetsHostProgress ==
  ASSUME HostProgress, BuildAssets
  PROVE  HostProgress'
<1>1. pc = "start" /\ pc' = "start"
  BY NotLaunched DEF BuildAssets, Launched, vars
<1>2. PICK b \in BlockIds, k \in StateKeys :
        \E i \in 0..(Len(ChainBlock[b].txns) - 1),
           s \in HonestSignerLists(ChainCommittee[ChainBlock[b].epoch]) :
          \/ /\ ChainBlock[b].txns[i + 1].checkpoint = None
             /\ hpc' = "assetPanicked"
             /\ UNCHANGED assets
          \/ /\ ChainBlock[b].txns[i + 1].checkpoint # None
             /\ assets' = ProvingAssets(b, k, i, s)
             /\ hpc' = "write"
  BY DEF BuildAssets
<1>3. PICK i \in 0..(Len(ChainBlock[b].txns) - 1),
           s \in HonestSignerLists(ChainCommittee[ChainBlock[b].epoch]) :
          \/ /\ ChainBlock[b].txns[i + 1].checkpoint = None
             /\ hpc' = "assetPanicked"
             /\ UNCHANGED assets
          \/ /\ ChainBlock[b].txns[i + 1].checkpoint # None
             /\ assets' = ProvingAssets(b, k, i, s)
             /\ hpc' = "write"
  BY <1>2
<1>4. hpc' = "write" => HonestAssets'
  BY <1>3 DEF HonestAssets
<1>5. hpc' \in {"assetPanicked", "write"} /\ mode \in {"prove", "execute", "library"}
  BY <1>3 DEF BuildAssets, HostProgress
<1>6. QED
  BY <1>1, <1>4, <1>5 DEF BuildAssets, HostProgress, Launched

\* Every writer of the host writes the fields in the order the program reads.
LEMMA WritesAgree ==
  ASSUME NEW m \in {"prove", "execute", "library"}
  PROVE  Writes(m) = ProgramReads
BY DEF Writes, ProveWrites, ExecuteWrites, LibraryWrites, ProgramReads

\* Each writer puts every asset where the program reads it.
LEMMA WriteStdinHostProgress ==
  ASSUME HostProgress, WriteStdin
  PROVE  HostProgress'
<1>1. pc = "start" /\ pc' = "start"
  BY NotLaunched DEF WriteStdin, Launched, vars
<1>2. mode \in {"prove", "execute", "library"} /\ HonestAssets
  BY DEF WriteStdin, HostProgress
<1>3. DOMAIN ProgramReads = 1..Len(ProgramReads)
  BY ReadsDistinct
<1>4. stdin' = HonestStdin
  BY <1>2, <1>3, WritesAgree DEF WriteStdin, HonestStdin
<1>5. HonestAssets'
  BY <1>2 DEF WriteStdin, HonestAssets
<1>6. QED
  BY <1>1, <1>2, <1>4, <1>5 DEF WriteStdin, HostProgress, Launched, HonestStdin

\* The prover returns on a committing run, never on an aborted one.
LEMMA ProgramEndsHostProgress ==
  ASSUME HostProgress, ProgramEnds
  PROVE  HostProgress'
<1>1. HonestAssets' = HonestAssets /\ pc = "done"
  BY DEF ProgramEnds, HonestAssets, HostProgress
<1>2. hpc' \in {"check", "reported", "read"}
  BY <1>1 DEF ProgramEnds, HostProgress
<1>3. QED
  BY <1>1, <1>2 DEF ProgramEnds, HostProgress, Launched, vars


(***************************************************************************)
(* A committing run on the host's stdin commits, in order, exactly what    *)
(* bin/inclusion.rs 173-219 expects of the assets.                         *)
(***************************************************************************)
LEMMA CommittedExpected ==
  ASSUME HostIInv, pc = "done"
  PROVE  \A j \in 1..Len(ProveReads) : committed[j] = Expected(ProveReads[j])
<1>1. committed = <<VerifierHash(committee), root, li.header.block, key, value>>
  BY DEF HostIInv, IInv, InclusionProgress
<1>2. /\ committee = assets.validator_verifier
      /\ li = assets.ledger_info
      /\ root = assets.state_checkpoint_hash
      /\ key = assets.key /\ value = assets.leaf_value_hash
  BY DEF HostIInv, HostProgress
<1>3. QED
  BY <1>1, <1>2 DEF ProveReads, Expected

\* Each assertion of bin/inclusion.rs on a public value passes.
LEMMA CheckPublicValueHostProgress ==
  ASSUME HostIInv, CheckPublicValue
  PROVE  HostProgress'
<1>1. pc = "done"
  BY DEF CheckPublicValue, HostIInv, HostProgress, Launched
<1>2. hread + 1 \in 1..Len(ProveReads)
  BY DEF CheckPublicValue, HostIInv, HostProgress, ProveReads
<1>3. committed[hread + 1] = Expected(ProveReads[hread + 1])
  BY <1>1, <1>2, CommittedExpected
<1>4. hpc' \in {"accepted", "check"}
  BY <1>3 DEF CheckPublicValue
<1>5. HonestAssets' = HonestAssets /\ ProgramOutput' = ProgramOutput
  BY DEF CheckPublicValue, HonestAssets, ProgramOutput, vars
<1>6. QED
  BY <1>1, <1>4, <1>5 DEF CheckPublicValue, HostIInv, HostProgress, Launched,
                         vars

(***************************************************************************)
(* prove_inclusion reads the public values by position, in the order the   *)
(* program commits them, so each field of the output is the program's.     *)
(***************************************************************************)
LEMMA ReadOutputHostProgress ==
  ASSUME HostIInv, ReadOutput
  PROVE  HostProgress'
<1>1. pc = "done"
  BY DEF ReadOutput, HostIInv, HostProgress, Launched
<1>2. committed = <<VerifierHash(committee), root, li.header.block, key, value>>
  BY <1>1 DEF HostIInv, IInv, InclusionProgress
<1>3. /\ PositionIn(LibraryReads, "validator_verifier_hash") = 1
      /\ PositionIn(LibraryReads, "state_hash") = 2
      /\ PositionIn(LibraryReads, "block_hash") = 3
      /\ PositionIn(LibraryReads, "key") = 4
      /\ PositionIn(LibraryReads, "value") = 5
  <2>1. /\ Len(LibraryReads) \in Nat
        /\ DOMAIN LibraryReads = 1..Len(LibraryReads)
        /\ IsInjective(LibraryReads)
    BY ReadsDistinct
  <2>2. \A j \in 1..5 : PositionIn(LibraryReads, LibraryReads[j]) = j
    BY <2>1, ReadsDistinct, PositionOfDistinct
  <2>3. QED
    BY <2>2 DEF LibraryReads
<1>4. output' = ProgramOutput
  BY <1>2, <1>3 DEF ReadOutput, ProgramOutput, OutputFields
<1>5. HonestAssets' = HonestAssets /\ ProgramOutput' = ProgramOutput
  BY DEF ReadOutput, HonestAssets, ProgramOutput, vars
<1>6. QED
  BY <1>1, <1>4, <1>5 DEF ReadOutput, HostIInv, HostProgress, Launched, vars


(***************************************************************************)
(* A program step on the host's stdin keeps HostProgress when it never     *)
(* aborts and each stage holds the assets it decoded.                      *)
(***************************************************************************)
LEMMA ProgramStepKeepsHostProgress ==
  ASSUME HostProgress, hpc = "run", UNCHANGED hostVars,
         pc' # "start" => committee' = assets.validator_verifier,
         pc' \in {"txVerified", "ledgerVerified", "stateVerified", "done"} =>
           /\ tx' = assets.transaction
           /\ index' = assets.transaction_index
           /\ li' = assets.ledger_info,
         pc' \in {"stateVerified", "done"} =>
           /\ key' = assets.key
           /\ value' = assets.leaf_value_hash
           /\ root' = assets.state_checkpoint_hash,
         pc' # "aborted"
  PROVE  HostProgress'
<1>1. /\ hpc' = "run" /\ mode' = mode /\ assets' = assets /\ stdin' = stdin
      /\ hread' = hread
  BY DEF hostVars
<1>2. HonestAssets' = HonestAssets
  BY <1>1 DEF HonestAssets
<1>3. QED
  BY <1>1, <1>2 DEF HostProgress, Launched

(***************************************************************************)
(* A step of the program on the host's stdin is a step of the program's    *)
(* Next on the decoded assets, and each of its checks passes: it never     *)
(* aborts, and each stage holds the assets.                                *)
(***************************************************************************)
LEMMA ProgramStepHostIInv ==
  ASSUME ChainAssumption, InclusionAssumption, InclusionDecodeAssumption,
         HostIInv, ProgramStep
  PROVE  HostIInv'
<1> DEFINE A == assets
<1>1. /\ hpc = "run" /\ UNCHANGED hostVars
      /\ HonestAssets /\ stdin = HonestStdin
      /\ IInv /\ HostProgress
  BY DEF ProgramStep, HostIInv, HostProgress, Launched, HonestStdin
<1>2. /\ In("sparse_merkle_proof") = A.sparse_merkle_proof
      /\ In("key") = A.key
      /\ In("leaf_value_hash") = A.leaf_value_hash
      /\ In("transaction") = A.transaction
      /\ In("transaction_index") = A.transaction_index
      /\ In("transaction_proof") = A.transaction_proof
      /\ In("ledger_info") = A.ledger_info
      /\ In("validator_verifier") = A.validator_verifier
  BY <1>1, HonestInputs
<1>3. /\ A.validator_verifier \in Committees
      /\ A.transaction \in TxInfos
      /\ A.transaction.checkpoint # None
      /\ A.transaction_index \in 0..MaxIndex
      /\ A.transaction_proof \in AccProofs
      /\ A.ledger_info \in SignedLedgerInfos
      /\ A.sparse_merkle_proof \in SparseProofs
      /\ A.key \in Bytes32 /\ A.leaf_value_hash \in Bytes32
      /\ Malformed \notin {A.transaction, A.transaction_index,
                           A.transaction_proof, A.ledger_info}
      /\ Malformed \notin {A.sparse_merkle_proof, A.key, A.leaf_value_hash}
      /\ A.validator_verifier # Malformed
      /\ AccVerify(A.ledger_info.header.txns, A.transaction,
                   A.transaction_index, A.transaction_proof)
      /\ VerifySignatures(A.ledger_info.sigs, A.validator_verifier) = "Ok"
      /\ Reconstruct(A.sparse_merkle_proof, A.key, A.leaf_value_hash)
           = A.state_checkpoint_hash
  BY <1>1, AssetsPass
<1>4. CASE DecodeVerifier(In("validator_verifier"))
  <2>1. DecodeVerifier(A.validator_verifier)
    BY <1>2, <1>4
  <2>2. pc' = "decoded" /\ committee' = A.validator_verifier
    BY <2>1, <1>3 DEF DecodeVerifier
  <2>3. IInv'
    BY <1>1, <1>3, <2>1, InclusionStep DEF Next
  <2>4. HostProgress'
    BY <1>1, <2>2, ProgramStepKeepsHostProgress
  <2>5. QED
    BY <2>3, <2>4 DEF HostIInv
<1>5. CASE VerifyTransaction(In("transaction"), In("transaction_index"),
                             In("transaction_proof"), In("ledger_info"))
  <2>1. VerifyTransaction(A.transaction, A.transaction_index,
                          A.transaction_proof, A.ledger_info)
    BY <1>2, <1>5
  <2>2. /\ pc' = "txVerified" /\ committee' = committee
        /\ tx' = A.transaction /\ index' = A.transaction_index
        /\ li' = A.ledger_info
    BY <2>1, <1>3 DEF VerifyTransaction
  <2>3. IInv'
    BY <1>1, <1>3, <2>1, InclusionStep DEF Next
  <2>4. committee = A.validator_verifier
    BY <1>1, <2>1 DEF VerifyTransaction, HostProgress
  <2>5. HostProgress'
    BY <1>1, <2>2, <2>4, ProgramStepKeepsHostProgress
  <2>6. QED
    BY <2>3, <2>5 DEF HostIInv
<1>6. CASE VerifyLedger
  <2>1. /\ committee = A.validator_verifier /\ li = A.ledger_info
        /\ tx = A.transaction /\ index = A.transaction_index
    BY <1>1, <1>6 DEF VerifyLedger, HostProgress
  <2>2. pc' = "ledgerVerified" /\ UNCHANGED <<committee, tx, index, li>>
    BY <1>3, <1>6, <2>1 DEF VerifyLedger
  <2>3. IInv'
    BY <1>1, <1>6, InclusionStep DEF Next
  <2>4. HostProgress'
    BY <1>1, <2>1, <2>2, ProgramStepKeepsHostProgress
  <2>5. QED
    BY <2>3, <2>4 DEF HostIInv
<1>7. CASE VerifyState(In("sparse_merkle_proof"), In("key"),
                       In("leaf_value_hash"))
  <2>1. VerifyState(A.sparse_merkle_proof, A.key, A.leaf_value_hash)
    BY <1>2, <1>7
  <2>2. /\ committee = A.validator_verifier /\ li = A.ledger_info
        /\ tx = A.transaction /\ index = A.transaction_index
    BY <1>1, <2>1 DEF VerifyState, HostProgress
  <2>3. /\ pc' = "stateVerified" /\ UNCHANGED <<committee, tx, index, li>>
        /\ key' = A.key /\ value' = A.leaf_value_hash
        /\ root' = A.state_checkpoint_hash
    BY <1>3, <2>1, <2>2 DEF VerifyState
  <2>4. IInv'
    BY <1>1, <1>3, <2>1, InclusionStep DEF Next
  <2>5. HostProgress'
    BY <1>1, <2>2, <2>3, ProgramStepKeepsHostProgress
  <2>6. QED
    BY <2>4, <2>5 DEF HostIInv
<1>8. CASE CommitOutputs
  <2>1. /\ committee = A.validator_verifier /\ li = A.ledger_info
        /\ tx = A.transaction /\ index = A.transaction_index
        /\ key = A.key /\ value = A.leaf_value_hash
        /\ root = A.state_checkpoint_hash
    BY <1>1, <1>8 DEF CommitOutputs, HostProgress
  <2>2. pc' = "done"
        /\ UNCHANGED <<committee, tx, index, li, key, value, root>>
    BY <1>8 DEF CommitOutputs
  <2>3. IInv'
    BY <1>1, <1>8, InclusionStep DEF Next
  <2>4. HostProgress'
    BY <1>1, <2>1, <2>2, ProgramStepKeepsHostProgress
  <2>5. QED
    BY <2>3, <2>4 DEF HostIInv
<1>9. QED
  BY <1>4, <1>5, <1>6, <1>7, <1>8 DEF ProgramStep


(***************************************************************************)
(* HostIInv holds in every state of every behaviour of the inclusion host  *)
(* composed with the program.                                              *)
(***************************************************************************)
THEOREM InclusionHostInvariant == HostSpec => []HostIInv
<1> USE ChainAssumption, InclusionAssumption, InclusionDecodeAssumption
<1>1. HostInit => HostIInv
  BY InclusionInit DEF HostInit, Init, HostIInv, HostProgress, Launched,
                       ProveReads
<1>2. HostIInv /\ [HostNext]_allVars => HostIInv'
  <2> SUFFICES ASSUME HostIInv, [HostNext]_allVars PROVE HostIInv'
    OBVIOUS
  <2>1. ASSUME UNCHANGED vars, HostProgress'
        PROVE  HostIInv'
    BY <2>1, StutterIInv DEF HostIInv
  <2>2. CASE ParseArgs
    BY <2>1, <2>2, ParseArgsHostProgress DEF ParseArgs, HostIInv
  <2>3. CASE LibraryCall
    BY <2>1, <2>3, LibraryCallHostProgress DEF LibraryCall, HostIInv
  <2>4. CASE BuildAssets
    BY <2>1, <2>4, BuildAssetsHostProgress DEF BuildAssets, HostIInv
  <2>5. CASE WriteStdin
    BY <2>1, <2>5, WriteStdinHostProgress DEF WriteStdin, HostIInv
  <2>6. CASE ProgramStep
    BY <2>6, ProgramStepHostIInv
  <2>7. CASE ProgramEnds
    BY <2>1, <2>7, ProgramEndsHostProgress DEF ProgramEnds, HostIInv
  <2>8. CASE CheckPublicValue
    BY <2>1, <2>8, CheckPublicValueHostProgress DEF CheckPublicValue
  <2>9. CASE ReadOutput
    BY <2>1, <2>9, ReadOutputHostProgress DEF ReadOutput
  <2>10. CASE UNCHANGED allVars
    <3>1. HostProgress' = HostProgress
      BY <2>10 DEF allVars, hostVars, vars, HostProgress, HonestAssets,
                   ProgramOutput
    <3>2. QED
      BY <2>1, <2>10, <3>1 DEF allVars, HostIInv
  <2>11. QED
    BY <2>2, <2>3, <2>4, <2>5, <2>6, <2>7, <2>8, <2>9, <2>10 DEF HostNext
<1>3. QED
  BY <1>1, <1>2, PTL DEF HostSpec

(***************************************************************************)
(* HonestRunSucceeds for every instance: on assets the benchmark or a      *)
(* caller builds from the chain, the program never aborts and every check  *)
(* bin/inclusion.rs makes of the public values passes.                     *)
(***************************************************************************)
THEOREM InclusionHonestRunSuccess == HostSpec => []HonestRunSucceeds
<1>1. HostIInv => HonestRunSucceeds
  BY DEF HostIInv, HostProgress, HonestRunSucceeds
<1>2. QED
  BY <1>1, InclusionHostInvariant, PTL

(***************************************************************************)
(* LibraryOutputFaithful for every instance: prove_inclusion returns each  *)
(* public value under the name of the value the program computed.          *)
(***************************************************************************)
THEOREM LibraryOutputFaithfulness == HostSpec => []LibraryOutputFaithful
<1>1. HostIInv => LibraryOutputFaithful
  BY DEF HostIInv, HostProgress, LibraryOutputFaithful
<1>2. QED
  BY <1>1, InclusionHostInvariant, PTL

(***************************************************************************)
(* CommittedValuesOfAssets for every instance: in every mode, what the     *)
(* program commits on the host's stdin is what bin/inclusion.rs 173-219    *)
(* expects of the assets.                                                  *)
(***************************************************************************)
THEOREM CommittedValuesMatchAssets == HostSpec => []CommittedValuesOfAssets
<1>1. HostIInv => CommittedValuesOfAssets
  BY CommittedExpected DEF CommittedValuesOfAssets
<1>2. QED
  BY <1>1, InclusionHostInvariant, PTL

=============================================================================
