----------------------- MODULE EpochChangeHostProofs -----------------------
(***************************************************************************)
(* Proofs about the epoch-change host composed with the program, for every *)
(* chain, committee set, fault set and bound that satisfy the assumptions: *)
(* on the assets the host builds from the chain, the program decodes what  *)
(* the host wrote, ratchets through every entry, and commits the hashes    *)
(* the host computed.                                                      *)
(***************************************************************************)
EXTENDS EpochChangeHost, EpochChangeProofs

(***************************************************************************)
(* The chain's entry ending an epoch e < MaxEpoch is a ledger info a       *)
(* prover can hold: a genuine header, signed by members of the epoch's     *)
(* committee.                                                              *)
(***************************************************************************)
LEMMA ChainEntryLedgerInfo ==
  ASSUME ChainAssumption, HonestChainAssumption,
         NEW e \in Epochs, e < MaxEpoch
  PROVE  /\ ChainEntry(e) \in LedgerInfos
         /\ ChainEntry(e).header.next = ChainCommittee[e + 1]
         /\ ChainEntry(e).header.epoch = e
         /\ ChainEntry(e).sigs \in HonestSignerLists(ChainCommittee[e])
<1> DEFINE c == ChainCommittee[e]
           s == CHOOSE s \in HonestSignerLists(c) : TRUE
           h == [epoch |-> e, next |-> ChainCommittee[e + 1]]
<1>1. s \in HonestSignerLists(c)
  <2>1. HonestSignerLists(c) # {}
    OBVIOUS
  <2>2. QED
    BY <2>1
<1>2. ChainEntry(e) = [header |-> h, sigs |-> s]
  BY DEF ChainEntry
<1>3. e + 1 \in Epochs /\ ChainCommittee[e + 1] \in Committees
  BY DEF Epochs
<1>4. h \in Header /\ Genuine(h)
  BY <1>3 DEF Header, Genuine
<1>5. s \in SignerLists(CanSign(Genuine(h), h.epoch))
  <2>1. DOMAIN c \subseteq CanSign(TRUE, e)
    BY DEF CanSign
  <2>2. QED
    BY <1>1, <1>4, <2>1, SignerListsMonotone DEF HonestSignerLists
<1>6. ChainEntry(e) \in LedgerInfos
  <2>1. [header |-> h, sigs |-> s]
          \in {[header |-> h, sigs |-> x] :
                 x \in SignerLists(CanSign(Genuine(h), h.epoch))}
    BY <1>5
  <2>2. \E hh \in Header :
          ChainEntry(e) \in {[header |-> hh, sigs |-> x] :
                               x \in SignerLists(CanSign(Genuine(hh), hh.epoch))}
    BY <2>1, <1>2, <1>4
  <2>3. QED
    BY <2>2 DEF LedgerInfos
<1>7. QED
  BY <1>1, <1>2, <1>6

(***************************************************************************)
(* The chain's entry ending epoch e passes the entry check against the     *)
(* real epoch state of e: its signers are distinct members of the          *)
(* committee holding a quorum, and it names the next committee.            *)
(***************************************************************************)
LEMMA ChainEntryPasses ==
  ASSUME ChainAssumption, HonestChainAssumption,
         NEW e \in Epochs, e < MaxEpoch,
         NEW es, es.epoch = e, es.verifier = ChainCommittee[e]
  PROVE  EntryError(ChainEntry(e), es) = "Ok"
<1> DEFINE c == ChainCommittee[e]
           s == ChainEntry(e).sigs
<1>1. /\ ChainEntry(e).header.next = ChainCommittee[e + 1]
      /\ ChainEntry(e).header.epoch = e
      /\ s \in SignerLists(DOMAIN c) /\ IsInjective(s) /\ HasQuorum(c, Range(s))
  BY ChainEntryLedgerInfo DEF HonestSignerLists
<1>2. Range(s) \subseteq DOMAIN c
  BY <1>1 DEF SignerLists, Range
<1>3. VerifySignatures(s, c) = "Ok"
  BY <1>1, <1>2 DEF VerifySignatures
<1>4. ChainCommittee[e + 1] # None
  BY DEF Epochs
<1>5. QED
  BY <1>1, <1>3, <1>4 DEF EntryError

\* The positions at which main.rs reads its two inputs.
LEMMA ReadPositions ==
  /\ SelectInSeq(ProgramReads, LAMBDA y : y = "trusted_state") = 1
  /\ SelectInSeq(ProgramReads, LAMBDA y : y = "epoch_change_proof") = 2
BY DEF SelectInSeq, Min, ProgramReads

(***************************************************************************)
(* On the stdin the host writes, the program decodes the trusted state and *)
(* the proof of the assets.                                                *)
(***************************************************************************)
LEMMA HonestInputs ==
  ASSUME stdin = << [field |-> "trusted_state", val |-> assets.trusted_state],
                    [field |-> "epoch_change_proof",
                     val |-> assets.epoch_change_proof] >>
  PROVE  /\ In("trusted_state") = assets.trusted_state
         /\ In("epoch_change_proof") = assets.epoch_change_proof
BY ReadPositions DEF In
(***************************************************************************)
(* The proof the host builds is a sequence of ledger infos, of at most     *)
(* MaxProofLen entries: the chain's entries ending the epochs from the     *)
(* trusted state's on, all of them before the last epoch.                  *)
(***************************************************************************)
LEMMA HonestProof ==
  ASSUME ChainAssumption, HonestChainAssumption, ProofLenAssumption,
         HonestAssets
  PROVE  LET ts == assets.trusted_state
             P == assets.epoch_change_proof
         IN  /\ P \in Seq(LedgerInfos)
             /\ Len(P) \in 0..MaxProofLen
             /\ ts.epoch + Len(P) <= MaxEpoch
             /\ \A j \in 1..Len(P) : P[j] = ChainEntry(ts.epoch + j - 1)
<1> DEFINE ts == assets.trusted_state
           P == assets.epoch_change_proof
<1>1. PICK n \in 0..MaxProofLen :
        /\ ts.epoch + n <= MaxEpoch
        /\ P = [j \in 1..n |-> ChainEntry(ts.epoch + j - 1)]
  BY DEF HonestAssets
<1>2. ts.epoch \in Epochs
  BY DEF HonestAssets, EpochStates
<1>3. \A j \in 1..n : ChainEntry(ts.epoch + j - 1) \in LedgerInfos
  <2> SUFFICES ASSUME NEW j \in 1..n
               PROVE  ChainEntry(ts.epoch + j - 1) \in LedgerInfos
    OBVIOUS
  <2>1. ts.epoch + j - 1 \in Epochs /\ ts.epoch + j - 1 < MaxEpoch
    BY <1>1, <1>2 DEF Epochs
  <2>2. QED
    BY <2>1, ChainEntryLedgerInfo
<1>4. P \in Seq(LedgerInfos) /\ Len(P) = n
  BY <1>1, <1>3
<1>5. QED
  BY <1>1, <1>4

\* The host's own steps leave the program alone, so they keep IInv.
LEMMA StutterIInv ==
  ASSUME IInv, UNCHANGED vars
  PROVE  IInv'
BY NextIInv

\* Before the program runs, and while it has not started, it is in "start".
LEMMA NotLaunched ==
  ASSUME HostProgress, hpc \notin Launched
  PROVE  pc = "start"
BY DEF HostProgress

\* Parsing the arguments sets a mode or exits, before the program runs.
LEMMA ParseArgsHostProgress ==
  ASSUME HostProgress, ParseArgs
  PROVE  HostProgress'
<1>1. pc = "start" /\ pc' = "start"
  BY NotLaunched DEF ParseArgs, Launched, vars
<1>2. hpc' \in {"exited", "build"}
      /\ (hpc' = "build" => mode' \in {"prove", "execute", "library"})
  BY DEF ParseArgs
<1>3. QED
  BY <1>1, <1>2 DEF HostProgress, Launched

\* A library caller sets the library mode, before the program runs.
LEMMA LibraryCallHostProgress ==
  ASSUME HostProgress, LibraryCall
  PROVE  HostProgress'
<1>1. pc = "start" /\ pc' = "start"
  BY NotLaunched DEF LibraryCall, Launched, vars
<1>2. QED
  BY <1>1 DEF LibraryCall, HostProgress, Launched

\* from_nbr_leaves either panics or builds assets from the chain.
LEMMA BuildAssetsHostProgress ==
  ASSUME ChainAssumption, HostProgress, BuildAssets
  PROVE  HostProgress'
<1>1. pc = "start" /\ pc' = "start"
  BY NotLaunched DEF BuildAssets, Launched, vars
<1>2. PICK e0 \in Epochs, n \in 0..MaxProofLen, ts \in TrustedStates :
        /\ e0 + n <= MaxEpoch
        /\ ts.epoch = e0
        /\ ts.kind = "EpochState" => ts.verifier = ChainCommittee[e0]
        /\ \/ /\ ts.kind # "EpochState"
              /\ hpc' = "assetPanicked"
              /\ UNCHANGED assets
           \/ /\ ts.kind = "EpochState"
              /\ assets' =
                   [trusted_state |-> ts,
                    validator_verifier_hash |-> VerifierHash(ts.verifier),
                    epoch_change_proof |->
                      [j \in 1..n |-> ChainEntry(e0 + j - 1)]]
              /\ hpc' = "write"
  BY DEF BuildAssets
<1>3. CASE ts.kind # "EpochState"
  BY <1>1, <1>2, <1>3 DEF BuildAssets, HostProgress, Launched
<1>4. CASE ts.kind = "EpochState"
  <2>1. ts \in EpochStates(Epochs)
    BY <1>4, TrustedIsEpochState
  <2>2. HonestAssets'
    BY <1>2, <1>4, <2>1 DEF HonestAssets
  <2>3. QED
    BY <1>1, <1>2, <1>4, <2>2 DEF BuildAssets, HostProgress, Launched
<1>5. QED
  BY <1>3, <1>4

\* Each writer puts the trusted state and the proof where the program reads them.
LEMMA WriteStdinHostProgress ==
  ASSUME HostProgress, WriteStdin
  PROVE  HostProgress'
<1>1. pc = "start" /\ pc' = "start"
  BY NotLaunched DEF WriteStdin, Launched, vars
<1>2. mode \in {"prove", "execute", "library"} /\ HonestAssets
  BY DEF WriteStdin, HostProgress
<1>3. Writes(mode) = << "trusted_state", "epoch_change_proof" >>
  BY <1>2 DEF Writes, ProveWrites, ExecuteWrites, LibraryWrites
<1>4. stdin' = << [field |-> "trusted_state", val |-> assets.trusted_state],
                  [field |-> "epoch_change_proof",
                   val |-> assets.epoch_change_proof] >>
  BY <1>3 DEF WriteStdin
<1>5. HonestAssets'
  BY <1>2 DEF WriteStdin, HonestAssets
<1>6. QED
  BY <1>1, <1>2, <1>4, <1>5 DEF WriteStdin, HostProgress, Launched

\* The prover panics or errs only on an aborted run.
LEMMA ProgramEndsHostProgress ==
  ASSUME HostProgress, ProgramEnds
  PROVE  HostProgress'
<1>1. HonestAssets' = HonestAssets
  BY DEF ProgramEnds, HonestAssets
<1>2. hpc' \in {"proverPanicked", "error"} => pc = "aborted"
  BY DEF ProgramEnds
<1>3. QED
  BY <1>1, <1>2 DEF ProgramEnds, HostProgress, Launched, vars
(***************************************************************************)
(* A program step on the host's stdin keeps HostProgress when it keeps the *)
(* decoded assets, aborts only on an empty proof and applies the proof's   *)
(* entries in order.                                                       *)
(***************************************************************************)
LEMMA ProgramStepKeepsHostProgress ==
  ASSUME HostProgress, hpc = "run", UNCHANGED hostVars,
         pc' # "start" => /\ trusted' = assets.trusted_state
                          /\ proofLen' = Len(assets.epoch_change_proof),
         pc' = "aborted" => assets.epoch_change_proof = << >>,
         pc' \in {"verifying", "done"} /\ idx' > 0 =>
           latest' = assets.epoch_change_proof[idx'].header
  PROVE  HostProgress'
<1>1. hpc' = "run" /\ mode' = mode /\ assets' = assets /\ stdin' = stdin
  BY DEF hostVars
<1>2. HonestAssets' = HonestAssets
  BY <1>1 DEF HonestAssets
<1>3. /\ mode \in {"prove", "execute", "library"}
      /\ HonestAssets
      /\ stdin = << [field |-> "trusted_state", val |-> assets.trusted_state],
                    [field |-> "epoch_change_proof",
                     val |-> assets.epoch_change_proof] >>
  BY DEF HostProgress, Launched
<1>4. QED
  BY <1>1, <1>2, <1>3 DEF HostProgress, Launched

(***************************************************************************)
(* A step of the program on the host's stdin is a step of the program's   *)
(* Next with honest inputs: the decoded assets, then the chain's entries   *)
(* in order, each of which passes the ratchet's checks.  It never aborts   *)
(* except on an empty proof, and the last entry it applies is the proof's  *)
(* entry at idx.                                                           *)
(***************************************************************************)
LEMMA ProgramStepHostIInv ==
  ASSUME ChainAssumption, HonestChainAssumption, ProofLenAssumption,
         DecodeAssumption, HostIInv, ProgramStep
  PROVE  HostIInv'
<1> DEFINE TS == assets.trusted_state
           P == assets.epoch_change_proof
<1>1. /\ hpc = "run" /\ UNCHANGED hostVars
      /\ mode \in {"prove", "execute", "library"}
      /\ HonestAssets
      /\ In("trusted_state") = TS /\ In("epoch_change_proof") = P
  BY HonestInputs DEF ProgramStep, HostIInv, HostProgress, Launched
<1>2. /\ P \in Seq(LedgerInfos) /\ Len(P) \in 0..MaxProofLen
      /\ TS.epoch + Len(P) <= MaxEpoch
      /\ \A j \in 1..Len(P) : P[j] = ChainEntry(TS.epoch + j - 1)
  BY <1>1, HonestProof
<1>3. /\ TS \in EpochStates(Epochs) /\ TS.verifier = ChainCommittee[TS.epoch]
      /\ TS \in TrustedStates
  BY <1>1 DEF HonestAssets, TrustedStates
<1>4. HonestAssets' = HonestAssets
  BY <1>1 DEF hostVars, HonestAssets
<1>5. IInv /\ HostProgress
  BY DEF HostIInv
<1>6. CASE ReadInputs(In("trusted_state"), ProofLength(In("epoch_change_proof")))
  <2>1. TS # Malformed /\ Len(P) # Malformed /\ P # Malformed
    BY <1>2, <1>3
  <2>2. ProofLength(P) = Len(P)
    BY <2>1 DEF ProofLength
  <2>3. ReadInputs(TS, Len(P))
    BY <1>1, <1>6, <2>2
  <2>4. /\ pc = "start" /\ pc' = "ratchet"
        /\ trusted' = TS /\ proofLen' = Len(P)
    BY <2>1, <2>3 DEF ReadInputs
  <2>5. IInv'
    BY <1>2, <1>3, <1>5, <2>3, NextIInv DEF Next
  <2>6. HostProgress'
    BY <1>1, <1>4, <1>5, <2>4 DEF HostProgress, hostVars, Launched
  <2>7. QED
    BY <2>5, <2>6 DEF HostIInv
<1>7. CASE RatchetBegin
  <2>1. trusted = TS /\ proofLen = Len(P) /\ pc = "ratchet" /\ idx = 0
    BY <1>5, <1>7 DEF RatchetBegin, HostProgress, IInv, RatchetProgress
  <2>2. IInv'
    BY <1>5, <1>7, NextIInv DEF Next
  <2>3. pc' = "aborted" => P = << >>
    BY <1>2, <1>3, <1>7, <2>1 DEF RatchetBegin, Abort, EpochStates
  <2>4. pc' \in {"aborted", "verifying"} /\ UNCHANGED <<trusted, proofLen, idx>>
    BY <1>3, <1>7, <2>1 DEF RatchetBegin, Abort, EpochStates
  <2>5. HostProgress'
    BY <1>1, <1>5, <2>1, <2>3, <2>4, ProgramStepKeepsHostProgress
  <2>6. QED
    BY <2>2, <2>5 DEF HostIInv
<1>8. CASE /\ pc = "verifying"
           /\ idx < proofLen
           /\ RatchetStep(In("epoch_change_proof")[idx + 1])
  <2> DEFINE e == TS.epoch + idx
  <2>1. /\ trusted = TS /\ proofLen = Len(P)
        /\ cur.epoch = e /\ idx \in Nat
        /\ cur.verifier = ChainCommittee[cur.epoch]
    <3>1. trusted = TS /\ proofLen = Len(P)
      BY <1>5, <1>8 DEF HostProgress
    <3>2. TrustedIsGenuine
      BY <1>3, <3>1, NoneAssumption DEF TrustedIsGenuine, EpochStates
    <3>3. QED
      BY <1>5, <1>8, <3>1, <3>2 DEF IInv, RatchetProgress, RatchetOnChain, TypeOK
  <2>2. e \in Epochs /\ e < MaxEpoch /\ idx + 1 \in 1..Len(P)
    BY <1>2, <1>3, <1>8, <2>1 DEF EpochStates, Epochs
  <2>3. P[idx + 1] = ChainEntry(e)
    BY <1>2, <1>3, <2>1, <2>2 DEF EpochStates, Epochs
  <2>4. ChainEntry(e) \in LedgerInfos /\ EntryError(ChainEntry(e), cur) = "Ok"
    BY <2>1, <2>2, ChainEntryLedgerInfo, ChainEntryPasses
  <2>5. RatchetStep(ChainEntry(e))
    BY <1>1, <1>8, <2>3
  <2>6. /\ latest' = P[idx'].header /\ pc' = "verifying"
        /\ UNCHANGED <<trusted, proofLen>>
    BY <2>3, <2>4, <2>5 DEF RatchetStep
  <2>7. IInv'
    BY <1>5, <2>4, <2>5, NextIInv DEF Next
  <2>8. HostProgress'
    BY <1>1, <1>5, <2>1, <2>6, ProgramStepKeepsHostProgress
  <2>9. QED
    BY <2>7, <2>8 DEF HostIInv
<1>9. CASE CommitHashes
  <2>1. IInv'
    BY <1>5, <1>9, NextIInv DEF Next
  <2>2. HostProgress'
    BY <1>1, <1>4, <1>5, <1>9 DEF CommitHashes, HostProgress, hostVars, Launched
  <2>3. QED
    BY <2>1, <2>2 DEF HostIInv
<1>10. QED
  BY <1>6, <1>7, <1>8, <1>9 DEF ProgramStep
(***************************************************************************)
(* HostIInv holds in every state of every behaviour of the host composed  *)
(* with the program.                                                       *)
(***************************************************************************)
THEOREM HostInvariant == HostSpec => []HostIInv
<1> USE ChainAssumption, HonestChainAssumption, ProofLenAssumption,
        DecodeAssumption
<1>1. HostInit => HostIInv
  BY InitIInv DEF HostInit, Init, HostIInv, HostProgress, Launched
<1>2. HostIInv /\ [HostNext]_allVars => HostIInv'
  <2> SUFFICES ASSUME HostIInv, [HostNext]_allVars PROVE HostIInv'
    OBVIOUS
  <2>1. ASSUME UNCHANGED vars, HostProgress'
        PROVE  HostIInv'
    BY <2>1, StutterIInv DEF HostIInv
  <2>2. CASE ParseArgs
    BY <2>1, <2>2, ParseArgsHostProgress DEF ParseArgs, HostIInv
  <2>3. CASE LibraryCall
    BY <2>1, <2>3, LibraryCallHostProgress DEF LibraryCall, HostIInv
  <2>4. CASE BuildAssets
    BY <2>1, <2>4, BuildAssetsHostProgress DEF BuildAssets, HostIInv
  <2>5. CASE WriteStdin
    BY <2>1, <2>5, WriteStdinHostProgress DEF WriteStdin, HostIInv
  <2>6. CASE ProgramStep
    BY <2>6, ProgramStepHostIInv
  <2>7. CASE ProgramEnds
    BY <2>1, <2>7, ProgramEndsHostProgress DEF ProgramEnds, HostIInv
  <2>8. CASE UNCHANGED allVars
    <3>1. HostProgress' = HostProgress
      BY <2>8 DEF allVars, hostVars, vars, HostProgress, HonestAssets
    <3>2. QED
      BY <2>1, <2>8, <3>1 DEF allVars, HostIInv
  <2>9. QED
    BY <2>2, <2>3, <2>4, <2>5, <2>6, <2>7, <2>8 DEF HostNext
<1>3. QED
  BY <1>1, <1>2, PTL DEF HostSpec

(***************************************************************************)
(* EpochHonestRunSucceeds for every instance: on a trusted state and a     *)
(* proof the host builds from the chain, prove(), execute() and the       *)
(* library's caller fail only when the proof is empty.                     *)
(***************************************************************************)
THEOREM HonestRunSuccess == HostSpec => []EpochHonestRunSucceeds
<1>1. HostIInv => EpochHonestRunSucceeds
  BY DEF HostIInv, HostProgress, EpochHonestRunSucceeds
<1>2. QED
  BY <1>1, HostInvariant, PTL

(***************************************************************************)
(* PublicValuesOfAssets for every instance: the public values the          *)
(* benchmark discards are the committee hash it computed at lines 51-52   *)
(* and the hash of the committee the last entry of its proof names.       *)
(***************************************************************************)
THEOREM PublicValuesMatchAssets == HostSpec => []PublicValuesOfAssets
<1>1. HostIInv => PublicValuesOfAssets
  <2> SUFFICES ASSUME HostIInv, pc = "done"
               PROVE  committed =
                        << assets.validator_verifier_hash,
                           VerifierHash(Last(assets.epoch_change_proof).header.next) >>
    BY DEF PublicValuesOfAssets
  <2>1. /\ idx = proofLen /\ 0 < proofLen
        /\ committed = << VerifierHash(trusted.verifier),
                          VerifierHash(latest.next) >>
    BY DEF HostIInv, IInv, RatchetProgress
  <2>2. /\ trusted = assets.trusted_state
        /\ proofLen = Len(assets.epoch_change_proof)
        /\ latest = assets.epoch_change_proof[idx].header
        /\ assets.validator_verifier_hash =
             VerifierHash(assets.trusted_state.verifier)
    BY <2>1 DEF HostIInv, HostProgress, HonestAssets, Launched
  <2>3. QED
    BY <2>1, <2>2 DEF Last
<1>2. QED
  BY <1>1, HostInvariant, PTL
=============================================================================
