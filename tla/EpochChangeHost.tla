-------------------------- MODULE EpochChangeHost --------------------------
(***************************************************************************)
(* The host scripts that drive the epoch-change program, composed with it  *)
(* through the stdin of the zkVM.                                          *)
(*                                                                         *)
(* The benchmark binary (src/script/src/bin/epoch_change.rs) takes a       *)
(* trusted state from a simulated chain and lets that chain cross some     *)
(* epochs.  It asks the chain for the epoch-change proof from the trusted  *)
(* state's version, writes both to stdin, and either executes the program  *)
(* (--execute) or proves it (--prove).  Neither mode reads the public      *)
(* values.  The library (src/script/src/epoch_change.rs) writes the same   *)
(* stdin in generate_stdin, for a caller that proves it.                   *)
(*                                                                         *)
(* Both inputs are write_vec buffers, and a buffer written for the other   *)
(* input does not decode.                                                  *)
(***************************************************************************)
EXTENDS EpochChange, SequencesExt

\* main.rs 9-10: the order in which the program reads stdin.
ProgramReads == <<"trusted_state", "epoch_change_proof">>

ProveWritesSwapped == <<"epoch_change_proof", "trusted_state">>

\* bin/epoch_change.rs 74-76: the order in which prove() writes stdin.
ProveWrites == <<"trusted_state", "epoch_change_proof">>

\* bin/epoch_change.rs 87-90: the order in which execute() writes stdin.
ExecuteWrites == <<"trusted_state", "epoch_change_proof">>

\* epoch_change.rs 11-15: the order in which generate_stdin writes stdin.
LibraryWrites == <<"trusted_state", "epoch_change_proof">>

Writes(m) ==
  CASE m = "prove" -> ProveWrites
    [] m = "execute" -> ExecuteWrites
    [] m = "library" -> LibraryWrites

(***************************************************************************)
(* The simulated chain signs each ledger info with a quorum of distinct    *)
(* members of the epoch's committee (95 of 130 validators), so the bound   *)
(* on the signatures leaves room for such a list.                          *)
(***************************************************************************)
ASSUME HonestChainAssumption ==
  \A e \in Epochs : HonestSignerLists(ChainCommittee[e]) # {}

(***************************************************************************)
(* The entry of the real chain that ends epoch e: its next-epoch state is  *)
(* the committee of epoch e + 1, and distinct members holding a quorum of  *)
(* the committee of epoch e sign it.  Every such signer list passes        *)
(* verify_signatures alike, so one of them stands for all.                 *)
(***************************************************************************)
ChainEntry(e) ==
  [header |-> [epoch |-> e, next |-> ChainCommittee[e + 1]],
   sigs |-> CHOOSE s \in HonestSignerLists(ChainCommittee[e]) : TRUE]

VARIABLES
  hpc,      \* where the host is
  mode,     \* "prove", "execute" or "library"
  assets,   \* ProvingAssets
  stdin     \* the items written to SP1Stdin

hostVars == <<hpc, mode, assets, stdin>>
allVars == <<vars, hostVars>>

\* What the program decodes from the buffer it reads as field f.
In(f) ==
  LET j == SelectInSeq(ProgramReads, LAMBDA y : y = f)
  IN IF j <= Len(stdin) /\ stdin[j].field = f THEN stdin[j].val ELSE Malformed

HostInit ==
  /\ Init
  /\ hpc = "start"
  /\ mode = None
  /\ assets = None
  /\ stdin = <<>>

\* bin/epoch_change.rs 100-110: exactly one of --execute and --prove.
ParseArgs ==
  /\ hpc = "start"
  /\ \E execute, prove \in BOOLEAN :
       \/ /\ execute = prove
          /\ hpc' = "exited"
          /\ UNCHANGED mode
       \/ /\ execute # prove
          /\ mode' = IF execute THEN "execute" ELSE "prove"
          /\ hpc' = "build"
  /\ UNCHANGED <<assets, stdin>>
  /\ UNCHANGED vars

\* epoch_change.rs 11: a caller of generate_stdin, with inputs built as the
\* benchmark builds them.
LibraryCall ==
  /\ hpc = "start"
  /\ mode' = "library"
  /\ hpc' = "build"
  /\ UNCHANGED <<assets, stdin>>
  /\ UNCHANGED vars

(***************************************************************************)
(* bin/epoch_change.rs 47-70, ProvingAssets::new: the simulated chain's   *)
(* trusted state ts at epoch e0, serialised; the hash of its committee, or *)
(* a panic if it is not an EpochState (lines 51-54); then traffic that     *)
(* crosses n epochs, and the proof of the n entries that end epochs e0 to  *)
(* e0 + n - 1.                                                             *)
(***************************************************************************)
BuildAssets ==
  /\ hpc = "build"
  /\ \E e0 \in Epochs, n \in 0..MaxProofLen, ts \in TrustedStates :
       /\ e0 + n <= MaxEpoch
       /\ ts.epoch = e0
       /\ ts.kind = "EpochState" => ts.verifier = ChainCommittee[e0]
       /\ \/ /\ ts.kind # "EpochState"
             /\ hpc' = "assetPanicked"
             /\ UNCHANGED assets
          \/ /\ ts.kind = "EpochState"
             /\ assets' =
                  [trusted_state |-> ts,
                   validator_verifier_hash |-> VerifierHash(ts.verifier),
                   epoch_change_proof |->
                     [j \in 1..n |-> ChainEntry(e0 + j - 1)]]
             /\ hpc' = "write"
  /\ UNCHANGED <<mode, stdin>>
  /\ UNCHANGED vars

\* prove(), execute() or generate_stdin: write both buffers to SP1Stdin.
WriteStdin ==
  /\ hpc = "write"
  /\ stdin' = [j \in DOMAIN Writes(mode) |->
                 [field |-> Writes(mode)[j], val |-> assets[Writes(mode)[j]]]]
  /\ hpc' = "run"
  /\ UNCHANGED <<mode, assets>>
  /\ UNCHANGED vars

\* The number of entries of a decoded proof; a buffer that does not decode
\* stays undecodable.
ProofLength(p) == IF p = Malformed THEN Malformed ELSE Len(p)

(***************************************************************************)
(* A step of the program on what it reads from stdin: the two buffers are  *)
(* decoded (lines 11-14), then the ratchet reads the proof's entries in    *)
(* order.                                                                  *)
(***************************************************************************)
ProgramStep ==
  /\ hpc = "run"
  /\ \/ ReadInputs(In("trusted_state"), ProofLength(In("epoch_change_proof")))
     \/ RatchetBegin
     \/ /\ pc = "verifying"
        /\ idx < proofLen
        /\ RatchetStep(In("epoch_change_proof")[idx + 1])
     \/ CommitHashes
  /\ UNCHANGED hostVars

(***************************************************************************)
(* The prover returns: prove() panics on an aborted program through its    *)
(* expect (lines 78-81), execute() through its unwrap (line 92); on        *)
(* success both print and exit, without reading the public values.         *)
(***************************************************************************)
ProgramEnds ==
  /\ hpc = "run"
  /\ pc \in {"done", "aborted"}
  /\ hpc' = IF pc = "aborted"
              THEN IF mode = "library" THEN "error" ELSE "proverPanicked"
              ELSE IF mode = "library" THEN "returned" ELSE "finished"
  /\ UNCHANGED <<mode, assets, stdin>>
  /\ UNCHANGED vars

HostNext ==
  \/ ParseArgs
  \/ LibraryCall
  \/ BuildAssets
  \/ WriteStdin
  \/ ProgramStep
  \/ ProgramEnds

HostSpec == HostInit /\ [][HostNext]_allVars

-----------------------------------------------------------------------------
(***************************************************************************)
(* An honest run fails only on an empty proof: once the host has built its *)
(* inputs from the chain, the program aborts (and prove(), execute() or    *)
(* the library's caller fail) only when the traffic crossed no epoch, the  *)
(* one case the ratchet must refuse (spec 4.2).  This needs the writers of *)
(* stdin to agree with the program's reads, and every entry the chain      *)
(* signs to pass the ratchet's checks in order.                            *)
(***************************************************************************)
EpochHonestRunSucceeds ==
  hpc \in {"proverPanicked", "error"} => assets.epoch_change_proof = << >>

(***************************************************************************)
(* The public values the benchmark discards (bin/epoch_change.rs 78-81,   *)
(* 92) are the committee hash it computed itself (lines 51-52), followed   *)
(* by the hash of the committee the last entry of its proof names: a      *)
(* check of them, like the one bin/inclusion.rs makes of its own, would    *)
(* pass.                                                                   *)
(***************************************************************************)
PublicValuesOfAssets ==
  pc = "done" =>
    committed = << assets.validator_verifier_hash,
                   VerifierHash(Last(assets.epoch_change_proof).header.next) >>

-----------------------------------------------------------------------------
(***************************************************************************)
(* The inductive invariant behind the host's properties.  The assets are   *)
(* the chain's: a real epoch state, its committee's hash and the entries  *)
(* of the next n epochs.  Once written, stdin holds them in the order the  *)
(* program reads them, so the program decodes exactly the assets; its     *)
(* ratchet has applied the first idx of these entries, and it aborts only *)
(* on an empty proof.                                                      *)
(***************************************************************************)
HonestAssets ==
  /\ assets.trusted_state \in EpochStates(Epochs)
  /\ assets.trusted_state.verifier =
       ChainCommittee[assets.trusted_state.epoch]
  /\ assets.validator_verifier_hash =
       VerifierHash(assets.trusted_state.verifier)
  /\ \E n \in 0..MaxProofLen :
       /\ assets.trusted_state.epoch + n <= MaxEpoch
       /\ assets.epoch_change_proof =
            [j \in 1..n |-> ChainEntry(assets.trusted_state.epoch + j - 1)]

Launched == {"run", "proverPanicked", "error", "finished", "returned"}

HostProgress ==
  /\ hpc \notin {"start", "exited"} => mode \in {"prove", "execute", "library"}
  /\ hpc \in Launched \cup {"write"} => HonestAssets
  /\ hpc \in Launched =>
       stdin = << [field |-> "trusted_state", val |-> assets.trusted_state],
                  [field |-> "epoch_change_proof",
                   val |-> assets.epoch_change_proof] >>
  /\ pc # "start" =>
       /\ hpc \in Launched
       /\ trusted = assets.trusted_state
       /\ proofLen = Len(assets.epoch_change_proof)
  /\ pc = "aborted" => assets.epoch_change_proof = << >>
  /\ pc \in {"verifying", "done"} /\ idx > 0 =>
       latest = assets.epoch_change_proof[idx].header
  /\ hpc \in {"proverPanicked", "error"} => pc = "aborted"

HostIInv == IInv /\ HostProgress

=============================================================================
