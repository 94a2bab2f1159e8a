# TLA+ models of the Aptos light-client zkVM programs

This directory models the two zkVM programs of this repository, the host
scripts that drive them, and the verifiers from `aptos_lc_core` that they call.
It holds TLA+ modules, TLC runs on small instances, and TLAPS proofs.

## The system

* `src/programs/epoch-change/src/main.rs` reads a `TrustedState` and an
  `EpochChangeProof` from stdin. It ratchets the trusted state through the
  proof (`verify_and_ratchet_inner`) and commits two hashes: the trusted
  committee's and the new committee's.
* `src/programs/inclusion/src/main.rs` reads eight inputs. It first checks that
  the transaction is in the ledger's transaction accumulator at the given index.
  It then checks that the ledger info carries a quorum of signatures of the given
  committee. Last, it reconstructs a state root from the sparse Merkle proof and
  the leaf (key, value hash). It commits five values: the committee hash, that
  root, the block id, the key and the value hash.
* `src/script/src/{inclusion,epoch_change}.rs` (the library) and
  `src/script/src/bin/*.rs` (the benchmarks) build inputs from a simulated chain
  and write them to `SP1Stdin`. They then execute or prove the program. The
  inclusion benchmark checks the public values against its own inputs; the
  library reads them into an `InclusionOutput`.
* The committee model, the signature, accumulator and sparse-proof verifiers and
  the ratchet live in `aptos_lc_core`, which is not under `src/`. They are
  modelled from `spec.md` (sections 3, 4.1 to 4.4).

The programs and the host interact through two channels of the zkVM:

1. **stdin.** The host writes the inputs in an order; the program reads them by
   position.
2. **Public values.** The program commits in an order; the host reads by
   position.

The verifier of a proof sees only the public values. For epoch-change proofs,
that verifier is an external light client that chains committee hashes
(spec 4.2 and 6).

## Adversary and abstraction (module `Chain`)

The prover controls every input. The real chain is the constant
`ChainCommittee` (the committee of each epoch), plus, for inclusion, the
constant `ChainBlock` (each block's epoch and transactions).

* **Signatures.** A key in `Faulty` signs anything. Any other key signs only the
  real chain's headers of the epochs it is a member of, and the prover may copy
  those signatures.
* **Fault assumption** (`FaultAssumption`). No set of faulty members of a
  committee of the chain holds a quorum of it.
* **Hashes** are injective tags, which models collision resistance:
  * an accumulator root *is* the list of transactions it authenticates;
  * a state root *is* the key/value map;
  * a proof is the sibling path of one position in some tree, and it
    reconstructs that tree's root with the leaf put in at the position, if the
    leaf's index or key selects the same path.
* **Deserialisation.** Bytes that fail to decode are the model value
  `Malformed`.

## Modules

| module | models | state / actions |
|---|---|---|
| `ValidatorVerifier` | committee, `verify_signatures` (spec 3, 4.1) | operators only: `HasQuorum` is `3*signed > 2*total` over `SumFunctionOnSet`; `VerifySignatures` checks unknown signer, then duplicate signer, then quorum |
| `Chain` | the chain and the adversary | constants, `FaultAssumption`, `CanSign`, `SignerLists`, `HonestSignerLists` (the signers of the hosts' simulated chain) |
| `TrustedState` | the `TrustedState` type (spec 3) | `EpochStates`, `Waypoints`, `NoneAssumption` |
| `EpochChange` | epoch-change `main.rs` with `verify_and_ratchet_inner` | `pc, trusted, proofLen, idx, cur, latest, committed, err`; actions `ReadInputs(ts, n)` (lines 9-14, with `Malformed` for a buffer that does not decode), `RatchetBegin` (the trusted-state variant and an empty proof), `RatchetStep(li)` (one entry: epoch, signatures, next epoch state), `CommitHashes` (lines 18-37) |
| `EpochChangeAbstract` | what one run promises (spec 4.2) | `pc, trusted, committed`; `Decode`, `Fail`, `Commit` (the trusted committee's hash and that of a later one, the real one from a real trusted state) |
| `EpochChangeHost` | `bin/epoch_change.rs` and `epoch_change.rs`, composed with `EpochChange` | `hpc, mode, assets, stdin`; `ParseArgs`, `LibraryCall`, `BuildAssets` (`ProvingAssets::new`), `WriteStdin` (prove, execute or generate_stdin order), `ProgramStep` (the program on `In(f)`), `ProgramEnds` |
| `LightClient` | the external verifier of spec 4.2 (no code in this repository) | `lcTrusted` (the last committee hash), ghost `lcEpoch`, `runs`; `Deliver` accepts a finished run whose first value equals `lcTrusted`, then restarts the program |
| `Inclusion` | inclusion `main.rs` with the accumulator and sparse-proof verifiers | `pc, committee, tx, index, li, key, value, root, committed, err`; `DecodeVerifier(vv)` (13-25), `VerifyTransaction(t,i,p,l)` (28-39), `VerifyLedger` (40-42), `VerifyState(p,k,v)` (43-55), `CommitOutputs` (57-70) |
| `InclusionHost` | `bin/inclusion.rs` and `inclusion.rs`, composed with `Inclusion` | `hpc, mode, assets, stdin, hread, output`; `ParseArgs`, `LibraryCall`, `BuildAssets` (`from_nbr_leaves`), `WriteStdin` (prove, execute or generate_stdin order), `ProgramStep` (the program on `In(f)`, the item at f's read position), `ProgramEnds`, `CheckPublicValue` (the asserts of lines 173-219), `ReadOutput` (prove_inclusion) |
| `ChainProofs`, `EpochChangeProofs`, `InclusionProofs`, `LightClientProofs`, `EpochChangeHostProofs`, `InclusionHostProofs` | TLAPS proofs | |
| `MC*` | TLC instances | |

Each handler is one action that covers the whole handler, and every `expect`
or `panic` is an `Abort` disjunct. The program handlers of `Inclusion` take
their decoded inputs as parameters:

* `Inclusion`'s own `Next` lets a prover choose the inputs: every value of the
  type, plus `Malformed`.
* `InclusionHost` passes in what the program reads from the host's stdin. An
  item written for another field is read as it stands when both fields have the
  same fixed width (`[u8; 32]`). Otherwise it does not decode.

Proof entries, and the inclusion inputs of `Inclusion`'s standalone `Next`, are
chosen at the step that first uses them. Nothing before that step depends on
them, so the executions are the same as with all inputs read first.

## Runs

| run | cfg | checks | result |
|---|---|---|---|
| `epoch_change` | `MCEpochChange.cfg` | `TypeOK`, `RatchetSound`, `AbstractSpec` | pass, 1293 states |
| `epoch_change_host` | `MCEpochChangeHost.cfg` | `EpochHonestRunSucceeds`, `PublicValuesOfAssets` | pass, 293 states |
| `light_client` | `MCLightClient.cfg` | `TrustsChainCommittee` | pass, 7380 states |
| `light_client_rollback` | `MCLightClientRollback.cfg` | `NoRollback` | **violated** |
| `inclusion` | `MCInclusion.cfg` | `CommitmentSound` | pass, about 20,800 states, about 50 s |
| `inclusion_root` | `MCInclusionRoot.cfg` | `CommittedRootIsCheckpoint` | **violated** |
| `inclusion_host` | `MCInclusionHost.cfg` | `HonestRunSucceeds`, `LibraryOutputFaithful`, `CommittedValuesOfAssets` | pass, 2648 states |

* **`RatchetSound`**: from a trusted state that is genuine (the chain's
  committee for its epoch), a committing run commits the hash of that committee
  and of the committee `proofLen` epochs later.
* **`AbstractSpec`**: every run of the program is a run of
  `EpochChangeAbstract` under the mapping `AbsPc`, which maps `ratchet` and
  `verifying` to `running`. Decoding is `Decode`, every abort is `Fail`, each
  ratchet step is a stutter and the commit is `Commit`. So the program commits
  once, after decoding an `EpochState`, and it never changes the trusted state
  while it ratchets.
* **`EpochHonestRunSucceeds`**: on inputs the benchmark builds from the chain,
  the program aborts only when the traffic crossed no epoch. That is the empty
  proof, which the ratchet must refuse (spec 4.2). Then `prove()` or
  `execute()` panics.
* **`PublicValuesOfAssets`**: the benchmark discards the public values. Still,
  they are the hash it computed at lines 51-52, followed by the hash of the
  committee named by the last entry of its proof.
* **`TrustsChainCommittee`**: a verifier that chains the public values over
  several runs only ever trusts a real committee.
* **`NoRollback`**: the verifier's epoch never decreases. It does decrease. With
  all committees distinct (B, C, A), run 1 moves the verifier from B to A
  (epoch 2). Run 2 then relabels the trusted state as (epoch 0, committee A). It
  replays the genuine epoch-0 header, signed by B's members, which are also a
  quorum of A, and the verifier accepts C (epoch 1). The program commits no
  epoch (main.rs:36-37), so the verifier cannot tell.
* **`CommitmentSound`**: if the committee is one of the chain's, then three
  things hold:
  * the committed block is real, and its header was signed as the chain signed
    it;
  * the verified transaction is at `index` in that block;
  * if the committed root is that transaction's checkpoint, then the committed
    key holds the committed value in that state.
* **`CommittedRootIsCheckpoint`** (spec 8: a tampered value hash aborts) is
  violated. The trace uses committee C, the genuine block b1, the genuine
  transaction T1 and the honest sparse path of q1, with a different leaf value.
  The program commits the root of that other tree: `verify_by_hash` does not
  compare it with the checkpoint, and neither does `main`.
* **`HonestRunSucceeds`**: on inputs built from the chain, the program does not
  abort and every assert of the benchmark passes. This needs agreement between
  the three stdin writers, the program's reads, its commits, and the benchmark's
  reads.
* **`LibraryOutputFaithful`**: `prove_inclusion` returns each public value under
  its own name.
* **`CommittedValuesOfAssets`**: in every mode, a committing run commits the
  values `bin/inclusion.rs` 173-219 expects of the host's inputs. `execute()`
  and the library never check them, so a writer that swaps key and leaf hash
  there would go unnoticed; this property catches it.

Every property of a passing run has a mutant in `PROJECT.json` that TLC finds
violating it. The mutations are:

* an epoch-change entry accepted without a next-epoch state;
* the two committee hashes committed in swapped order;
* the transaction checked against the proof's own accumulator instead of the
  ledger info's;
* key and leaf hash swapped in `prove()`, and in `execute()`;
* state root and block id read in swapped order;
* the trusted state ratcheted in place;
* the two epoch-change buffers written in swapped order;
* a quorum check that accepts exactly two thirds of the power (`>=` for `>`).

**Bounds.**

* Four keys, one of them faulty, and committees of one to four members with
  powers 1 and 2. These are enough for a quorum of one committee to be made of
  members of another.
* Epoch change: five epochs, A, B, A, E, C. Committee A recurs, so an old entry
  can be replayed. In E the faulty key holds exactly two thirds of the power.
  That is the most `FaultAssumption` allows, so `3*signed > 2*total` and
  `>=` give different verdicts. Proofs have up to 3 entries and up to 3
  signatures each.
* Epoch-change host: every start epoch and every number of crossed epochs
  (including none), each entry signed by one list of distinct members holding a
  quorum. Every such list passes `verify_signatures` alike, so one stands for
  all.
* Inclusion: two epochs, two blocks and a prover-built third accumulator; two
  state keys and two values. Indices run past every list. One transaction has
  no checkpoint.

Each bound is the smallest that makes every error path, and the attacks above,
reachable.

**Fairness.** None is assumed, and every run checks safety only. The hosts
are single sequential threads over finite loops. That an honest run finishes
follows from their guards and says nothing about the code. What can go wrong
is a panic, which `EpochHonestRunSucceeds` and `HonestRunSucceeds` catch.
`CHECK_DEADLOCK FALSE` is set because a run stops when the program commits or
aborts, or when the host exits.

## Proofs (checked by `tlapm`)

The proofs hold for every value of the constants that satisfies the modules'
assumptions. TLC evaluates each assumption on every run of a module that
extends it. They are:

* `ChainAssumption`, `FaultAssumption`, `ProofLenAssumption` and
  `InclusionAssumption`. The last one includes a bound: every transaction
  list has at most `MaxIndex + 1` entries. The index is a `u64`, which reaches
  every leaf of an accumulator.
* `DecodeAssumption` (`EpochChange`) and `InclusionDecodeAssumption`
  (`Inclusion`). `Malformed` is none of the decoded values. Bytes that fail to
  decode give no value of the type.
* `HonestChainAssumption` (`EpochChangeHost`). Every committee of the chain has
  a list of distinct members that holds a quorum. The simulated chain of both
  benchmarks signs with 95 of its 130 validators, so such a list exists.

`ChainProofs` holds the shared lemmas:

* `VerifySignaturesResult`: the outcomes of `verify_signatures`.
* `QuorumNeedsHonestSigner`: a signer list that passes `verify_signatures`
  against a chain committee contains a key that is not faulty, so an honest key
  signed the header. Its argument: the list's range is a subset of the
  committee's members. If no honest key could sign, that range is a subset of
  the faulty members, which `FaultAssumption` says hold no quorum.

`EpochChangeProofs`:

* `IInvInvariant`: `Spec => []IInv`, where
  `IInv == TypeOK /\ RatchetProgress /\ RatchetOnChain`.
  * `RatchetProgress` relates `cur` to `trusted` and `idx`
    (`cur.epoch = trusted.epoch + idx`), and `latest.next` to `cur.verifier`.
    It also fixes what is committed at `done`.
  * `RatchetOnChain` says that, from a genuine trusted state, `cur` is the
    chain's committee of its epoch.
  * The `RatchetStep` case uses `QuorumEntryIsGenuine`, which is
    `QuorumNeedsHonestSigner` for epoch-change entries.
  * `RatchetSound` alone is not inductive. It says nothing about the states
    before `done`, so the ratchet's progress has to be carried along.
* `TypeCorrect` and `RatchetSoundness`: `Spec => []TypeOK` and
  `Spec => []RatchetSound`.
* `Refinement`: `Spec => AbstractSpec`. It follows the usual argument:
  * `Init` maps to the abstract `Init`;
  * under `IInv`, every step maps to an abstract step or a stutter.

  The commit case needs `IInv`: the committed committee is `latest.next`, which
  equals `cur.verifier`, and `cur.epoch = trusted.epoch + proofLen` with
  `proofLen > 0`. From a real trusted state, that is the real committee of a
  later epoch. `NoneAssumption` (no trusted state is `None`) is needed to
  conclude that a decoded trusted state is real.

`InclusionProofs`:

* `InclusionIInv`: `Spec => []IInv`, where `IInv == TypeOK /\ InclusionProgress`.
  `InclusionProgress` records what each stage of `main` has established:
  * the committee decoded;
  * the transaction at the index of the header's list;
  * the signatures verified;
  * the checkpoint present;
  * the root reconstructed from (key, value);
  * and, at `done`, the five commits.

  The proof has one case per handler, and one per outcome of a handler.
* `InclusionTypeCorrect` and `CommitmentSoundness`. The latter rests on three
  lemmas:
  * `QuorumLedgerInfoIsGenuine`: the block is real.
  * `AccVerifyPosition`: the transaction is at the index.
  * `ReconstructSound`: a root equal to a tree's root comes from a leaf that the
    tree holds. This is collision resistance in the model.

`EpochChangeProofs` also carries `AdoptedOnChain`, a conjunct of `IInv`. It
says: once an entry has been applied and the trusted committee is one of the
chain's, `cur` is the chain's committee of its epoch. `RatchetOnChain` needs a
genuine trusted state. `AdoptedOnChain` does not: it needs only the trusted
committee, because `verify_signatures` matches a committee and never an epoch.

`ChainProofs` also proves the signer-list lemmas the host proofs cite:
`SignerListsMonotone`, `HonestSignersVerify` and `HonestSignersCanSign`. It
also proves `VerifierHashInjective`.

`LightClientProofs`:

* `LCInvariant`: `LCSpec => []LCInv`, where
  `LCInv == IInv /\ runs \in 0..MaxRuns /\ TrustsChainCommittee`.
* `ChainCommitteeTrusted`: `TrustsChainCommittee` for every instance.

The `Deliver` step is the core of the argument:

* The accepted run's first value equals `lcTrusted`. By collision resistance
  (`VerifierHashInjective`), the run's trusted committee is therefore the
  chain's committee of `lcEpoch`.
* The prover may present that committee under a different epoch. Even so,
  `AdoptedOnChain` puts `cur`, and with it the committed hash, on the chain.
* A run with an empty proof aborts and is never accepted.

`EpochChangeHostProofs`:

* `HostInvariant`: `HostSpec => []HostIInv`, where
  `HostIInv == IInv /\ HostProgress`. `HostProgress` carries these facts:
  * the assets are built from the chain (`HonestAssets`);
  * stdin holds them at the positions the program reads;
  * the program's trusted state, proof length and latest entry are those of
    the assets;
  * the program aborts only on an empty proof.
* Each host action has a lemma.
* The program step is shown to be a step of the program's `Next`, with honest
  inputs. The step lemma of `EpochChangeProofs` then applies.
  `ChainEntryPasses` shows that each chain entry passes the ratchet's checks.
* `HonestRunSuccess` and `PublicValuesMatchAssets` follow. They are
  `EpochHonestRunSucceeds` and `PublicValuesOfAssets` for every instance.

`InclusionHostProofs`:

* `InclusionHostInvariant`: `HostSpec => []HostIInv`. Its `HostProgress` says:
  * the assets are `ProvingAssets(b, k, i, s)` for a block, a key, an index
    and honest signers of the chain;
  * stdin holds each asset at its read position;
  * `committee`, `tx`, `index`, `li`, `key`, `value` and `root` equal the
    assets from the stage that decodes them on;
  * the program never aborts;
  * the host's failure states are never reached;
  * a returned output is `ProgramOutput`.
* The lemmas behind it:
  * `PositionOfDistinct`: in a list of distinct fields, `SelectInSeq` finds a
    field at its own position. `WritesAgree` and `HonestIn` use it to show
    that each writer's order is the read order. `ReadOutputHostProgress` uses
    it to show that prove_inclusion's reads are the commit order.
  * `AssetsPass`: the assets pass every check of `main.rs`.
  * `CommittedExpected`: a committing run commits what `bin/inclusion.rs`
    asserts.
* `InclusionHonestRunSuccess`, `LibraryOutputFaithfulness` and
  `CommittedValuesMatchAssets` follow. They are `HonestRunSucceeds`,
  `LibraryOutputFaithful` and `CommittedValuesOfAssets` for every instance.

Every invariant that a passing run checks is now proved. These stay with TLC
only:

* The violation runs (`NoRollback`, `CommittedRootIsCheckpoint`). They are
  false, and TLC gives the counterexample.
* Anything about what recursive definitions compute. The voting-power sums use
  the recursive functions of `Functions`/`Folds`, and the proofs never unfold
  them. Induction over data is out of the provers' reach.

## Not modelled

* The SP1 prover, key setup, logging and timings.
* BCS byte layouts. A decode yields the encoded value or fails.
* The hashing rules of the accumulator and the sparse tree (only what collision
  resistance lets them decide).
* `generate_keys` of `epoch_change.rs` (SP1 key setup).

## Plan

1. Model the accumulator and sparse-tree verifiers at the level of hashes and
   indices, as algorithm modules checked against the abstract decisions used
   here.
2. A refinement of the inclusion program by an abstract "verify, then commit"
   specification, and action properties of the hosts (the public values are
   read in order, and once).
