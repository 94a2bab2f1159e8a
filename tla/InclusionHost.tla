--------------------------- MODULE InclusionHost ---------------------------
(***************************************************************************)
(* The host scripts that drive the inclusion program, composed with it     *)
(* through the two channels of the zkVM: the stdin the host writes and the *)
(* program reads in order, and the public values the program commits and   *)
(* the host reads in order.                                                *)
(*                                                                         *)
(* The benchmark binary (src/script/src/bin/inclusion.rs) builds its       *)
(* inputs from a chain it simulates, writes them to stdin, and either      *)
(* executes the program (--execute) or proves it and checks the public     *)
(* values against its own inputs (--prove).  The library                   *)
(* (src/script/src/inclusion.rs) writes the same stdin in generate_stdin   *)
(* and reads the public values into an InclusionOutput in prove_inclusion. *)
(* One iteration of the benchmark's loop over NBR_LEAVES is modelled; the  *)
(* iterations share no state.                                              *)
(*                                                                         *)
(* The bytes on the channels are abstracted to the field they were written *)
(* for and its value.  The program reads a field by position: an item     *)
(* written for another field is taken as it stands when both are of the  *)
(* same fixed width (a [u8; 32] read from another [u8; 32]), and does not  *)
(* decode otherwise.                                                       *)
(***************************************************************************)
EXTENDS Inclusion, SequencesExt

\* The width class of a stdin field: write_vec buffer, [u8; 32] or u64.
Width(f) ==
  IF f \in {"key", "leaf_value_hash"} THEN "bytes32"
  ELSE IF f = "transaction_index" THEN "u64"
  ELSE "vec"

\* main.rs 13-22: the order in which the program reads stdin.
ProgramReads ==
  <<"sparse_merkle_proof", "key", "leaf_value_hash", "transaction",
    "transaction_index", "transaction_proof", "ledger_info",
    "validator_verifier">>

ProveWritesSwapped ==
  <<"sparse_merkle_proof", "leaf_value_hash", "key", "transaction",
    "transaction_index", "transaction_proof", "ledger_info",
    "validator_verifier">>

\* bin/inclusion.rs 83-94: the order in which prove() writes stdin.
ProveWrites ==
  <<"sparse_merkle_proof", "key", "leaf_value_hash", "transaction",
    "transaction_index", "transaction_proof", "ledger_info",
    "validator_verifier">>

ExecuteWritesSwapped ==
  <<"sparse_merkle_proof", "leaf_value_hash", "key", "transaction",
    "transaction_index", "transaction_proof", "ledger_info",
    "validator_verifier">>

\* bin/inclusion.rs 109-120: the order in which execute() writes stdin.
ExecuteWrites ==
  <<"sparse_merkle_proof", "key", "leaf_value_hash", "transaction",
    "transaction_index", "transaction_proof", "ledger_info",
    "validator_verifier">>

\* inclusion.rs 90-101: the order in which generate_stdin writes stdin.
LibraryWrites ==
  <<"sparse_merkle_proof", "key", "leaf_value_hash", "transaction",
    "transaction_index", "transaction_proof", "ledger_info",
    "validator_verifier">>

\* bin/inclusion.rs 173-219: the order in which main reads and checks the
\* public values.
ProveReads ==
  <<"validator_verifier_hash", "state_hash", "block_hash", "key", "value">>

LibraryReadsSwapped ==
  <<"validator_verifier_hash", "block_hash", "state_hash", "key", "value">>

\* inclusion.rs 132-136: the order in which prove_inclusion reads them.
LibraryReads ==
  <<"validator_verifier_hash", "state_hash", "block_hash", "key", "value">>

OutputFields == {"validator_verifier_hash", "state_hash", "block_hash",
                 "key", "value"}

Writes(m) ==
  CASE m = "prove" -> ProveWrites
    [] m = "execute" -> ExecuteWrites
    [] m = "library" -> LibraryWrites

\* The position of x in a sequence s of distinct elements.
PositionIn(s, x) == SelectInSeq(s, LAMBDA y : y = x)

\* What the program's read of field f makes of a stdin item.
Interpret(f, item) ==
  IF item.field = f \/ (Width(item.field) = Width(f) /\ Width(f) # "vec")
  THEN item.val
  ELSE Malformed

VARIABLES
  hpc,      \* where the host is
  mode,     \* "prove", "execute" or "library"
  assets,   \* ProvingAssets: the inputs and the expected checkpoint hash
  stdin,    \* the items written to SP1Stdin
  hread,    \* how many public values the host has read
  output    \* InclusionOutput, built by prove_inclusion

hostVars == <<hpc, mode, assets, stdin, hread, output>>
allVars == <<vars, hostVars>>

\* The decoded input the program gets for field f.
In(f) ==
  IF PositionIn(ProgramReads, f) <= Len(stdin)
  THEN Interpret(f, stdin[PositionIn(ProgramReads, f)])
  ELSE Malformed

HostInit ==
  /\ Init
  /\ hpc = "start"
  /\ mode = None
  /\ assets = None
  /\ stdin = <<>>
  /\ hread = 0
  /\ output = None

\* bin/inclusion.rs 149-159: exactly one of --execute and --prove.
ParseArgs ==
  /\ hpc = "start"
  /\ \E execute, prove \in BOOLEAN :
       \/ /\ execute = prove
          /\ hpc' = "exited"
          /\ UNCHANGED <<mode, assets, stdin, hread, output>>
       \/ /\ execute # prove
          /\ mode' = IF execute THEN "execute" ELSE "prove"
          /\ hpc' = "build"
          /\ UNCHANGED <<assets, stdin, hread, output>>
  /\ UNCHANGED vars

\* inclusion.rs 107-119: a caller of prove_inclusion, with assets built as
\* the benchmark builds them.
LibraryCall ==
  /\ hpc = "start"
  /\ mode' = "library"
  /\ hpc' = "build"
  /\ UNCHANGED <<assets, stdin, hread, output>>
  /\ UNCHANGED vars

(***************************************************************************)
(* ProvingAssets, as from_nbr_leaves fills it (bin/inclusion.rs 23-28,     *)
(* 45-76) from the simulated chain: a signed ledger info of block b, with  *)
(* signer list s; the transaction at index i with its accumulator proof;   *)
(* the sparse proof of key k in that transaction's state; the committee    *)
(* of the block's epoch; and the transaction's checkpoint hash.            *)
(***************************************************************************)
ProvingAssets(b, k, i, s) ==
  LET txns == ChainBlock[b].txns
      t == txns[i + 1]
  IN [sparse_merkle_proof |-> [key |-> k, tree |-> t.checkpoint],
      key |-> k,
      leaf_value_hash |-> t.checkpoint[k],
      transaction |-> t,
      transaction_index |-> i,
      transaction_proof |-> [txns |-> txns, index |-> i],
      ledger_info |->
        [header |-> [epoch |-> ChainBlock[b].epoch, block |-> b, txns |-> txns],
         sigs |-> s],
      validator_verifier |-> ChainCommittee[ChainBlock[b].epoch],
      state_checkpoint_hash |-> SmtRoot(t.checkpoint)]

(***************************************************************************)
(* bin/inclusion.rs 31-77, ProvingAssets::from_nbr_leaves: the simulated   *)
(* chain's signers are distinct members of the block's committee holding   *)
(* a quorum.  The unwrap of ensure_state_checkpoint_hash panics when the   *)
(* transaction has no checkpoint.                                          *)
(***************************************************************************)
BuildAssets ==
  /\ hpc = "build"
  /\ \E b \in BlockIds, k \in StateKeys :
       LET txns == ChainBlock[b].txns
           c == ChainCommittee[ChainBlock[b].epoch]
       IN \E i \in 0..(Len(txns) - 1), s \in HonestSignerLists(c) :
            \/ /\ txns[i + 1].checkpoint = None
               /\ hpc' = "assetPanicked"
               /\ UNCHANGED assets
            \/ /\ txns[i + 1].checkpoint # None
               /\ assets' = ProvingAssets(b, k, i, s)
               /\ hpc' = "write"
  /\ UNCHANGED <<mode, stdin, hread, output>>
  /\ UNCHANGED vars

\* prove(), execute() or generate_stdin: write the inputs to SP1Stdin.
WriteStdin ==
  /\ hpc = "write"
  /\ stdin' = [j \in DOMAIN Writes(mode) |->
                 [field |-> Writes(mode)[j], val |-> assets[Writes(mode)[j]]]]
  /\ hpc' = "run"
  /\ UNCHANGED <<mode, assets, hread, output>>
  /\ UNCHANGED vars

\* A step of the program on the inputs it reads from stdin.
ProgramStep ==
  /\ hpc = "run"
  /\ \/ DecodeVerifier(In("validator_verifier"))
     \/ VerifyTransaction(In("transaction"), In("transaction_index"),
                          In("transaction_proof"), In("ledger_info"))
     \/ VerifyLedger
     \/ VerifyState(In("sparse_merkle_proof"), In("key"),
                    In("leaf_value_hash"))
     \/ CommitOutputs
  /\ UNCHANGED hostVars

(***************************************************************************)
(* The prover returns: prove() and execute() panic on an aborted program   *)
(* (expect, unwrap; bin/inclusion.rs 97-100, 122), prove_inclusion maps it *)
(* to a ProvingError (inclusion.rs 122-129).  On success prove() goes on   *)
(* to check the public values, execute() prints its report and             *)
(* prove_inclusion reads the public values.                                *)
(***************************************************************************)
ProgramEnds ==
  /\ hpc = "run"
  /\ pc \in {"done", "aborted"}
  /\ hpc' = IF pc = "aborted"
              THEN IF mode = "library" THEN "error" ELSE "proverPanicked"
              ELSE CASE mode = "prove" -> "check"
                     [] mode = "execute" -> "reported"
                     [] mode = "library" -> "read"
  /\ UNCHANGED <<mode, assets, stdin, hread, output>>
  /\ UNCHANGED vars

\* What bin/inclusion.rs 173-219 expects of each public value.
Expected(f) ==
  CASE f = "validator_verifier_hash" ->
         VerifierHash(assets.validator_verifier)
    [] f = "state_hash" -> assets.state_checkpoint_hash
    [] f = "block_hash" -> assets.ledger_info.header.block
    [] f = "key" -> assets.key
    [] f = "value" -> assets.leaf_value_hash

\* bin/inclusion.rs 173-219: read the next public value and assert it.  The
\* program commits five values, so no read runs past their end.
CheckPublicValue ==
  /\ hpc = "check"
  /\ hread < Len(ProveReads)
  /\ hread < Len(committed)
  /\ \/ /\ committed[hread + 1] # Expected(ProveReads[hread + 1])
        /\ hpc' = "assertFailed"
        /\ UNCHANGED hread
     \/ /\ committed[hread + 1] = Expected(ProveReads[hread + 1])
        /\ hread' = hread + 1
        /\ hpc' = IF hread + 1 = Len(ProveReads) THEN "accepted" ELSE "check"
  /\ UNCHANGED <<mode, assets, stdin, output>>
  /\ UNCHANGED vars

\* inclusion.rs 132-146: read the public values into an InclusionOutput.
ReadOutput ==
  /\ hpc = "read"
  /\ Len(committed) >= Len(LibraryReads)
  /\ output' = [f \in OutputFields |-> committed[PositionIn(LibraryReads, f)]]
  /\ hpc' = "returned"
  /\ UNCHANGED <<mode, assets, stdin, hread>>
  /\ UNCHANGED vars

HostNext ==
  \/ ParseArgs
  \/ LibraryCall
  \/ BuildAssets
  \/ WriteStdin
  \/ ProgramStep
  \/ ProgramEnds
  \/ CheckPublicValue
  \/ ReadOutput

HostSpec == HostInit /\ [][HostNext]_allVars

-----------------------------------------------------------------------------
HostTypeOK ==
  /\ hpc \in {"start", "build", "write", "run", "check", "read", "exited",
              "assetPanicked", "proverPanicked", "error", "assertFailed",
              "accepted", "reported", "returned"}
  /\ mode \in {"prove", "execute", "library", None}
  /\ Len(stdin) <= Len(ProgramReads)
  /\ hread \in 0..Len(ProveReads)

\* The value the program computed for each public field, whatever the
\* order it commits them in.
ProgramOutput ==
  [validator_verifier_hash |-> VerifierHash(committee),
   state_hash |-> root,
   block_hash |-> li.header.block,
   key |-> key,
   value |-> value]

(***************************************************************************)
(* An honest run succeeds (spec 8, end-to-end inclusion): once the host    *)
(* has built its inputs from the chain, the program does not abort on      *)
(* them, and every check bin/inclusion.rs makes of the public values       *)
(* passes.  This needs the three places that write stdin to agree with the *)
(* program's reads, and the program's commits with the host's reads, and   *)
(* the reconstructed root to be the transaction's checkpoint.              *)
(***************************************************************************)
HonestRunSucceeds ==
  hpc \notin {"proverPanicked", "error", "assertFailed"}

(***************************************************************************)
(* prove_inclusion returns each public value under its own name: the       *)
(* InclusionOutput's field f holds what the program computed for f.  The   *)
(* library reads by position and nothing checks the names.                 *)
(***************************************************************************)
LibraryOutputFaithful ==
  hpc = "returned" => output = ProgramOutput

(***************************************************************************)
(* Whenever the program commits on the host's stdin, in any mode, each      *)
(* public value is the one bin/inclusion.rs 173-219 expects of the inputs   *)
(* it built.  execute() (bin/inclusion.rs 122) discards the public values   *)
(* and prove_inclusion does not check them, so in those modes a writer      *)
(* that swaps two [u8; 32] fields runs to completion unnoticed.             *)
(***************************************************************************)
CommittedValuesOfAssets ==
  pc = "done" =>
    \A j \in 1..Len(ProveReads) : committed[j] = Expected(ProveReads[j])
-----------------------------------------------------------------------------
(***************************************************************************)
(* The inductive invariant behind the host's properties.  The assets are   *)
(* the chain's; once written, stdin holds every input at the position the  *)
(* program reads it from, so the program decodes exactly the assets, and   *)
(* each stage holds what it decoded from them.  The program never aborts,  *)
(* and what it commits is what the host expects.                           *)
(***************************************************************************)
HonestAssets ==
  \E b \in BlockIds, k \in StateKeys :
    \E i \in 0..(Len(ChainBlock[b].txns) - 1),
       s \in HonestSignerLists(ChainCommittee[ChainBlock[b].epoch]) :
      /\ ChainBlock[b].txns[i + 1].checkpoint # None
      /\ assets = ProvingAssets(b, k, i, s)

Launched == {"run", "proverPanicked", "error", "check", "read", "reported",
             "accepted", "returned", "assertFailed"}

HostProgress ==
  /\ hread \in 0..Len(ProveReads)
  /\ hpc \notin {"start", "exited"} => mode \in {"prove", "execute", "library"}
  /\ hpc \in Launched \cup {"write"} => HonestAssets
  /\ hpc \in Launched =>
       stdin = [j \in 1..Len(ProgramReads) |->
                  [field |-> ProgramReads[j], val |-> assets[ProgramReads[j]]]]
  /\ pc # "start" => hpc \in Launched /\ committee = assets.validator_verifier
  /\ pc \in {"txVerified", "ledgerVerified", "stateVerified", "done"} =>
       /\ tx = assets.transaction
       /\ index = assets.transaction_index
       /\ li = assets.ledger_info
  /\ pc \in {"stateVerified", "done"} =>
       /\ key = assets.key
       /\ value = assets.leaf_value_hash
       /\ root = assets.state_checkpoint_hash
  /\ pc # "aborted"
  /\ hpc \in Launched \ {"run"} => pc = "done"
  /\ hpc \notin {"proverPanicked", "error", "assertFailed"}
  /\ hpc = "returned" => output = ProgramOutput

HostIInv == IInv /\ HostProgress

=============================================================================
